-------------------------- MODULE HostExecutorProofs --------------------------
(***************************************************************************)
(* Machine-checked proofs about HostExecutor, for any set of IDs, requests *)
(* and clock readings and any number of storage failures and crashes.      *)
(***************************************************************************)
EXTENDS HostExecutor, TLAPS

Working == {"preflight", "effect", "pending", "finalize", "final", "settle"}
Starting == {"down", "scan"}
Finished == {"succeeded", "failed"}

\* Where finish() and load() are, and what their local record may hold.
ControlInv ==
  /\ pc \in Working <=> job # NoOp
  /\ pc \in Working \cup {"down", "scan", "roll"} => ~journalFailed
  /\ pc # "scan" => scan = {}
  /\ pc \notin {"settle", "roll"} => todo = {}
  /\ pc \in {"preflight", "effect"} => res.state = "running"
  /\ pc \in {"pending", "finalize"} => res.state = "succeeded"
  /\ pc = "final" => res.state \in Finished \cup {"recovery-required"}
  /\ pc \in Working => /\ res.by = NoOp
                       /\ res.action = disk[job].action
                       /\ res.parent = disk[job].parent
  /\ pc = "preflight" => effects[job] = 0
  /\ pc = "final" /\ res.state = "failed" => effects[job] = 0

\* How the helper's memory and the journal directory correspond.
MirrorInv ==
  /\ pc = "down" => mem = [id \in Ids |-> Blank]
  /\ pc = "scan" => \A id \in Ids : IF id \in scan THEN mem[id] = Blank
                                    ELSE mem[id] = disk[id]
  /\ pc \notin Starting /\ ~journalFailed => mem = disk
  /\ \A id \in Ids : mem[id].state \in Finished => disk[id] = mem[id]

\* Which journal records can be unfinished, and what settlement rewrites.
RunInv ==
  /\ pc \in Working \ {"settle"} => disk[job].state = "running"
  /\ pc = "settle" => disk[job].state = "succeeded"
  /\ pc = "scan" => \A id \in Ids : disk[id].state = "running" => id \in scan
  /\ pc \notin Starting /\ ~journalFailed =>
       \A id \in Ids : disk[id].state = "running" => id = job
  /\ todo # {} => /\ winner \in Ids /\ disk[winner].state = "succeeded"
                  /\ \A id \in todo : disk[id].state = "recovery-required"
  /\ pc = "roll" => roll \subseteq SucceededRestores(mem)
  /\ pc = "roll" /\ ~helperLock => ~recoverySettlementPending(mem)

\* What the history of started effects says about the journal directory.
JournalInv ==
  /\ \A id \in Ids : disk[id].state = "none" => disk[id] = Blank
  /\ \A id \in Ids : effects[id] <= 1
  /\ \A id \in Ids : effects[id] > 0 =>
       disk[id].state # "none" /\ ~readOnlyAction(disk[id].action)
  /\ FailedEffectsAreRecovered

\* Who can hold the canonical lock together.
LockInv ==
  /\ job # NoOp \/ todo # {} => helperLock
  /\ helperLock => ~legacy
  /\ helperLock /\ pc # "effect" => child = NoOp
  /\ pc = "effect" => child = job
  /\ legacy => child = NoOp
  /\ child # NoOp \/ legacy => inhibit
  /\ BuildsOnlyInReadyAI

IInv ==
  TypeOK /\ ControlInv /\ MirrorInv /\ RunInv /\ JournalInv /\ LockInv

-----------------------------------------------------------------------------
(* Records and sessions.  The action proofs use these facts and leave the    *)
(* record operators folded.                                                  *)

LEMMA RecordFacts ==
  ASSUME NEW r \in Record
  PROVE  /\ r.state \in States /\ r.parent \in Ids \cup {NoOp}
         /\ r.by \in Ids \cup {NoOp}
  BY DEF Record

LEMMA BlankFacts ==
  /\ Blank \in Record
  /\ Blank.state = "none" /\ Blank.by = NoOp
  BY DEF Blank, Record, States

LEMMA WithStateFacts ==
  ASSUME NEW r \in Record, NEW s \in States
  PROVE  /\ WithState(r, s) \in Record
         /\ WithState(r, s).state = s /\ WithState(r, s).by = r.by
         /\ WithState(r, s).action = r.action
         /\ WithState(r, s).parent = r.parent
  BY DEF WithState, Record

LEMMA AcceptedFacts ==
  ASSUME NEW d \in Drafts, NEW now \in Times
  PROVE  /\ Accepted(d, now) \in Record
         /\ Accepted(d, now).state = "running" /\ Accepted(d, now).by = NoOp
  BY HostConstants DEF Accepted, Blank, Record, States

LEMMA InterruptedFacts ==
  ASSUME NEW r \in Record
  PROVE  /\ Interrupted(r) \in Record
         /\ Interrupted(r).state = IF readOnlyAction(r.action) THEN "failed"
                                   ELSE "recovery-required"
         /\ Interrupted(r).action = r.action /\ Interrupted(r).by = r.by
  BY WithStateFacts DEF Interrupted, States

LEMMA SettledFacts ==
  ASSUME NEW r \in Record, winner \in Ids
  PROVE  /\ Settled(r) \in Record
         /\ Settled(r).state = "failed" /\ Settled(r).by = winner
         /\ Settled(r).action = r.action
  BY DEF Settled, Record, States

LEMMA SessionFacts ==
  /\ \A m \in Modes : Ready(m) \in Session
  /\ \A s \in Session : InTransition(s) \in Session
  /\ \A action : EffectModes(action) \subseteq Modes
  BY DEF Modes, Ready, InTransition, Session, EffectModes

\* What one journal write does to the directory and to e.records.
LEMMA SaveSucceedsFacts ==
  ASSUME TypeOK, NEW i \in Ids, NEW r \in Record, SaveSucceeds(i, r)
  PROVE  /\ disk' \in [Ids -> Record] /\ mem' \in [Ids -> Record]
         /\ disk'[i] = r /\ mem'[i] = r
         /\ \A x \in Ids : x # i => disk'[x] = disk[x] /\ mem'[x] = mem[x]
         /\ mem = disk => mem' = disk'
         /\ journalFailed' = journalFailed /\ faults' = faults
  BY DEF TypeOK, SaveSucceeds

LEMMA SaveFailsFacts ==
  ASSUME TypeOK, NEW i \in Ids, NEW r \in Record, SaveFails(i, r)
  PROVE  /\ disk' \in [Ids -> Record] /\ mem' = mem
         /\ disk'[i] = disk[i] \/ disk'[i] = r
         /\ \A x \in Ids : x # i => disk'[x] = disk[x]
         /\ journalFailed' = TRUE /\ faults' \in Nat
  BY DEF TypeOK, SaveFails

\* A write of r over the unfinished record i keeps the history of effects.
LEMMA WriteJournalInv ==
  ASSUME TypeOK, JournalInv, NEW i \in Ids, NEW r \in Record,
         disk' \in [Ids -> Record],
         disk'[i] = disk[i] \/ disk'[i] = r,
         \A x \in Ids : x # i => disk'[x] = disk[x],
         UNCHANGED effects,
         r.state # "none", disk[i].state # "succeeded",
         effects[i] > 0 => r.action = disk[i].action,
         effects[i] > 0 /\ r.state = "failed" =>
           r.by \in Ids /\ disk[r.by].state = "succeeded"
  PROVE  JournalInv'
  <1>1. \A id \in Ids : disk'[id].state = "none" => disk'[id] = Blank
    BY DEF JournalInv
  <1>2. \A id \in Ids : effects'[id] > 0 =>
          disk'[id].state # "none" /\ ~readOnlyAction(disk'[id].action)
    BY DEF JournalInv
  <1>3. FailedEffectsAreRecovered'
    <2> SUFFICES ASSUME NEW id \in Ids, disk'[id].state = "failed", effects[id] > 0
                 PROVE  disk'[id].by # NoOp /\ disk'[disk'[id].by].state = "succeeded"
      BY DEF FailedEffectsAreRecovered
    <2>1. /\ disk'[id].by \in Ids /\ disk'[id].by # NoOp
          /\ disk[disk'[id].by].state = "succeeded"
      <3>1. CASE id = i /\ disk'[i] = r
        BY <3>1, HostConstants DEF NoOp
      <3>2. CASE disk'[id] = disk[id]
        BY <3>2, RecordFacts DEF TypeOK, JournalInv, FailedEffectsAreRecovered
      <3> QED
        BY <3>1, <3>2
    <2> QED
      BY <2>1
  <1> QED
    BY <1>1, <1>2, <1>3 DEF JournalInv

\* Every exit of the process leaves a state from which load() can start.
LEMMA ProcessGoneIInv ==
  ASSUME IInv, ProcessGone, mem' = [id \in Ids |-> Blank], journalFailed' = FALSE,
         disk' \in [Ids -> Record], JournalInv',
         child' = child \/ child' = NoOp, UNCHANGED <<legacy, session, inhibit, effects>>,
         faults' \in Nat, crashes' \in Nat
  PROVE  IInv'
  <1>1. TypeOK'
    BY BlankFacts DEF IInv, TypeOK, ProcessGone
  <1>2. ControlInv'
    BY <1>1, BlankFacts DEF ControlInv, ProcessGone, Working
  <1>3. MirrorInv'
    BY <1>1, BlankFacts DEF MirrorInv, ProcessGone, Starting, Finished
  <1>4. RunInv'
    BY DEF RunInv, ProcessGone, Working, Starting
  <1>5. LockInv'
    BY DEF IInv, LockInv, BuildsOnlyInReadyAI, ProcessGone
  <1> QED
    BY <1>1, <1>2, <1>3, <1>4, <1>5 DEF IInv

-----------------------------------------------------------------------------
(* One lemma per action: the step keeps IInv.                                *)

LEMMA InitIInv == Init => IInv
  <1> SUFFICES ASSUME Init PROVE IInv
    OBVIOUS
  <1> USE HostConstants, BlankFacts, SessionFacts DEF Init, NoOp, TypeOK
  <1>1. TypeOK
    BY DEF Modes
  <1>2. ControlInv
    BY DEF ControlInv, Working
  <1>3. MirrorInv
    BY DEF MirrorInv, Starting, Finished
  <1>4. RunInv
    BY DEF RunInv, Working, Starting
  <1>5. JournalInv
    <2>1. \A id \in Ids : disk[id] = Blank /\ effects[id] = 0
      OBVIOUS
    <2> QED
      BY ONLY <2>1, BlankFacts DEF JournalInv, FailedEffectsAreRecovered
  <1>6. LockInv
    BY DEF LockInv, BuildsOnlyInReadyAI, Ready
  <1> QED
    BY <1>1, <1>2, <1>3, <1>4, <1>5, <1>6 DEF IInv

LEMMA SubmitIInv ==
  ASSUME IInv, NEW i \in Ids, NEW d \in Drafts, NEW now \in Times,
         Submit(i, d, now)
  PROVE  IInv'
  <1> DEFINE r == Accepted(d, now)
  <1>1. r \in Record /\ r.state = "running" /\ r.by = NoOp
    BY AcceptedFacts
  <1>2. /\ pc = "idle" /\ job = NoOp /\ mem[i].state = "none" /\ ~journalFailed
        /\ LockFree
        /\ UNCHANGED <<scan, roll, winner, todo, child, legacy, session, inhibit,
                       effects, crashes>>
    BY DEF Submit
  <1>3. /\ mem = disk /\ disk[i].state = "none" /\ todo = {} /\ scan = {}
        /\ effects[i] = 0
    BY <1>2 DEF IInv, TypeOK, ControlInv, MirrorInv, JournalInv, Starting
  <1>4. CASE /\ SaveSucceeds(i, r)
             /\ job' = i /\ res' = r /\ pc' = "preflight" /\ helperLock' = TRUE
    <2> HIDE DEF r
    <2>1. /\ disk' \in [Ids -> Record] /\ mem' \in [Ids -> Record]
          /\ disk'[i] = r /\ mem'[i] = r
          /\ \A x \in Ids : x # i => disk'[x] = disk[x] /\ mem'[x] = mem[x]
          /\ mem' = disk'
          /\ journalFailed' = journalFailed /\ faults' = faults
      BY <1>1, <1>3, <1>4, SaveSucceedsFacts DEF IInv
    <2>2. TypeOK'
      BY <1>1, <1>2, <1>4, <2>1 DEF IInv, TypeOK
    <2>3. ControlInv'
      BY <1>1, <1>2, <1>3, <1>4, <2>1, HostConstants
         DEF IInv, ControlInv, Working, NoOp
    <2>4. MirrorInv'
      BY <1>2, <1>4, <2>1 DEF IInv, MirrorInv, Starting
    <2>5. RunInv'
      BY <1>1, <1>2, <1>3, <1>4, <2>1, HostConstants
         DEF IInv, RunInv, Starting, Working, NoOp
    <2>6. JournalInv'
      BY <1>1, <1>2, <1>3, <2>1, WriteJournalInv DEF IInv
    <2>7. LockInv'
      BY <1>2, <1>3, <1>4 DEF IInv, LockInv, LockFree, BuildsOnlyInReadyAI
    <2> QED
      BY <2>2, <2>3, <2>4, <2>5, <2>6, <2>7 DEF IInv
  <1>5. CASE SaveFails(i, r) /\ UNCHANGED <<job, res, pc, helperLock>>
    <2> HIDE DEF r
    <2>1. /\ disk' \in [Ids -> Record] /\ mem' = mem
          /\ disk'[i] = disk[i] \/ disk'[i] = r
          /\ \A x \in Ids : x # i => disk'[x] = disk[x]
          /\ journalFailed' = TRUE /\ faults' \in Nat
      BY <1>1, <1>5, SaveFailsFacts DEF IInv
    <2>2. TypeOK'
      BY <1>2, <1>5, <2>1 DEF IInv, TypeOK
    <2>3. ControlInv'
      BY <1>2, <1>5, <2>1 DEF IInv, ControlInv, Working
    <2>4. MirrorInv'
      BY <1>2, <1>3, <1>5, <2>1 DEF IInv, MirrorInv, Starting, Finished
    <2>5. RunInv'
      BY <1>2, <1>3, <1>5, <2>1 DEF IInv, RunInv, Starting, Working
    <2>6. JournalInv'
      BY <1>1, <1>2, <1>3, <2>1, WriteJournalInv DEF IInv
    <2>7. LockInv'
      BY <1>2, <1>5 DEF IInv, LockInv, BuildsOnlyInReadyAI
    <2> QED
      BY <2>2, <2>3, <2>4, <2>5, <2>6, <2>7 DEF IInv
  <1> QED
    BY <1>4, <1>5 DEF Submit

LEMMA PreflightRefusedIInv == ASSUME IInv, PreflightRefused PROVE IInv'
  <1> USE HostConstants, WithStateFacts DEF IInv, TypeOK, PreflightRefused, journal, host, NoOp
  <1>1. TypeOK'
    BY DEF States, Modes
  <1>2. ControlInv'
    BY DEF ControlInv, MirrorInv, RunInv, Working, Finished, States
  <1>3. MirrorInv'
    BY DEF MirrorInv, ControlInv, RunInv, Working, Starting, Finished, States
  <1>4. RunInv'
    BY DEF RunInv, ControlInv, MirrorInv, LockInv, Working, Starting, Finished, States, SucceededRestores, recoverySettlementPending
  <1>5. JournalInv'
    BY DEF JournalInv, FailedEffectsAreRecovered
  <1>6. LockInv'
    BY DEF LockInv, BuildsOnlyInReadyAI, Ready, InTransition, ControlInv, RunInv, Working
  <1> QED
    BY <1>1, <1>2, <1>3, <1>4, <1>5, <1>6

LEMMA ReadOnlyCompletesIInv == ASSUME IInv, ReadOnlyCompletes PROVE IInv'
  <1> USE HostConstants, WithStateFacts DEF IInv, TypeOK, ReadOnlyCompletes, journal, host, NoOp
  <1>1. TypeOK'
    BY DEF States, Modes
  <1>2. ControlInv'
    BY DEF ControlInv, MirrorInv, RunInv, Working, Finished, States
  <1>3. MirrorInv'
    BY DEF MirrorInv, ControlInv, RunInv, Working, Starting, Finished, States
  <1>4. RunInv'
    BY DEF RunInv, ControlInv, MirrorInv, LockInv, Working, Starting, Finished, States, SucceededRestores, recoverySettlementPending
  <1>5. JournalInv'
    BY DEF JournalInv, FailedEffectsAreRecovered
  <1>6. LockInv'
    BY DEF LockInv, BuildsOnlyInReadyAI, Ready, InTransition, ControlInv, RunInv, Working
  <1> QED
    BY <1>1, <1>2, <1>3, <1>4, <1>5, <1>6

LEMMA EffectFailsIInv == ASSUME IInv, EffectFails PROVE IInv'
  <1> USE HostConstants, WithStateFacts DEF IInv, TypeOK, EffectFails, journal, NoOp
  <1>1. TypeOK'
    BY DEF States, Modes
  <1>2. ControlInv'
    BY DEF ControlInv, MirrorInv, RunInv, Working, Finished, States
  <1>3. MirrorInv'
    BY DEF MirrorInv, ControlInv, RunInv, Working, Starting, Finished, States
  <1>4. RunInv'
    BY DEF RunInv, ControlInv, MirrorInv, LockInv, Working, Starting, Finished, States, SucceededRestores, recoverySettlementPending
  <1>5. JournalInv'
    BY DEF JournalInv, FailedEffectsAreRecovered
  <1>6. LockInv'
    BY DEF LockInv, BuildsOnlyInReadyAI, Ready, InTransition, ControlInv, RunInv, Working
  <1> QED
    BY <1>1, <1>2, <1>3, <1>4, <1>5, <1>6

LEMMA ServeIInv == ASSUME IInv, Serve PROVE IInv'
  <1> USE HostConstants DEF IInv, TypeOK, Serve, journal, NoOp
  <1>1. TypeOK'
    BY DEF States, Modes
  <1>2. ControlInv'
    BY DEF ControlInv, MirrorInv, RunInv, Working, Finished, States
  <1>3. MirrorInv'
    BY DEF MirrorInv, ControlInv, RunInv, Working, Starting, Finished, States
  <1>4. RunInv'
    BY DEF RunInv, ControlInv, MirrorInv, LockInv, Working, Starting, Finished, States, SucceededRestores, recoverySettlementPending
  <1>5. JournalInv'
    BY DEF JournalInv, FailedEffectsAreRecovered
  <1>6. LockInv'
    BY DEF LockInv, BuildsOnlyInReadyAI, Ready, InTransition, ControlInv, RunInv, Working
  <1> QED
    BY <1>1, <1>2, <1>3, <1>4, <1>5, <1>6

LEMMA OrphanExitsIInv == ASSUME IInv, OrphanExits PROVE IInv'
  <1> USE HostConstants, SessionFacts DEF IInv, TypeOK, OrphanExits, journal, control, NoOp
  <1>1. TypeOK'
    BY DEF States, Modes
  <1>2. ControlInv'
    BY DEF ControlInv, MirrorInv, RunInv, Working, Finished, States
  <1>3. MirrorInv'
    BY DEF MirrorInv, ControlInv, RunInv, Working, Starting, Finished, States
  <1>4. RunInv'
    BY DEF RunInv, ControlInv, MirrorInv, LockInv, Working, Starting, Finished, States, SucceededRestores, recoverySettlementPending
  <1>5. JournalInv'
    BY DEF JournalInv, FailedEffectsAreRecovered
  <1>6. LockInv'
    BY DEF LockInv, BuildsOnlyInReadyAI, Ready, InTransition, ControlInv, RunInv, Working
  <1> QED
    BY <1>1, <1>2, <1>3, <1>4, <1>5, <1>6

LEMMA LegacyStartsIInv == ASSUME IInv, LegacyStarts PROVE IInv'
  <1> USE HostConstants, SessionFacts DEF IInv, TypeOK, LegacyStarts, LockFree, journal, control, NoOp
  <1>1. TypeOK'
    BY DEF States, Modes
  <1>2. ControlInv'
    BY DEF ControlInv, MirrorInv, RunInv, Working, Finished, States
  <1>3. MirrorInv'
    BY DEF MirrorInv, ControlInv, RunInv, Working, Starting, Finished, States
  <1>4. RunInv'
    BY DEF RunInv, ControlInv, MirrorInv, LockInv, Working, Starting, Finished, States, SucceededRestores, recoverySettlementPending
  <1>5. JournalInv'
    BY DEF JournalInv, FailedEffectsAreRecovered
  <1>6. LockInv'
    BY DEF LockInv, BuildsOnlyInReadyAI, Ready, InTransition, ControlInv, RunInv, Working
  <1> QED
    BY <1>1, <1>2, <1>3, <1>4, <1>5, <1>6

LEMMA LegacyEndsIInv == ASSUME IInv, LegacyEnds PROVE IInv'
  <1> USE HostConstants, SessionFacts DEF IInv, TypeOK, LegacyEnds, journal, control, NoOp
  <1>1. TypeOK'
    BY DEF States, Modes
  <1>2. ControlInv'
    BY DEF ControlInv, MirrorInv, RunInv, Working, Finished, States
  <1>3. MirrorInv'
    BY DEF MirrorInv, ControlInv, RunInv, Working, Starting, Finished, States
  <1>4. RunInv'
    BY DEF RunInv, ControlInv, MirrorInv, LockInv, Working, Starting, Finished, States, SucceededRestores, recoverySettlementPending
  <1>5. JournalInv'
    BY DEF JournalInv, FailedEffectsAreRecovered
  <1>6. LockInv'
    BY DEF LockInv, BuildsOnlyInReadyAI, Ready, InTransition, ControlInv, RunInv, Working
  <1> QED
    BY <1>1, <1>2, <1>3, <1>4, <1>5, <1>6


LEMMA StartEffectIInv == ASSUME IInv, StartEffect PROVE IInv'
  <1>1. /\ pc = "preflight" /\ ~readOnlyAction(res.action)
        /\ effects' = [effects EXCEPT ![job] = @ + 1]
        /\ child' = job /\ session' = InTransition(session)
        /\ inhibit' = TRUE /\ pc' = "effect"
        /\ UNCHANGED <<disk, mem, journalFailed, faults, crashes, job, res, scan,
                       roll, winner, todo, helperLock, legacy>>
    BY DEF StartEffect, journal
  <1>2. /\ job \in Ids /\ effects[job] = 0 /\ disk[job].state = "running"
        /\ res.action = disk[job].action
    BY <1>1 DEF IInv, TypeOK, ControlInv, RunInv, Working
  <1>3. /\ effects' \in [Ids -> Nat] /\ effects'[job] = 1
        /\ \A x \in Ids : x # job => effects'[x] = effects[x]
    BY <1>1, <1>2 DEF IInv, TypeOK
  <1>4. TypeOK'
    BY <1>1, <1>2, <1>3, SessionFacts DEF IInv, TypeOK
  <1>5. ControlInv'
    BY <1>1 DEF IInv, ControlInv, Working
  <1>6. MirrorInv'
    BY <1>1 DEF IInv, MirrorInv, Starting
  <1>7. RunInv'
    BY <1>1 DEF IInv, ControlInv, RunInv, Working, Starting
  <1>8. JournalInv'
    BY <1>1, <1>2, <1>3 DEF IInv, JournalInv, FailedEffectsAreRecovered
  <1>9. LockInv'
    BY <1>1 DEF IInv, LockInv, ControlInv, Working, BuildsOnlyInReadyAI
  <1> QED
    BY <1>4, <1>5, <1>6, <1>7, <1>8, <1>9 DEF IInv

LEMMA EffectSucceedsIInv == ASSUME IInv, EffectSucceeds PROVE IInv'
  <1>1. PICK m \in EffectModes(res.action) : session' = Ready(m)
    BY DEF EffectSucceeds
  <1>2. session' \in Session
    BY <1>1, SessionFacts
  <1>3. /\ pc = "effect" /\ child' = NoOp /\ pc' = "pending"
        /\ res' = WithState(res, "succeeded")
        /\ UNCHANGED <<disk, mem, journalFailed, faults, crashes, job, scan, roll,
                       winner, todo, helperLock, legacy, inhibit, effects>>
    BY DEF EffectSucceeds, journal
  <1>4. /\ res' \in Record /\ res'.state = "succeeded" /\ res'.by = res.by
        /\ res'.action = res.action /\ res'.parent = res.parent
    BY <1>3, WithStateFacts DEF IInv, TypeOK, States
  <1>5. TypeOK'
    BY <1>2, <1>3, <1>4 DEF IInv, TypeOK
  <1>6. ControlInv'
    BY <1>3, <1>4 DEF IInv, ControlInv, Working
  <1>7. MirrorInv'
    BY <1>3 DEF IInv, MirrorInv, Starting
  <1>8. RunInv'
    BY <1>3 DEF IInv, ControlInv, RunInv, Working, Starting
  <1>9. JournalInv'
    BY <1>3 DEF IInv, JournalInv, FailedEffectsAreRecovered
  <1>10. LockInv'
    BY <1>3, HostConstants DEF IInv, TypeOK, LockInv, ControlInv, Working, NoOp,
                               BuildsOnlyInReadyAI
  <1> QED
    BY <1>5, <1>6, <1>7, <1>8, <1>9, <1>10 DEF IInv

LEMMA FinalizeIInv == ASSUME IInv, Finalize PROVE IInv'
  <1>1. /\ pc = "finalize" /\ pc' = "final"
        /\ inhibit' = inhibit \/ (session = Ready("ai") /\ inhibit' = FALSE)
        /\ res' = res \/ res' = WithState(res, "recovery-required")
        /\ UNCHANGED <<disk, mem, journalFailed, faults, crashes, job, scan, roll,
                       winner, todo, helperLock, child, legacy, session, effects>>
    BY DEF Finalize, journal
  <1>2. /\ res' \in Record /\ res'.by = res.by
        /\ res'.state \in {"succeeded", "recovery-required"}
        /\ res'.action = res.action /\ res'.parent = res.parent
    BY <1>1, WithStateFacts DEF IInv, TypeOK, ControlInv, States
  <1>3. TypeOK'
    BY <1>1, <1>2 DEF IInv, TypeOK
  <1>4. ControlInv'
    BY <1>1, <1>2 DEF IInv, ControlInv, Working, Finished
  <1>5. MirrorInv'
    BY <1>1 DEF IInv, MirrorInv, Starting
  <1>6. RunInv'
    BY <1>1 DEF IInv, RunInv, ControlInv, Working, Starting
  <1>7. JournalInv'
    BY <1>1 DEF IInv, JournalInv, FailedEffectsAreRecovered
  <1>8. LockInv'
    BY <1>1 DEF IInv, LockInv, ControlInv, Working, BuildsOnlyInReadyAI
  <1> QED
    BY <1>3, <1>4, <1>5, <1>6, <1>7, <1>8 DEF IInv

LEMMA CrashIInv == ASSUME IInv, Crash PROVE IInv'
  <1>1. JournalInv' /\ disk' \in [Ids -> Record]
    BY DEF IInv, TypeOK, Crash, JournalInv, FailedEffectsAreRecovered
  <1>2. faults' \in Nat /\ crashes' \in Nat
    BY DEF IInv, TypeOK, Crash
  <1> QED
    BY <1>1, <1>2, ProcessGoneIInv DEF Crash

LEMMA StopIInv == ASSUME IInv, Stop PROVE IInv'
  <1>1. JournalInv' /\ disk' \in [Ids -> Record]
    BY DEF IInv, TypeOK, Stop, JournalInv, FailedEffectsAreRecovered
  <1>2. faults' \in Nat /\ crashes' \in Nat
    BY DEF IInv, TypeOK, Stop
  <1> QED
    BY <1>1, <1>2, ProcessGoneIInv DEF Stop

LEMMA StartIInv == ASSUME IInv, Start PROVE IInv'
  <1>1. /\ pc = "down" /\ pc' = "scan" /\ scan' = Known(disk)
        /\ UNCHANGED <<disk, mem, journalFailed, faults, helperLock, child, legacy,
                       session, inhibit, effects, crashes, job, res, roll, winner,
                       todo>>
    BY DEF Start, journal, host
  <1>2. TypeOK'
    BY <1>1 DEF IInv, TypeOK, Known
  <1>3. ControlInv'
    BY <1>1 DEF IInv, ControlInv, Working
  <1>4. MirrorInv'
    BY <1>1, BlankFacts DEF IInv, TypeOK, MirrorInv, JournalInv, Known, Starting, Finished
  <1>5. RunInv'
    BY <1>1 DEF IInv, ControlInv, RunInv, Known, Working, Starting
  <1>6. JournalInv'
    BY <1>1 DEF IInv, JournalInv, FailedEffectsAreRecovered
  <1>7. LockInv'
    BY <1>1 DEF IInv, LockInv, ControlInv, BuildsOnlyInReadyAI
  <1> QED
    BY <1>2, <1>3, <1>4, <1>5, <1>6, <1>7 DEF IInv

\* finish() ends after a failed write: the fence is up, memory is unchanged.
LEMMA FailedFinishIInv ==
  ASSUME IInv, NEW i \in Ids, NEW r \in Record, SaveFails(i, r), FinishReturns,
         pc \in Working, disk[i].state \notin Finished, JournalInv',
         UNCHANGED <<scan, roll, child, legacy, session, inhibit, effects, crashes>>
  PROVE  IInv'
  <1>1. /\ disk' \in [Ids -> Record] /\ mem' = mem
        /\ \A x \in Ids : x # i => disk'[x] = disk[x]
        /\ journalFailed' = TRUE /\ faults' \in Nat
    BY SaveFailsFacts DEF IInv
  <1>2. /\ pc' = "idle" /\ job' = NoOp /\ todo' = {} /\ helperLock' = FALSE
        /\ winner' = NoOp /\ res' = Blank
    BY DEF FinishReturns
  <1>3. mem = disk /\ scan = {} /\ (pc # "effect" => child = NoOp) /\ ~legacy
    BY DEF IInv, MirrorInv, ControlInv, LockInv, Working, Starting
  <1>4. TypeOK'
    BY <1>1, <1>2, BlankFacts DEF IInv, TypeOK
  <1>5. ControlInv'
    BY <1>1, <1>2, <1>3 DEF ControlInv, Working
  <1>6. MirrorInv'
    BY <1>1, <1>2, <1>3 DEF MirrorInv, Finished, Starting
  <1>7. RunInv'
    BY <1>1, <1>2 DEF RunInv, Working, Starting
  <1>8. LockInv'
    BY <1>2, <1>3 DEF IInv, LockInv, BuildsOnlyInReadyAI
  <1> QED
    BY <1>4, <1>5, <1>6, <1>7, <1>8 DEF IInv

LEMMA SavePendingIInv == ASSUME IInv, SavePending PROVE IInv'
  <1> DEFINE r == WithState(res, "running")
  <1>1. /\ pc = "pending"
        /\ UNCHANGED <<scan, roll, child, legacy, session, inhibit, effects, crashes>>
    BY DEF SavePending
  <1>2. /\ job \in Ids /\ mem = disk /\ disk[job].state = "running" /\ scan = {}
        /\ res.by = NoOp /\ res.action = disk[job].action
        /\ res.parent = disk[job].parent /\ res.state = "succeeded" /\ res \in Record
        /\ ~journalFailed /\ todo = {}
    BY <1>1 DEF IInv, TypeOK, ControlInv, MirrorInv, RunInv, Working, Starting
  <1>3. /\ r \in Record /\ r.state = "running" /\ r.by = NoOp
        /\ r.action = res.action /\ r.parent = res.parent
    BY <1>2, WithStateFacts DEF States
  <1>4. CASE /\ SaveSucceeds(job, r) /\ pc' = "finalize"
             /\ UNCHANGED <<job, res, winner, todo, helperLock>>
    <2> HIDE DEF r
    <2>1. /\ disk' \in [Ids -> Record] /\ mem' \in [Ids -> Record]
          /\ disk'[job] = r
          /\ \A x \in Ids : x # job => disk'[x] = disk[x]
          /\ mem' = disk'
          /\ journalFailed' = journalFailed /\ faults' = faults
      BY <1>2, <1>3, <1>4, SaveSucceedsFacts DEF IInv
    <2>2. TypeOK'
      BY <1>1, <1>4, <2>1 DEF IInv, TypeOK
    <2>3. ControlInv'
      BY <1>1, <1>2, <1>3, <1>4, <2>1 DEF IInv, ControlInv, Working
    <2>4. MirrorInv'
      BY <1>4, <2>1 DEF MirrorInv, Starting
    <2>5. RunInv'
      BY <1>1, <1>2, <1>3, <1>4, <2>1 DEF IInv, RunInv, Working, Starting
    <2>6. JournalInv'
      BY <1>1, <1>2, <1>3, <2>1, WriteJournalInv DEF IInv
    <2>7. LockInv'
      BY <1>1, <1>2, <1>4 DEF IInv, LockInv, BuildsOnlyInReadyAI
    <2> QED
      BY <2>2, <2>3, <2>4, <2>5, <2>6, <2>7 DEF IInv
  <1>5. CASE SaveFails(job, r) /\ FinishReturns
    <2> HIDE DEF r
    <2>1. JournalInv'
      BY <1>1, <1>2, <1>3, <1>5, SaveFailsFacts, WriteJournalInv DEF IInv
    <2> QED
      BY <1>1, <1>2, <1>3, <1>5, <2>1, FailedFinishIInv DEF Working, Finished
  <1> QED
    BY <1>4, <1>5 DEF SavePending

LEMMA SaveFinalIInv == ASSUME IInv, SaveFinal PROVE IInv'
  <1>1. /\ pc = "final"
        /\ UNCHANGED <<scan, roll, child, legacy, session, inhibit, effects, crashes>>
    BY DEF SaveFinal
  <1>2. /\ job \in Ids /\ mem = disk /\ disk[job].state = "running" /\ scan = {}
        /\ res.by = NoOp /\ res.action = disk[job].action /\ res \in Record
        /\ res.parent = disk[job].parent /\ todo = {} /\ ~journalFailed
        /\ res.state \in {"succeeded", "failed", "recovery-required"}
        /\ res.state = "failed" => effects[job] = 0
        /\ \A id \in Ids : disk[id].state = "running" => id = job
    BY <1>1 DEF IInv, TypeOK, ControlInv, MirrorInv, RunInv, Working, Starting,
                Finished
  <1>3. CASE SaveFails(job, res) /\ FinishReturns
    <2>1. /\ disk' \in [Ids -> Record]
          /\ disk'[job] = disk[job] \/ disk'[job] = res
          /\ \A x \in Ids : x # job => disk'[x] = disk[x]
      BY <1>2, <1>3, SaveFailsFacts DEF IInv
    <2>2. JournalInv'
      BY <1>1, <1>2, <2>1, WriteJournalInv DEF IInv
    <2> QED
      BY <1>1, <1>2, <1>3, <2>2, FailedFinishIInv DEF Working, Finished
  <1>4. ASSUME disk' = [disk EXCEPT ![job] = res], mem' = [mem EXCEPT ![job] = res],
               faults' = faults
        PROVE  /\ disk' \in [Ids -> Record] /\ disk'[job] = res /\ mem' = disk'
               /\ \A x \in Ids : x # job => disk'[x] = disk[x]
               /\ \A id \in Ids : disk'[id].state # "running"
               /\ faults' \in Nat /\ JournalInv'
    <2>1. /\ disk' \in [Ids -> Record] /\ disk'[job] = res /\ mem' = disk'
          /\ \A x \in Ids : x # job => disk'[x] = disk[x]
          /\ faults' \in Nat
      BY <1>2, <1>4 DEF IInv, TypeOK
    <2>2. JournalInv'
      BY <1>1, <1>2, <2>1, WriteJournalInv DEF IInv
    <2> QED
      BY <1>2, <2>1, <2>2
  <1>5. CASE /\ disk' = [disk EXCEPT ![job] = res] /\ mem' = [mem EXCEPT ![job] = res]
             /\ UNCHANGED faults /\ FinishReturns
             /\ journalFailed' \in BOOLEAN
    <2>1. /\ pc' = "idle" /\ job' = NoOp /\ todo' = {} /\ helperLock' = FALSE
          /\ winner' = NoOp /\ res' = Blank
      BY <1>5 DEF FinishReturns
    <2>2. TypeOK'
      BY <1>1, <1>4, <1>5, <2>1, BlankFacts DEF IInv, TypeOK
    <2>3. ControlInv'
      BY <1>1, <1>2, <2>1 DEF ControlInv, Working
    <2>4. MirrorInv'
      BY <1>4, <1>5, <2>1 DEF MirrorInv, Starting
    <2>5. RunInv'
      BY <1>4, <1>5, <2>1 DEF RunInv, Working, Starting
    <2>6. LockInv'
      BY <1>1, <2>1 DEF IInv, LockInv, BuildsOnlyInReadyAI
    <2> QED
      BY <1>4, <1>5, <2>2, <2>3, <2>4, <2>5, <2>6 DEF IInv
  <1>6. CASE /\ res.state = "succeeded"
             /\ disk' = [disk EXCEPT ![job] = res] /\ mem' = [mem EXCEPT ![job] = res]
             /\ UNCHANGED faults
             /\ winner' = job /\ pc' = "settle"
             /\ todo' = (Chain(mem', job) \ {job}) \cap Unresolved(mem')
             /\ UNCHANGED <<job, res, helperLock, journalFailed>>
    <2>1. todo' \subseteq Ids /\ \A id \in todo' : mem'[id].state = "recovery-required"
      BY <1>6 DEF Unresolved
    <2>2. TypeOK'
      BY <1>1, <1>2, <1>4, <1>6, <2>1 DEF IInv, TypeOK
    <2>3. ControlInv'
      BY <1>1, <1>2, <1>4, <1>6 DEF IInv, ControlInv, Working
    <2>4. MirrorInv'
      BY <1>4, <1>6 DEF MirrorInv, Starting
    <2>5. RunInv'
      BY <1>2, <1>4, <1>6, <2>1 DEF RunInv, Working, Starting
    <2>6. LockInv'
      BY <1>1, <1>6 DEF IInv, LockInv, ControlInv, Working, BuildsOnlyInReadyAI
    <2> QED
      BY <1>4, <1>6, <2>2, <2>3, <2>4, <2>5, <2>6 DEF IInv
  <1>7. CASE SaveSucceeds(job, res) /\ FinishReturns
    BY <1>5, <1>7 DEF SaveSucceeds, IInv, TypeOK
  <1>8. CASE /\ res.state = "succeeded"
             /\ disk' = [disk EXCEPT ![job] = res] /\ mem' = [mem EXCEPT ![job] = res]
             /\ UNCHANGED faults
             /\ IF SettlementAllowed(mem', job)
                THEN /\ winner' = job
                     /\ todo' = (Chain(mem', job) \ {job}) \cap Unresolved(mem')
                     /\ pc' = "settle"
                     /\ UNCHANGED <<job, res, helperLock, journalFailed>>
                ELSE /\ journalFailed' = TRUE
                     /\ FinishReturns
    BY <1>5, <1>6, <1>8
  <1> QED
    BY <1>3, <1>7, <1>8 DEF SaveFinal

\* Settling member i of the winner's chain, from finish() and from load().
LEMMA SettledWrite ==
  ASSUME IInv, todo # {}, NEW i \in todo, pc \in {"settle", "roll"},
         UNCHANGED effects
  PROVE  /\ i \in Ids /\ disk[i].state = "recovery-required" /\ mem = disk
         /\ Settled(mem[i]) \in Record /\ Settled(mem[i]).state = "failed"
         /\ winner \in Ids /\ disk[winner].state = "succeeded" /\ scan = {}
         /\ \A id \in todo : disk[id].state = "recovery-required"
         /\ SaveSucceeds(i, Settled(mem[i])) \/
            (disk' \in {disk, [disk EXCEPT ![i] = Settled(mem[i])]})
              => JournalInv' /\ disk' \in [Ids -> Record]
  <1>1. /\ i \in Ids /\ mem = disk /\ winner \in Ids /\ scan = {}
        /\ disk[winner].state = "succeeded" /\ mem[i] \in Record
        /\ \A id \in todo : disk[id].state = "recovery-required"
    BY DEF IInv, TypeOK, RunInv, MirrorInv, ControlInv, Working, Starting
  <1>2. /\ Settled(mem[i]) \in Record /\ Settled(mem[i]).state = "failed"
        /\ Settled(mem[i]).by = winner /\ Settled(mem[i]).action = mem[i].action
    BY <1>1, SettledFacts
  <1>3. ASSUME SaveSucceeds(i, Settled(mem[i])) \/
               (disk' \in {disk, [disk EXCEPT ![i] = Settled(mem[i])]})
        PROVE  JournalInv' /\ disk' \in [Ids -> Record]
    <2>1. /\ disk' \in [Ids -> Record]
          /\ disk'[i] = disk[i] \/ disk'[i] = Settled(mem[i])
          /\ \A x \in Ids : x # i => disk'[x] = disk[x]
      BY <1>1, <1>2, <1>3 DEF IInv, TypeOK, SaveSucceeds
    <2> QED
      BY <1>1, <1>2, <2>1, WriteJournalInv DEF IInv
  <1> QED
    BY <1>1, <1>2, <1>3

LEMMA SettleIInv == ASSUME IInv, Settle PROVE IInv'
  <1>1. /\ pc = "settle"
        /\ UNCHANGED <<scan, roll, child, legacy, session, inhibit, effects, crashes>>
    BY DEF Settle
  <1>2. CASE todo = {} /\ FinishReturns /\ UNCHANGED journal
    <2>1. /\ pc' = "idle" /\ job' = NoOp /\ todo' = {} /\ helperLock' = FALSE
          /\ winner' = NoOp /\ res' = Blank
          /\ UNCHANGED <<disk, mem, journalFailed, faults>>
      BY <1>2 DEF FinishReturns, journal
    <2>2. TypeOK'
      BY <1>1, <2>1, BlankFacts DEF IInv, TypeOK
    <2>3. ControlInv'
      BY <1>1, <2>1 DEF IInv, ControlInv, Working
    <2>4. MirrorInv'
      BY <1>1, <2>1 DEF IInv, MirrorInv, Starting
    <2>5. RunInv'
      BY <1>1, <2>1 DEF IInv, RunInv, Working, Starting
    <2>6. JournalInv'
      BY <1>1, <2>1 DEF IInv, JournalInv, FailedEffectsAreRecovered
    <2>7. LockInv'
      BY <1>1, <2>1 DEF IInv, LockInv, BuildsOnlyInReadyAI
    <2> QED
      BY <2>2, <2>3, <2>4, <2>5, <2>6, <2>7 DEF IInv
  <1>3. ASSUME NEW i \in todo,
               \/ /\ SaveSucceeds(i, Settled(mem[i]))
                  /\ todo' = todo \ {i}
                  /\ UNCHANGED <<job, res, pc, winner, helperLock>>
               \/ /\ SaveFails(i, Settled(mem[i])) /\ FinishReturns
        PROVE  IInv'
    <2>1. /\ i \in Ids /\ disk[i].state = "recovery-required" /\ mem = disk
          /\ Settled(mem[i]) \in Record /\ Settled(mem[i]).state = "failed"
          /\ winner \in Ids /\ disk[winner].state = "succeeded" /\ scan = {}
          /\ \A id \in todo : disk[id].state = "recovery-required"
      BY <1>1, SettledWrite
    <2>2. JournalInv' /\ disk' \in [Ids -> Record]
      BY <1>1, <1>3, SettledWrite DEF SaveFails
    <2>3. CASE SaveFails(i, Settled(mem[i])) /\ FinishReturns
      BY <1>1, <2>1, <2>2, <2>3, FailedFinishIInv DEF Working, Finished
    <2>4. CASE /\ SaveSucceeds(i, Settled(mem[i])) /\ todo' = todo \ {i}
               /\ UNCHANGED <<job, res, pc, winner, helperLock>>
      <3>1. /\ mem' \in [Ids -> Record] /\ disk'[i] = Settled(mem[i]) /\ mem' = disk'
            /\ \A x \in Ids : x # i => disk'[x] = disk[x]
            /\ journalFailed' = journalFailed /\ faults' = faults
        BY <2>1, <2>4, SaveSucceedsFacts DEF IInv
      <3>2. TypeOK'
        BY <1>1, <2>2, <2>4, <3>1 DEF IInv, TypeOK
      <3>3. job \in Ids /\ job # i
        BY <1>1, <2>1 DEF IInv, TypeOK, ControlInv, RunInv, Working
      <3>4. ControlInv'
        BY <1>1, <2>4, <3>1, <3>3 DEF IInv, ControlInv, Working
      <3>5. MirrorInv'
        BY <1>1, <2>4, <3>1 DEF MirrorInv, Starting
      <3>6. RunInv'
        <4>1. /\ disk'[job].state = "succeeded" /\ disk'[winner].state = "succeeded"
              /\ \A id \in todo' : disk'[id].state = "recovery-required"
          BY <1>1, <2>1, <2>4, <3>1, <3>3 DEF IInv, TypeOK, RunInv
        <4>2. \A id \in Ids : disk'[id].state # "running"
          BY <1>1, <2>1, <3>1 DEF IInv, RunInv, ControlInv, Starting, Working
        <4> QED
          BY <1>1, <2>1, <2>4, <4>1, <4>2 DEF RunInv, Working, Starting
      <3>7. LockInv'
        BY <1>1, <2>4 DEF IInv, LockInv, BuildsOnlyInReadyAI
      <3> QED
        BY <2>2, <3>2, <3>4, <3>5, <3>6, <3>7 DEF IInv
    <2> QED
      BY <1>3, <2>3, <2>4
  <1> QED
    BY <1>2, <1>3 DEF Settle

LEMMA LoadRecordIInv == ASSUME IInv, LoadRecord PROVE IInv'
  <1>1. /\ pc = "scan"
        /\ UNCHANGED <<child, legacy, session, inhibit, effects, crashes>>
    BY DEF LoadRecord
  <1>2. PICK i \in scan :
          \/ /\ disk[i].state # "running"
             /\ mem' = [mem EXCEPT ![i] = disk[i]]
             /\ scan' = scan \ {i}
             /\ UNCHANGED <<disk, journalFailed, faults, pc, job, res, roll,
                            winner, todo, helperLock>>
          \/ /\ disk[i].state = "running"
             /\ SaveSucceeds(i, Interrupted(disk[i]))
             /\ scan' = scan \ {i}
             /\ UNCHANGED <<pc, job, res, roll, winner, todo, helperLock>>
          \/ /\ disk[i].state = "running"
             /\ faults < MaxFaults /\ faults' = faults + 1
             /\ disk' \in {disk, [disk EXCEPT ![i] = Interrupted(disk[i])]}
             /\ StartupFails
    BY DEF LoadRecord
  <1> DEFINE r == Interrupted(disk[i])
  <1>3. /\ i \in Ids /\ mem[i] = Blank /\ disk[i] \in Record /\ ~journalFailed
        /\ \A id \in Ids \ scan : mem[id] = disk[id]
        /\ \A id \in scan : mem[id] = Blank
    BY <1>1 DEF IInv, TypeOK, ControlInv, MirrorInv
  <1>4. /\ r \in Record /\ r.state \in {"failed", "recovery-required"}
        /\ r.action = disk[i].action
        /\ effects[i] > 0 => r.state = "recovery-required"
    BY <1>3, InterruptedFacts DEF IInv, JournalInv
  <1>5. ASSUME disk[i].state = "running", disk' \in [Ids -> Record],
               disk'[i] = disk[i] \/ disk'[i] = r,
               \A x \in Ids : x # i => disk'[x] = disk[x]
        PROVE  JournalInv'
    <2> HIDE DEF r
    <2> QED
      BY <1>1, <1>3, <1>4, <1>5, WriteJournalInv DEF IInv
  <1>6. CASE /\ disk[i].state # "running"
             /\ mem' = [mem EXCEPT ![i] = disk[i]]
             /\ scan' = scan \ {i}
             /\ UNCHANGED <<disk, journalFailed, faults, pc, job, res, roll,
                            winner, todo, helperLock>>
    <2>1. /\ mem' \in [Ids -> Record] /\ mem'[i] = disk[i]
          /\ \A x \in Ids : x # i => mem'[x] = mem[x]
      BY <1>3, <1>6 DEF IInv, TypeOK
    <2>2. TypeOK'
      BY <1>1, <1>6, <2>1 DEF IInv, TypeOK
    <2>3. ControlInv'
      BY <1>1, <1>6 DEF IInv, ControlInv, Working
    <2>4. MirrorInv'
      BY <1>1, <1>3, <1>6, <2>1, BlankFacts DEF IInv, MirrorInv, Starting, Finished
    <2>5. RunInv'
      BY <1>1, <1>6 DEF IInv, RunInv, ControlInv, Working, Starting
    <2>6. JournalInv'
      BY <1>1, <1>6 DEF IInv, JournalInv, FailedEffectsAreRecovered
    <2>7. LockInv'
      BY <1>1, <1>6 DEF IInv, LockInv, BuildsOnlyInReadyAI
    <2> QED
      BY <2>2, <2>3, <2>4, <2>5, <2>6, <2>7 DEF IInv
  <1>7. CASE /\ disk[i].state = "running" /\ SaveSucceeds(i, r)
             /\ scan' = scan \ {i}
             /\ UNCHANGED <<pc, job, res, roll, winner, todo, helperLock>>
    <2> HIDE DEF r
    <2>1. /\ disk' \in [Ids -> Record] /\ mem' \in [Ids -> Record]
          /\ disk'[i] = r /\ mem'[i] = r
          /\ \A x \in Ids : x # i => disk'[x] = disk[x] /\ mem'[x] = mem[x]
          /\ journalFailed' = journalFailed /\ faults' = faults
      BY <1>3, <1>4, <1>7, SaveSucceedsFacts DEF IInv
    <2>2. TypeOK'
      BY <1>1, <1>7, <2>1 DEF IInv, TypeOK
    <2>3. ControlInv'
      BY <1>1, <1>7, <2>1 DEF IInv, ControlInv, Working
    <2>4. MirrorInv'
      BY <1>1, <1>3, <1>7, <2>1, BlankFacts DEF IInv, MirrorInv, Starting, Finished
    <2>5. RunInv'
      BY <1>1, <1>4, <1>7, <2>1 DEF IInv, RunInv, ControlInv, Working, Starting
    <2>6. JournalInv'
      BY <1>5, <1>7, <2>1
    <2>7. LockInv'
      BY <1>1, <1>7 DEF IInv, LockInv, BuildsOnlyInReadyAI
    <2> QED
      BY <2>2, <2>3, <2>4, <2>5, <2>6, <2>7 DEF IInv
  <1>8. CASE /\ disk[i].state = "running"
             /\ faults < MaxFaults /\ faults' = faults + 1
             /\ disk' \in {disk, [disk EXCEPT ![i] = r]}
             /\ StartupFails
    <2> HIDE DEF r
    <2>1. /\ disk' \in [Ids -> Record]
          /\ disk'[i] = disk[i] \/ disk'[i] = r
          /\ \A x \in Ids : x # i => disk'[x] = disk[x]
          /\ faults' \in Nat /\ crashes' \in Nat
      BY <1>1, <1>3, <1>4, <1>8 DEF IInv, TypeOK
    <2>2. JournalInv'
      BY <1>5, <1>8, <2>1
    <2> QED
      BY <1>1, <1>8, <2>1, <2>2, ProcessGoneIInv DEF StartupFails
  <1> QED
    BY <1>2, <1>6, <1>7, <1>8

LEMMA LoadLockIInv == ASSUME IInv, LoadLock PROVE IInv'
  <1>1. /\ pc = "scan" /\ scan = {}
        /\ UNCHANGED <<child, legacy, session, inhibit, effects, crashes>>
    BY DEF LoadLock
  <1>2. CASE StartupFails /\ UNCHANGED <<disk, faults>>
    <2>1. JournalInv' /\ disk' \in [Ids -> Record] /\ faults' \in Nat /\ crashes' \in Nat
      BY <1>1, <1>2 DEF IInv, TypeOK, JournalInv, FailedEffectsAreRecovered
    <2> QED
      BY <1>1, <1>2, <2>1, ProcessGoneIInv DEF StartupFails
  <1>3. CASE /\ recoverySettlementPending(mem) => LockFree
             /\ helperLock' = recoverySettlementPending(mem)
             /\ pc' = "roll" /\ roll' = SucceededRestores(mem)
             /\ UNCHANGED <<journal, job, res, scan, winner, todo>>
    <2>1. UNCHANGED <<disk, mem, journalFailed, faults, job, res, scan, winner, todo>>
      BY <1>3 DEF journal
    <2>2. /\ mem = disk /\ todo = {} /\ job = NoOp /\ ~journalFailed
          /\ \A id \in Ids : disk[id].state # "running"
      <3>1. todo = {} /\ job = NoOp /\ ~journalFailed
        BY <1>1 DEF IInv, ControlInv, Working
      <3>2. \A id \in Ids : mem[id] = disk[id]
        BY <1>1 DEF IInv, MirrorInv
      <3>3. mem = disk
        BY <3>2 DEF IInv, TypeOK
      <3>4. \A id \in Ids : disk[id].state # "running"
        BY <1>1 DEF IInv, RunInv
      <3> QED
        BY <3>1, <3>2, <3>3, <3>4
    <2>3. helperLock' \in BOOLEAN /\ roll' \subseteq Ids
      BY <1>3 DEF recoverySettlementPending, SucceededRestores
    <2>4. TypeOK'
      BY <1>1, <1>3, <2>1, <2>3 DEF IInv, TypeOK
    <2>5. ControlInv'
      BY <1>1, <1>3, <2>1, <2>2 DEF IInv, ControlInv, Working
    <2>6. MirrorInv'
      BY <1>3, <2>1, <2>2 DEF MirrorInv, Starting
    <2>7. RunInv'
      <3>1. roll' \subseteq SucceededRestores(mem)'
        BY <1>3, <2>1 DEF SucceededRestores
      <3>2. ~helperLock' => ~recoverySettlementPending(mem)'
        BY <1>3, <2>1
      <3> QED
        BY <1>3, <2>1, <2>2, <3>1, <3>2 DEF RunInv, Working, Starting
    <2>8. JournalInv'
      BY <1>1, <2>1 DEF IInv, JournalInv, FailedEffectsAreRecovered
    <2>9. LockInv'
      BY <1>1, <1>3, <2>1, <2>2 DEF IInv, LockInv, LockFree, BuildsOnlyInReadyAI
    <2> QED
      BY <2>4, <2>5, <2>6, <2>7, <2>8, <2>9 DEF IInv
  <1> QED
    BY <1>2, <1>3 DEF LoadLock

LEMMA RollForwardIInv == ASSUME IInv, RollForward PROVE IInv'
  <1>1. /\ pc = "roll" /\ todo = {}
        /\ UNCHANGED <<child, legacy, session, inhibit, effects, crashes>>
    BY DEF RollForward
  <1>2. PICK i \in roll :
          IF SettlementAllowed(mem, i)
          THEN /\ winner' = i
               /\ todo' = (Chain(mem, i) \ {i}) \cap Unresolved(mem)
               /\ roll' = roll \ {i}
               /\ UNCHANGED <<journal, pc, job, res, scan, helperLock>>
          ELSE StartupFails /\ UNCHANGED <<disk, faults>>
    BY DEF RollForward
  <1>3. CASE StartupFails /\ UNCHANGED <<disk, faults>>
    <2>1. JournalInv' /\ disk' \in [Ids -> Record] /\ faults' \in Nat /\ crashes' \in Nat
      BY <1>1, <1>3 DEF IInv, TypeOK, JournalInv, FailedEffectsAreRecovered
    <2> QED
      BY <1>1, <1>3, <2>1, ProcessGoneIInv DEF StartupFails
  <1>4. CASE /\ winner' = i
             /\ todo' = (Chain(mem, i) \ {i}) \cap Unresolved(mem)
             /\ roll' = roll \ {i}
             /\ UNCHANGED <<journal, pc, job, res, scan, helperLock>>
    <2>1. UNCHANGED <<disk, mem, journalFailed, faults, pc, job, res, scan, helperLock>>
      BY <1>4 DEF journal
    <2>2. /\ mem = disk /\ job = NoOp /\ ~journalFailed /\ i \in Ids
          /\ i \in SucceededRestores(mem) /\ disk[i].state = "succeeded"
          /\ roll \subseteq SucceededRestores(mem)
          /\ ~helperLock => ~recoverySettlementPending(mem)
          /\ \A id \in Ids : disk[id].state = "running" => id = job
      BY <1>1 DEF IInv, TypeOK, ControlInv, MirrorInv, RunInv, Working, Starting,
                  SucceededRestores
    <2>3. todo' \subseteq Ids /\ \A id \in todo' : disk[id].state = "recovery-required"
      BY <1>4, <2>2 DEF Unresolved
    <2>4. todo' # {} => helperLock
      BY <1>4, <2>2 DEF recoverySettlementPending
    <2>5. TypeOK'
      BY <1>1, <1>4, <2>1, <2>2, <2>3 DEF IInv, TypeOK
    <2>6. ControlInv'
      BY <1>1, <2>1 DEF IInv, ControlInv, Working
    <2>7. MirrorInv'
      BY <1>1, <2>1, <2>2 DEF MirrorInv, Starting
    <2>8. RunInv'
      <3>1. roll' \subseteq SucceededRestores(mem)'
        BY <1>4, <2>1, <2>2
      <3>2. ~helperLock' => ~recoverySettlementPending(mem)'
        BY <2>1, <2>2
      <3> QED
        BY <1>1, <1>4, <2>1, <2>2, <2>3, <3>1, <3>2 DEF RunInv, Working, Starting
    <2>9. JournalInv'
      BY <1>1, <2>1 DEF IInv, JournalInv, FailedEffectsAreRecovered
    <2>10. LockInv'
      BY <1>1, <2>1, <2>2, <2>4 DEF IInv, LockInv, BuildsOnlyInReadyAI
    <2> QED
      BY <2>5, <2>6, <2>7, <2>8, <2>9, <2>10 DEF IInv
  <1> QED
    BY <1>2, <1>3, <1>4

LEMMA RollSettleIInv == ASSUME IInv, RollSettle PROVE IInv'
  <1>1. /\ pc = "roll"
        /\ UNCHANGED <<child, legacy, session, inhibit, effects, crashes>>
    BY DEF RollSettle
  <1>2. PICK i \in todo :
          \/ /\ SaveSucceeds(i, Settled(mem[i]))
             /\ todo' = todo \ {i}
             /\ UNCHANGED <<pc, job, res, scan, roll, winner, helperLock>>
          \/ /\ faults < MaxFaults /\ faults' = faults + 1
             /\ disk' \in {disk, [disk EXCEPT ![i] = Settled(mem[i])]}
             /\ StartupFails
    BY DEF RollSettle
  <1>3. /\ i \in Ids /\ disk[i].state = "recovery-required" /\ mem = disk
        /\ Settled(mem[i]) \in Record /\ Settled(mem[i]).state = "failed"
        /\ winner \in Ids /\ disk[winner].state = "succeeded" /\ scan = {}
        /\ \A id \in todo : disk[id].state = "recovery-required"
    BY <1>1, SettledWrite
  <1>4. JournalInv' /\ disk' \in [Ids -> Record]
    BY <1>1, <1>2, SettledWrite
  <1>5. CASE /\ faults < MaxFaults /\ faults' = faults + 1 /\ StartupFails
    <2>1. faults' \in Nat /\ crashes' \in Nat
      BY <1>1, <1>5 DEF IInv, TypeOK
    <2> QED
      BY <1>1, <1>4, <1>5, <2>1, ProcessGoneIInv DEF StartupFails
  <1>6. CASE /\ SaveSucceeds(i, Settled(mem[i]))
             /\ todo' = todo \ {i}
             /\ UNCHANGED <<pc, job, res, scan, roll, winner, helperLock>>
    <2>1. /\ mem' \in [Ids -> Record] /\ disk'[i] = Settled(mem[i]) /\ mem' = disk'
          /\ \A x \in Ids : x # i => disk'[x] = disk[x]
          /\ journalFailed' = journalFailed /\ faults' = faults
      BY <1>3, <1>6, SaveSucceedsFacts DEF IInv
    <2>2. helperLock /\ job = NoOp /\ ~journalFailed
      BY <1>1, <1>2 DEF IInv, LockInv, ControlInv, Working
    <2>3. TypeOK'
      BY <1>1, <1>4, <1>6, <2>1 DEF IInv, TypeOK
    <2>4. ControlInv'
      BY <1>1, <1>6, <2>1 DEF IInv, ControlInv, Working
    <2>5. MirrorInv'
      BY <1>1, <1>6, <2>1 DEF MirrorInv, Starting
    <2>6. RunInv'
      <3>1. roll' \subseteq SucceededRestores(mem)'
        BY <1>1, <1>3, <1>6, <2>1 DEF IInv, RunInv, SucceededRestores
      <3>2. /\ disk'[winner].state = "succeeded"
            /\ \A id \in todo' : disk'[id].state = "recovery-required"
        BY <1>3, <1>6, <2>1 DEF IInv, TypeOK
      <3>3. \A id \in Ids : disk'[id].state = "running" => id = job
        BY <1>1, <1>3, <2>1, <2>2 DEF IInv, RunInv, Starting
      <3> QED
        BY <1>1, <1>3, <1>6, <2>2, <3>1, <3>2, <3>3 DEF RunInv, Working, Starting
    <2>7. LockInv'
      BY <1>1, <1>6 DEF IInv, LockInv, BuildsOnlyInReadyAI
    <2> QED
      BY <1>4, <2>3, <2>4, <2>5, <2>6, <2>7 DEF IInv
  <1> QED
    BY <1>2, <1>5, <1>6

LEMMA NextIInv == IInv /\ [Next]_vars => IInv'
  <1> SUFFICES ASSUME IInv, [Next]_vars PROVE IInv'
    OBVIOUS
  <1>1. CASE UNCHANGED vars
    <2>1. UNCHANGED <<disk, mem, journalFailed, faults, pc, job, res, scan, roll,
                      winner, todo, helperLock, child, legacy, session, inhibit,
                      effects, crashes>>
      BY <1>1 DEF vars, journal, control, host
    <2>2. TypeOK' /\ ControlInv'
      <3>1. TypeOK'
        BY <2>1 DEF IInv, TypeOK
      <3>2. ControlInv'
        BY <2>1 DEF IInv, ControlInv
      <3> QED
        BY <3>1, <3>2
    <2>3. MirrorInv'
      BY <2>1 DEF IInv, MirrorInv
    <2>4. RunInv'
      <3>1. SucceededRestores(mem)' = SucceededRestores(mem)
        BY <2>1
      <3>2. recoverySettlementPending(mem)' = recoverySettlementPending(mem)
        BY <2>1
      <3> QED
        BY <2>1, <3>1, <3>2 DEF IInv, RunInv
    <2>5. JournalInv'
      BY <2>1 DEF IInv, JournalInv, FailedEffectsAreRecovered
    <2>6. LockInv'
      BY <2>1 DEF IInv, LockInv, BuildsOnlyInReadyAI
    <2> QED
      BY <2>2, <2>3, <2>4, <2>5, <2>6 DEF IInv
  <1>2. ASSUME NEW i \in Ids, NEW d \in Drafts, NEW now \in Times, Submit(i, d, now)
        PROVE  IInv'
    BY <1>2, SubmitIInv
  <1>3. CASE Finish
    BY <1>3, PreflightRefusedIInv, ReadOnlyCompletesIInv, StartEffectIInv,
       EffectSucceedsIInv, EffectFailsIInv, SavePendingIInv, FinalizeIInv,
       SaveFinalIInv, SettleIInv DEF Finish
  <1>4. CASE Load
    BY <1>4, StartIInv, LoadRecordIInv, LoadLockIInv, RollForwardIInv,
       RollSettleIInv, ServeIInv DEF Load
  <1>5. CASE Crash \/ Stop
    BY <1>5, CrashIInv, StopIInv
  <1>6. CASE OrphanExits \/ LegacyStarts \/ LegacyEnds
    BY <1>6, OrphanExitsIInv, LegacyStartsIInv, LegacyEndsIInv
  <1> QED
    BY <1>1, <1>2, <1>3, <1>4, <1>5, <1>6 DEF Next

-----------------------------------------------------------------------------
(* The theorems                                                              *)

\* The inductive invariant: where the helper is in finish() or load(), how its
\* memory mirrors the journal, and who holds the canonical lock.
THEOREM Invariant == Spec => []IInv
  <1> QED
    BY InitIInv, NextIInv, PTL DEF Spec

\* Every variable of the helper keeps its type, also through failed writes and
\* forced exits at any point of finish() and load().
THEOREM TypeCorrect == Spec => []TypeOK
  <1>1. IInv => TypeOK
    BY DEF IInv
  <1> QED
    BY <1>1, Invariant, PTL

\* Status never reports a success or failure that a restart would not find in
\* the journal (executor.go:116-128, 181-189, 236-241).
THEOREM DurableResults == Spec => []ReportedResultsAreDurable
  <1>1. IInv => ReportedResultsAreDurable
    BY DEF IInv, MirrorInv, ReportedResultsAreDurable, visibleResult, Finished
  <1> QED
    BY <1>1, Invariant, PTL

\* An accepted operation touches the workstation at most once, and only after
\* its intent is in the journal (executor.go:200-229, 156-170).
THEOREM EffectsOnce == Spec => []EffectsHappenOnceAfterIntent
  <1>1. IInv => EffectsHappenOnceAfterIntent
    BY DEF IInv, TypeOK, JournalInv, EffectsHappenOnceAfterIntent
  <1> QED
    BY <1>1, Invariant, PTL

\* A journalled failure with an effect behind it is always the mark of a restore
\* that durably succeeded (executor.go:325-340, 156-165, 436-447).
THEOREM FailuresRecovered == Spec => []FailedEffectsAreRecovered
  <1>1. IInv => FailedEffectsAreRecovered
    BY DEF IInv, JournalInv
  <1> QED
    BY <1>1, Invariant, PTL

\* The canonical lock keeps effect processes, settlements and the legacy command
\* line apart (executor.go:68-79, 171-178, 218; runtime.go:39-45).
THEOREM Exclusion == Spec => []GpuExclusion
  <1>1. IInv => GpuExclusion
    BY DEF IInv, TypeOK, ControlInv, LockInv, GpuExclusion
  <1> QED
    BY <1>1, Invariant, PTL

\* Builds are admitted only in a completed AI profile (runtime.go:632-674).
THEOREM BuildGate == Spec => []BuildsOnlyInReadyAI
  <1>1. IInv => BuildsOnlyInReadyAI
    BY DEF IInv, LockInv
  <1> QED
    BY <1>1, Invariant, PTL

\* A step writes at most one journal record, and never a finished one.
LEMMA WritesSpareFinished ==
  ASSUME IInv, [Next]_vars
  PROVE  \A id \in Ids : disk[id].state \in {"succeeded", "failed"} =>
           disk'[id] = disk[id]
  <1> USE DEF IInv
  <1>1. CASE UNCHANGED disk
    BY <1>1
  <1>2. ASSUME NEW i \in Ids, NEW d \in Drafts, NEW now \in Times, Submit(i, d, now)
        PROVE  \A id \in Ids : disk[id].state \in {"succeeded", "failed"} =>
                 disk'[id] = disk[id]
    <2>1. disk[i].state = "none"
      BY <1>2 DEF Submit, MirrorInv, Starting
    <2> QED
      BY <1>2, <2>1 DEF Submit, SaveSucceeds, SaveFails, TypeOK
  <1>3. CASE SavePending \/ SaveFinal
    <2>1. job \in Ids /\ disk[job].state = "running"
      BY <1>3 DEF SavePending, SaveFinal, TypeOK, ControlInv, RunInv, Working
    <2> QED
      BY <1>3, <2>1 DEF SavePending, SaveFinal, SaveSucceeds, SaveFails, TypeOK
  <1>4. CASE Settle \/ RollSettle
    <2>1. \A i \in todo : i \in Ids /\ disk[i].state = "recovery-required"
      BY DEF TypeOK, RunInv
    <2> QED
      BY <1>4, <2>1 DEF Settle, RollSettle, SaveSucceeds, SaveFails, TypeOK, journal
  <1>5. CASE LoadRecord
    BY <1>5 DEF LoadRecord, SaveSucceeds, TypeOK
  <1>6. CASE \/ PreflightRefused \/ ReadOnlyCompletes \/ StartEffect \/ EffectSucceeds
             \/ EffectFails \/ Finalize \/ Start \/ LoadLock \/ RollForward \/ Serve
             \/ Crash \/ Stop \/ OrphanExits \/ LegacyStarts \/ LegacyEnds
             \/ UNCHANGED vars
    BY <1>1, <1>6 DEF PreflightRefused, ReadOnlyCompletes, StartEffect,
       EffectSucceeds, EffectFails, Finalize, Start, LoadLock, RollForward, Serve,
       Crash, Stop, OrphanExits, LegacyStarts, LegacyEnds, StartupFails, journal, vars
  <1> QED
    BY <1>2, <1>3, <1>4, <1>5, <1>6 DEF Next, Finish, Load

\* A success or failure in the journal is never rewritten, by a restart, a
\* failed write or a later settlement (executor.go:116-128, 436-447).
THEOREM FinishedFinal == Spec => FinishedRecordsAreFinal
  <1>1. IInv /\ [Next]_vars =>
          [\A id \in Ids :
             disk[id].state \in {"succeeded", "failed"} => disk'[id] = disk[id]]_vars
    BY WritesSpareFinished
  <1> QED
    BY <1>1, Invariant, PTL DEF Spec, FinishedRecordsAreFinal

\* An effect starts only when every other unfinished or unresolved operation
\* belongs to the chain it restores (executor.go:381-410).
THEOREM FenceRespected == Spec => EffectsRespectTheFence
  <1> DEFINE Respects ==
        \A id \in Ids :
          effects'[id] # effects[id] =>
            \A x \in Ids \ {id} :
              disk[x].state \in {"running", "recovery-required"} =>
                /\ disk[id].parent # NoOp
                /\ x \in Chain(disk, disk[id].parent)
  <1>1. ASSUME IInv, [Next]_vars PROVE Respects
    <2>1. CASE StartEffect
      <3>1. /\ job \in Ids /\ mem = disk /\ res.parent = disk[job].parent
            /\ \A x \in Ids : disk[x].state = "running" => x = job
        BY <1>1, <2>1 DEF StartEffect, IInv, TypeOK, ControlInv, MirrorInv, RunInv,
                          Working, Starting
      <3>2. ASSUME NEW x \in Ids \ {job}, disk[x].state \in {"running", "recovery-required"}
            PROVE  disk[job].parent # NoOp /\ x \in Chain(disk, disk[job].parent)
        <4>1. x \in Unresolved(mem)
          BY <3>1, <3>2 DEF Unresolved
        <4>2. validateRecovery([action |-> res.action, parent |-> res.parent])
          BY <2>1 DEF StartEffect
        <4>3. res.parent # NoOp /\ x \in Chain(mem, res.parent)
          BY <4>1, <4>2 DEF validateRecovery
        <4> QED
          BY <3>1, <4>3
      <3>3. \A id \in Ids : effects'[id] # effects[id] => id = job
        BY <1>1, <2>1 DEF StartEffect, IInv, TypeOK
      <3> QED
        BY <3>2, <3>3
    <2>2. CASE UNCHANGED effects
      BY <2>2
    <2> QED
      BY <1>1, <2>1, <2>2
         DEF Next, Finish, Load, Submit, PreflightRefused, ReadOnlyCompletes,
             EffectSucceeds, EffectFails, SavePending, Finalize, SaveFinal, Settle,
             Start, LoadRecord, LoadLock, RollForward, RollSettle, Serve, Crash, Stop,
             OrphanExits, LegacyStarts, LegacyEnds, host, vars
  <1>2. IInv /\ [Next]_vars => [Respects]_vars
    BY <1>1
  <1> QED
    BY <1>2, Invariant, PTL DEF Spec, EffectsRespectTheFence

=============================================================================
