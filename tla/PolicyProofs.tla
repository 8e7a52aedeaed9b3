----------------------------- MODULE PolicyProofs -----------------------------
(***************************************************************************)
(* Proofs for Manager: the engine implements RecoveryPolicy, and what its  *)
(* steps do to the history, the slots and interrupted operations.          *)
(***************************************************************************)
EXTENDS StatusProofs

-----------------------------------------------------------------------------
(* Steps *)

\* Apart from goroutines in withMonitorLock, ends and starts of the process,
\* nothing touches memory, files or slots, or moves anybody in a callback.
LEMMA QuietSteps ==
    ASSUME TypeOK, [Next]_vars
    PROVE  \/ \E p \in Procs : Step(p)
           \/ Halt
           \/ Start
           \/ /\ UNCHANGED <<memory, files, lock, ghosts>>
              /\ \A q \in Procs :
                   /\ \/ pc'[q] = pc[q] /\ frame'[q] = frame[q]
                      \/ pc[q] \notin InCallback /\ pc'[q] \notin InCallback
                   /\ frame'[q].done => frame[q].done
<1> USE DEF InCallback, PCs, TypeOK
<1>1. CASE \E m \in Monitors : LoopTick(m) \/ LoopStop(m)
  BY <1>1 DEF LoopTick, LoopStop, Goto, Procs
<1>2. CASE \E r \in Requests : Expire(r)
  BY <1>2 DEF Expire
<1>3. CASE \E r \in Requests, m \in Monitors, job \in {"check", "recover"} : Arrive(r, m, job)
  BY <1>3 DEF Arrive, Goto, Procs, NewFrame
<1>4. CASE Terminate
  BY <1>4 DEF Terminate
<1>5. CASE Tick
  BY <1>5 DEF Tick
<1>6. CASE UNCHANGED vars
  BY <1>6 DEF vars
<1> QED
  BY <1>1, <1>2, <1>3, <1>4, <1>5, <1>6 DEF Next

LEMMA NewsIsSaved ==
    ASSUME TypeOK, NEW p \in Procs, Step(p)
    PROVE  /\ stateFile' = stateFile \/ stateFile' = current'
           /\ eventsFile' = eventsFile \/ eventsFile' = history'
<1>1. CASE UNCHANGED <<memory, files>>
  BY <1>1 DEF files
<1>2. CASE Saves(p)
  <2>1. PICK s, events : \E o \in SaveOutcomes : Update(frame[p].on, s, events, o)
    BY <1>2 DEF Saves
  <2>2. PICK o \in SaveOutcomes : Update(frame[p].on, s, events, o)
    BY <2>1
  <2>3. Persist(current', history', dirty \/ events # <<>>, o) /\ dirty \in BOOLEAN
    BY <2>2 DEF Update, TypeOK
  <2> QED
    BY <2>3, PersistFiles
<1> QED
  BY <1>1, <1>2, SavingSteps

\* The count of failures in a row moves with a finished check or a successful recovery.
LEMMA RowSteps ==
    ASSUME TypeOK, NEW p \in Procs, Step(p)
    PROVE  LET m == frame[p].on IN
           \/ /\ RecordHealthy(p) \/ RecordRecovery(p)
              /\ current'[m].consecutive = 0
           \/ /\ RecordFailure(p)
              /\ current'[m].consecutive = current[m].consecutive + 1
           \/ /\ ~RecordHealthy(p) /\ ~RecordRecovery(p) /\ ~RecordFailure(p)
              /\ current'[m].consecutive = current[m].consecutive
<1> DEFINE m == frame[p].on
           c == current[m]
<1>1. m \in Monitors /\ current \in [Monitors -> MonitorState] /\ c \in MonitorState
  BY StepBusy, BusyOn DEF TypeOK
<1>2. ASSUME NEW s, NEW events, NEW o, Update(m, s, events, o)
      PROVE  current'[m] = s
  BY <1>1, <1>2 DEF Update
<1> HIDE DEF m, c
<1>3. CASE RecordHealthy(p)
  BY <1>1, <1>2, <1>3 DEF RecordHealthy, MonitorState, m, c
<1>4. CASE RecordRecovery(p)
  BY <1>1, <1>2, <1>4 DEF RecordRecovery, MonitorState, m, c
<1>5. CASE RecordFailure(p)
  BY <1>1, <1>2, <1>5 DEF RecordFailure, MonitorState, m, c
<1>6. CASE MarkChecking(p)
  BY <1>1, <1>2, <1>6 DEF MarkChecking, RecordHealthy, RecordRecovery, RecordFailure, MonitorState, m, c
<1>7. CASE RestoreCancelledCheck(p) \/ RestoreStatus(p)
  BY <1>1, <1>2, <1>7 DEF RestoreCancelledCheck, RestoreStatus, PutBack, Passed, Recovering,
     RecordHealthy, RecordRecovery, RecordFailure, MonitorState, m, c
<1>8. CASE SuppressRecovery(p)
  BY <1>1, <1>2, <1>8 DEF SuppressRecovery, Exhaust, RecordHealthy, RecordRecovery, RecordFailure,
     MonitorState, m, c
<1>9. CASE StartRecovery(p)
  BY <1>1, <1>2, <1>9 DEF StartRecovery, AtStart, RecordHealthy, RecordRecovery, RecordFailure,
     MonitorState, m, c
<1>10. CASE RecordFailedRecovery(p)
  BY <1>1, <1>2, <1>10 DEF RecordFailedRecovery, Exhaust, RecordHealthy, RecordRecovery, RecordFailure,
     MonitorState, m, c
<1>11. CASE UNCHANGED current /\ ~RecordHealthy(p) /\ ~RecordRecovery(p) /\ ~RecordFailure(p)
  BY <1>11
<1> QED
  BY <1>3, <1>4, <1>5, <1>6, <1>7, <1>8, <1>9, <1>10, <1>11 DEF Step, Acquire, GiveUp, SkipCancelled,
     Release, RunCheck, BeginForced, ReadStatusBefore, AbandonStart, InterruptRecovery, BeginAction,
     EndAction, EndRecheck, EndVerify, memory, m, c

-----------------------------------------------------------------------------
(* The engine implements RecoveryPolicy. *)

\* Whoever decides on a recovery has counted failure_threshold failures in a row.
DecidedInv ==
    \A p \in Procs : pc[p] = "deciding" =>
        current[frame[p].on].consecutive >= FailureThreshold[frame[p].on]

LEMMA DecidedInvariance == TypeOK /\ LockInv /\ DecidedInv /\ [Next]_vars => DecidedInv'
<1> SUFFICES ASSUME TypeOK, LockInv, DecidedInv, [Next]_vars, NEW q \in Procs, pc'[q] = "deciding"
             PROVE  (current[frame[q].on].consecutive >= FailureThreshold[frame[q].on])'
  BY DEF DecidedInv
<1> USE DEF InCallback, PCs
<1>1. ASSUME NEW p \in Procs, Step(p)
      PROVE  (current[frame[q].on].consecutive >= FailureThreshold[frame[q].on])'
  <2>1. CASE q = p
    <3>1. /\ RecordFailure(p)
          /\ current[frame[p].on].consecutive + 1 >= FailureThreshold[frame[p].on]
      BY <1>1, <2>1, DecidingLabels
    <3>2. current'[frame[p].on].consecutive = current[frame[p].on].consecutive + 1
      BY <1>1, <3>1, RowSteps DEF RecordFailure, RecordHealthy, RecordRecovery, Passed
    <3>3. frame'[q].on = frame[p].on
      BY <1>1, <2>1, OtherFrames
    <3> QED
      BY <3>1, <3>2, <3>3
  <2>2. CASE q # p
    <3>1. pc[q] = "deciding"
      BY <1>1, <2>2, OtherFrames
    <3> QED
      BY <1>1, <2>2, <3>1, OthersKeep DEF DecidedInv
  <2> QED
    BY <2>1, <2>2
<1>2. CASE Halt
  BY <1>2 DEF Halt
<1>3. CASE Start
  BY <1>3, StartFiles
<1>4. CASE /\ UNCHANGED memory
           /\ pc'[q] = pc[q] /\ frame'[q] = frame[q]
  BY <1>4 DEF DecidedInv, memory
<1> QED
  BY <1>1, <1>2, <1>3, <1>4, QuietSteps

LEMMA WorkAlone == TypeOK /\ LockInv =>
    \A p \in Procs : pc[p] \in InCallback =>
        /\ WorkingOn(frame[p].on) = {p}
        /\ Work[frame[p].on] = {<<p, frame[p].job>>}
        /\ frame[p].on \in UnderRecovery <=> pc[p] \in Acting
<1> SUFFICES ASSUME TypeOK, LockInv, NEW p \in Procs, pc[p] \in InCallback
             PROVE  /\ WorkingOn(frame[p].on) = {p}
                    /\ Work[frame[p].on] = {<<p, frame[p].job>>}
                    /\ frame[p].on \in UnderRecovery <=> pc[p] \in Acting
  OBVIOUS
<1>1. frame[p].on \in Monitors
  BY CallbackBusy, BusyOn
<1>2. WorkingOn(frame[p].on) = {p}
  BY Alone DEF WorkingOn
<1> QED
  BY <1>1, <1>2 DEF Work, UnderRecovery

\* What the step of a goroutine changes in the policy's view
LEMMA WorkStep ==
    ASSUME TypeOK, LockInv, NEW p \in Procs, Step(p)
    PROVE  LET m == frame[p].on IN
           \/ /\ pc[p] \in InCallback /\ pc'[p] \in InCallback
              /\ Work' = Work
              /\ UnderRecovery' = IF pc'[p] \in Acting THEN UnderRecovery \cup {m} ELSE UnderRecovery \ {m}
           \/ /\ Acquire(p)
              /\ Work[m] = {}
              /\ Work' = [Work EXCEPT ![m] = {<<p, frame[p].job>>}]
              /\ UnderRecovery' = UnderRecovery
           \/ /\ Release(p)
              /\ Work' = [Work EXCEPT ![m] = {}]
              /\ UnderRecovery' = UnderRecovery
           \/ /\ GiveUp(p)
              /\ Work' = Work
              /\ UnderRecovery' = UnderRecovery
<1> DEFINE m == frame[p].on
<1>1. m \in Monitors
  BY StepBusy, BusyOn
<1>2. \A q \in Procs : q # p => pc'[q] = pc[q] /\ frame'[q] = frame[q]
  BY OtherFrames
<1>3. pc'[p] \in InCallback => frame'[p].on = m /\ frame'[p].job = frame[p].job
  BY OtherFrames
<1>4. ASSUME NEW n \in Monitors, p \notin WorkingOn(n), p \notin WorkingOn(n)'
      PROVE  /\ Work'[n] = Work[n]
             /\ n \in UnderRecovery' <=> n \in UnderRecovery
  <2>1. WorkingOn(n)' = WorkingOn(n)
    BY <1>2, <1>4 DEF WorkingOn
  <2>2. {<<q, frame'[q].job>> : q \in WorkingOn(n)} = {<<q, frame[q].job>> : q \in WorkingOn(n)}
    BY <1>2, <1>4 DEF WorkingOn
  <2>3. Work'[n] = Work[n]
    BY <2>1, <2>2 DEF Work
  <2>4. (\E q \in WorkingOn(n) : pc'[q] \in Acting) <=> (\E q \in WorkingOn(n) : pc[q] \in Acting)
    BY <1>2, <1>4 DEF WorkingOn
  <2> QED
    BY <2>1, <2>3, <2>4 DEF UnderRecovery
<1>5. ASSUME NEW n \in Monitors, n # m
      PROVE  p \notin WorkingOn(n) /\ p \notin WorkingOn(n)'
  BY <1>3, <1>5 DEF WorkingOn
<1>6. ASSUME NEW n \in Monitors, n = m, pc'[p] \in InCallback, WorkingOn(n) \subseteq {p}
      PROVE  /\ Work'[n] = {<<p, frame[p].job>>}
             /\ n \in UnderRecovery' <=> pc'[p] \in Acting
  <2>1. WorkingOn(n)' = {p}
    BY <1>2, <1>3, <1>6 DEF WorkingOn
  <2> QED
    BY <1>3, <1>6, <2>1 DEF Work, UnderRecovery
<1>7. ASSUME NEW n \in Monitors, pc'[p] \notin InCallback, WorkingOn(n) \subseteq {p}
      PROVE  Work'[n] = {} /\ n \notin UnderRecovery'
  <2>1. WorkingOn(n)' = {}
    BY <1>2, <1>7 DEF WorkingOn
  <2> QED
    BY <2>1 DEF Work, UnderRecovery
<1>8. /\ Work = [n \in Monitors |-> Work[n]] /\ Work' = [n \in Monitors |-> Work'[n]]
      /\ UnderRecovery \subseteq Monitors /\ UnderRecovery' \subseteq Monitors
  BY DEF Work, UnderRecovery
<1>9. CASE Moves(p) /\ pc[p] \in InCallback
  <2>1. pc'[p] \in InCallback
    BY <1>9 DEF Moves, TypeOK
  <2>2. WorkingOn(m) = {p} /\ Work[m] = {<<p, frame[p].job>>}
    BY <1>9, WorkAlone
  <2> QED
    BY <1>1, <1>4, <1>5, <1>6, <1>8, <1>9, <2>1, <2>2
<1>10. CASE Acquire(p)
  <2>1. pc[p] = "locking" /\ pc'[p] = "entered" /\ lock[m] = {}
    BY <1>10 DEF Acquire, Goto, TypeOK
  <2>2. WorkingOn(m) = {}
    BY <2>1 DEF LockInv, WorkingOn
  <2>3. Work[m] = {} /\ m \notin UnderRecovery
    BY <1>1, <2>2 DEF Work, UnderRecovery
  <2>4. Work'[m] = {<<p, frame[p].job>>} /\ m \notin UnderRecovery'
    BY <1>1, <1>6, <2>1, <2>2 DEF InCallback, PCs, Acting, Recovering
  <2> QED
    BY <1>1, <1>4, <1>5, <1>8, <1>10, <2>3, <2>4
<1>11. CASE Release(p)
  <2>1. pc[p] = "releasing" /\ pc'[p] \notin InCallback
    BY <1>11 DEF Release, Return, Goto, TypeOK, InCallback
  <2>2. WorkingOn(m) = {p} /\ m \notin UnderRecovery
    BY <2>1, WorkAlone DEF InCallback, PCs, Acting, Recovering
  <2>3. Work'[m] = {} /\ m \notin UnderRecovery'
    BY <1>1, <1>7, <2>1, <2>2
  <2> QED
    BY <1>1, <1>4, <1>5, <1>8, <1>11, <2>2, <2>3
<1>12. CASE GiveUp(p)
  <2>1. pc[p] = "locking" /\ pc'[p] \notin InCallback
    BY <1>12 DEF GiveUp, Return, Goto, TypeOK, InCallback
  <2>2. \A n \in Monitors : p \notin WorkingOn(n) /\ p \notin WorkingOn(n)'
    BY <2>1 DEF WorkingOn, InCallback
  <2> QED
    BY <1>4, <1>8, <1>12, <2>2
<1> QED
  BY <1>9, <1>10, <1>11, <1>12, MovingSteps DEF Moves

\* The other steps leave the policy's view alone, or empty it.
LEMMA WorkKept ==
    ASSUME TypeOK, \A q \in Procs : \/ pc'[q] = pc[q] /\ frame'[q] = frame[q]
                                    \/ pc[q] \notin InCallback /\ pc'[q] \notin InCallback
    PROVE  Work' = Work /\ UnderRecovery' = UnderRecovery
<1>1. \A n : WorkingOn(n)' = WorkingOn(n)
  BY DEF WorkingOn
<1>2. \A n : \A q \in WorkingOn(n) : pc'[q] = pc[q] /\ frame'[q] = frame[q]
  BY DEF WorkingOn
<1>3. \A n : {<<q, frame'[q].job>> : q \in WorkingOn(n)} = {<<q, frame[q].job>> : q \in WorkingOn(n)}
  BY <1>2
<1>4. \A n : (\E q \in WorkingOn(n) : pc'[q] \in Acting) <=> (\E q \in WorkingOn(n) : pc[q] \in Acting)
  BY <1>2
<1> QED
  BY <1>1, <1>3, <1>4 DEF Work, UnderRecovery

LEMMA WorkNone ==
    ASSUME pc' = [q \in Procs |-> "off"]
    PROVE  Work' = [m \in Monitors |-> {}] /\ UnderRecovery' = {}
<1>1. \A n : WorkingOn(n)' = {}
  BY DEF WorkingOn, InCallback
<1> QED
  BY <1>1 DEF Work, UnderRecovery

LEMMA NoWork ==
    (\A q \in Procs : pc[q] \notin InCallback) =>
        Work = [m \in Monitors |-> {}] /\ UnderRecovery = {}
<1> SUFFICES ASSUME \A q \in Procs : pc[q] \notin InCallback
             PROVE  Work = [m \in Monitors |-> {}] /\ UnderRecovery = {}
  OBVIOUS
<1>1. \A n : WorkingOn(n) = {}
  BY DEF WorkingOn
<1> QED
  BY <1>1 DEF Work, UnderRecovery

LEMMA RowsOf ==
    ASSUME TypeOK, NEW p \in Procs, Step(p)
    PROVE  LET m == frame[p].on IN
           /\ m \in Monitors
           /\ FailuresInRow[m] = current[m].consecutive
           /\ FailuresInRow' = [FailuresInRow EXCEPT ![m] = current'[m].consecutive]
           /\ SavedFailures' = SavedFailures \/ SavedFailures' = FailuresInRow'
           /\ UNCHANGED <<halts, now>>
<1>1. frame[p].on \in Monitors
  BY StepBusy, BusyOn
<1>2. \A n \in Monitors : n # frame[p].on => current'[n] = current[n]
  BY OtherMonitors
<1>3. FailuresInRow' = [FailuresInRow EXCEPT ![frame[p].on] = current'[frame[p].on].consecutive]
  BY <1>1, <1>2 DEF FailuresInRow
<1>4. SavedFailures' = SavedFailures \/ SavedFailures' = FailuresInRow'
  BY NewsIsSaved DEF SavedFailures, FailuresInRow
<1>5. UNCHANGED <<halts, now>>
  BY MovingSteps DEF Moves, GiveUp, Release, ghosts
<1> QED
  BY <1>1, <1>3, <1>4, <1>5 DEF FailuresInRow

\* An automatic recovery that starts may: row, cooldown and cap allow it.
LEMMA MayBegin ==
    ASSUME TypeOK, CooldownInv, BudgetInv, DecidedInv, NEW p \in Procs,
           pc[p] = "deciding", AtStart(p)
    PROVE  LET m == frame[p].on IN
           /\ FailuresInRow[m] >= FailureThreshold[m]
           /\ Policy!Rested(m) /\ Policy!WithinCap(m)
<1> DEFINE m == frame[p].on
<1>1. m \in Monitors
  BY BusyOn DEF Busy
<1>2. FailuresInRow[m] >= FailureThreshold[m]
  BY <1>1 DEF FailuresInRow, DecidedInv
<1>3. Policy!Rested(m)
  BY <1>1 DEF CooldownInv, Over, Policy!Rested
<1>4. Policy!WithinCap(m)
  <2> SUFFICES ASSUME MaxRecoveryAttempts[m] > 0
               PROVE  autoFailures[m] < MaxRecoveryAttempts[m] + halts
    BY DEF Policy!WithinCap
  <2>1. /\ current[m].recoveryFailures \in Nat /\ autoFailures[m] \in Nat /\ halts \in Nat
        /\ MaxRecoveryAttempts[m] \in Nat
    BY <1>1, ConfigAssumption DEF TypeOK, MonitorState
  <2>2. current[m].recoveryFailures < MaxRecoveryAttempts[m]
    BY <2>1 DEF AtStart, AttemptsExhausted
  <2>3. autoFailures[m] <= current[m].recoveryFailures + halts
    BY <1>1 DEF BudgetInv
  <2> QED
    BY <2>1, <2>2, <2>3
<1> QED
  BY <1>2, <1>3, <1>4

LEMMA PolicyStep ==
    ASSUME TypeOK, LockInv, CooldownInv, BudgetInv, JobInv, DecidedInv, NEW p \in Procs, Step(p)
    PROVE  [Policy!Next]_(Policy!vars)
<1> DEFINE m == frame[p].on
<1>1. /\ m \in Monitors
      /\ FailuresInRow[m] = current[m].consecutive
      /\ FailuresInRow' = [FailuresInRow EXCEPT ![m] = current'[m].consecutive]
      /\ SavedFailures' = SavedFailures \/ SavedFailures' = FailuresInRow'
      /\ UNCHANGED <<halts, now>>
      /\ FailuresInRow = [n \in Monitors |-> FailuresInRow[n]]
  BY RowsOf DEF FailuresInRow
<1>2. ASSUME NEW job, frame[p].job = job, pc[p] \in InCallback
      PROVE  /\ Policy!Job(m, job)
             /\ \A j : Policy!Job(m, j) => j = job
             /\ m \in UnderRecovery <=> pc[p] \in Acting
  <2>1. Work[m] = {<<p, job>>} /\ (m \in UnderRecovery <=> pc[p] \in Acting)
    BY <1>2, WorkAlone
  <2>2. ASSUME NEW q, NEW j, {<<p, job>>} = {<<q, j>>}
        PROVE  j = job
    <3>1. <<p, job>> = <<q, j>>
      BY <2>2, Zenon
    <3> QED
      BY <3>1
  <2>3. Policy!Job(m, job) /\ \A j : Policy!Job(m, j) => j = job
    BY <2>1, <2>2 DEF Policy!Job
  <2> QED
    BY <2>1, <2>3
<1>3. ASSUME UNCHANGED <<Work, UnderRecovery, lastStart, autoFailures>>, FailuresInRow' = FailuresInRow
      PROVE  [Policy!Next]_(Policy!vars)
  BY <1>1, <1>3 DEF Policy!vars, Policy!Next, Policy!Save, Policy!Saves
<1>4. CASE Acquire(p) \/ Release(p) \/ GiveUp(p)
  <2>1. UNCHANGED <<current, stateFile, lastStart, autoFailures>>
    BY <1>4 DEF Acquire, Release, GiveUp, memory, files, ghosts
  <2>2. FailuresInRow' = FailuresInRow /\ SavedFailures' = SavedFailures
    BY <2>1 DEF FailuresInRow, SavedFailures
  <2>3. frame[p].job \in {"check", "recover"}
    BY DEF TypeOK, Frame
  <2>4. CASE Work[m] = {} /\ Work' = [Work EXCEPT ![m] = {<<p, frame[p].job>>}]
             /\ UnderRecovery' = UnderRecovery
    <3>1. Policy!Enter(m, p, frame[p].job)
      BY <1>1, <2>1, <2>2, <2>4 DEF Policy!Enter
    <3> QED
      BY <1>1, <2>3, <3>1 DEF Policy!Next
  <2>5. CASE Release(p) /\ Work' = [Work EXCEPT ![m] = {}] /\ UnderRecovery' = UnderRecovery
    <3>1. pc[p] \in InCallback /\ pc[p] \notin Acting
      BY <2>5 DEF Release, InCallback, PCs, Acting, Recovering
    <3>2. Work[m] # {} /\ m \notin UnderRecovery
      BY <3>1, WorkAlone
    <3>3. Policy!Leave(m)
      BY <1>1, <2>1, <2>2, <2>5, <3>2 DEF Policy!Leave
    <3> QED
      BY <1>1, <3>3 DEF Policy!Next
  <2>6. CASE Work' = Work /\ UnderRecovery' = UnderRecovery
    BY <1>3, <2>1, <2>2, <2>6
  <2>7. ~(pc[p] \in InCallback /\ pc'[p] \in InCallback)
    BY <1>4 DEF Acquire, Release, GiveUp, Return, Goto, TypeOK, InCallback
  <2> QED
    BY <2>4, <2>5, <2>6, <2>7, WorkStep
<1>5. ASSUME Moves(p), pc[p] \in InCallback
      PROVE  [Policy!Next]_(Policy!vars)
  <2>1. pc'[p] \in InCallback
    BY <1>5 DEF Moves, TypeOK
  <2>2. /\ Work' = Work
        /\ UnderRecovery' = IF pc'[p] \in Acting THEN UnderRecovery \cup {m} ELSE UnderRecovery \ {m}
    <3>1. ~Acquire(p) /\ ~GiveUp(p)
      BY <1>5 DEF Acquire, GiveUp, InCallback, PCs
    <3>2. ~Release(p)
      BY <2>1 DEF Release, Return, Goto, TypeOK, InCallback
    <3> QED
      BY <3>1, <3>2, WorkStep
  <2>3. CASE RecordHealthy(p) \/ RecordFailure(p)
    <3>1. /\ pc[p] = "checking" /\ pc'[p] \in {"releasing", "deciding"}
          /\ UNCHANGED <<lastStart, autoFailures>>
      BY <2>3 DEF RecordHealthy, RecordFailure, Goto, TypeOK, ghosts
    <3>2. Policy!Job(m, "check") /\ m \notin UnderRecovery /\ UnderRecovery' = UnderRecovery
      BY <1>2, <1>5, <2>2, <3>1 DEF JobInv, Acting, Recovering
    <3>3. \E failures \in {0, FailuresInRow[m] + 1} :
             FailuresInRow' = [FailuresInRow EXCEPT ![m] = failures]
      BY <1>1, <2>3, RowSteps, <3>1 DEF RecordRecovery
    <3>4. Policy!Check(m)
      BY <1>1, <2>2, <3>1, <3>2, <3>3 DEF Policy!Check, Policy!Saves
    <3> QED
      BY <1>1, <3>4 DEF Policy!Next
  <2>4. CASE RecordRecovery(p)
    <3>1. /\ pc[p] \in Acting /\ pc'[p] \notin Acting
          /\ UNCHANGED <<lastStart, autoFailures>>
      BY <2>4 DEF RecordRecovery, Goto, TypeOK, ghosts, Acting, Recovering
    <3>2. m \in UnderRecovery /\ UnderRecovery' = UnderRecovery \ {m}
      BY <1>2, <1>5, <2>2, <3>1
    <3>3. FailuresInRow' = [FailuresInRow EXCEPT ![m] = 0]
      BY <1>1, <2>4, RowSteps DEF RecordRecovery, RecordFailure
    <3>4. Policy!Succeed(m)
      BY <1>1, <2>2, <3>1, <3>2, <3>3 DEF Policy!Succeed, Policy!Saves
    <3> QED
      BY <1>1, <3>4 DEF Policy!Next
  <2>5. CASE ~RecordHealthy(p) /\ ~RecordFailure(p) /\ ~RecordRecovery(p)
    <3>1. FailuresInRow' = FailuresInRow
      BY <1>1, <2>5, RowSteps
    <3>2. CASE RecordFailedRecovery(p)
      <4>1. /\ pc[p] \in Acting /\ pc'[p] \notin Acting
            /\ autoFailures' = IF frame[p].job = "check"
                               THEN [autoFailures EXCEPT ![m] = @ + 1] ELSE autoFailures
            /\ lastStart' = lastStart
        BY <3>2, FailedStep DEF Acting, Recovering, RecordFailedRecovery
      <4>2. m \in UnderRecovery /\ UnderRecovery' = UnderRecovery \ {m}
        BY <1>2, <1>5, <2>2, <4>1
      <4>3. Policy!Job(m, "check") <=> frame[p].job = "check"
        BY <1>2, <1>5
      <4>4. Policy!Fail(m)
        BY <1>1, <2>2, <3>1, <4>1, <4>2, <4>3 DEF Policy!Fail, Policy!Saves
      <4> QED
        BY <1>1, <4>4 DEF Policy!Next
    <3>3. CASE StartRecovery(p) /\ pc'[p] = "acting"
      <4>1. /\ pc[p] \in {"starting", "deciding"} /\ AtStart(p)
            /\ autoFailures' = autoFailures
        BY <3>3 DEF StartRecovery, AtStart
      <4>2. lastStart' = [lastStart EXCEPT ![m] = {now}] /\ stateFile' = current'
        BY <3>3, StartStep
      <4>3. SavedFailures' = FailuresInRow
        BY <3>1, <4>2 DEF SavedFailures, FailuresInRow
      <4>4. m \notin UnderRecovery /\ UnderRecovery' = UnderRecovery \cup {m}
        BY <1>2, <1>5, <2>2, <3>3, <4>1 DEF Acting, Recovering
      <4>5. \/ /\ Policy!Job(m, "check") /\ FailuresInRow[m] >= FailureThreshold[m]
               /\ Policy!Rested(m) /\ Policy!WithinCap(m)
            \/ Policy!Job(m, "recover")
        <5>1. CASE pc[p] = "starting"
          BY <1>2, <1>5, <5>1 DEF JobInv
        <5>2. CASE pc[p] = "deciding"
          BY <1>2, <1>5, <4>1, <5>2, MayBegin DEF JobInv
        <5> QED
          BY <4>1, <5>1, <5>2
      <4>6. Policy!Begin(m)
        BY <1>1, <2>2, <3>1, <4>1, <4>2, <4>3, <4>4, <4>5 DEF Policy!Begin
      <4> QED
        BY <1>1, <4>6 DEF Policy!Next
    <3>4. CASE ~RecordFailedRecovery(p) /\ ~(StartRecovery(p) /\ pc'[p] = "acting")
      <4>1. UNCHANGED <<lastStart, autoFailures>>
        <5>1. CASE StartRecovery(p)
          BY <3>4, <5>1, StartStep, FailureCountSteps
        <5>2. CASE ~StartRecovery(p)
          BY <3>4, <5>2, LastStartSteps, FailureCountSteps
        <5> QED
          BY <5>1, <5>2
      <4>2. pc'[p] \in Acting => pc[p] \in Acting
        BY <3>4, ActingLabels
      <4>3. CASE pc[p] \in Acting /\ pc'[p] \notin Acting
        <5>1. m \in UnderRecovery /\ UnderRecovery' = UnderRecovery \ {m}
          BY <1>2, <1>5, <2>2, <4>3
        <5>2. Policy!BreakOff(m)
          BY <1>1, <2>2, <3>1, <4>1, <5>1 DEF Policy!BreakOff, Policy!Saves
        <5> QED
          BY <1>1, <5>2 DEF Policy!Next
      <4>4. CASE pc[p] \in Acting <=> pc'[p] \in Acting
        <5>1. UnderRecovery' = UnderRecovery
          BY <1>2, <1>5, <2>2, <4>4
        <5> QED
          BY <1>3, <2>2, <3>1, <4>1, <5>1
      <4> QED
        BY <4>2, <4>3, <4>4
    <3> QED
      BY <3>2, <3>3, <3>4
  <2> QED
    BY <2>3, <2>4, <2>5
<1> QED
  BY <1>4, <1>5, MovingSteps DEF Moves

LEMMA PolicyRefines ==
    TypeOK /\ LockInv /\ DownInv /\ CooldownInv /\ BudgetInv /\ JobInv /\ DecidedInv /\ [Next]_vars
        => [Policy!Next]_(Policy!vars)
<1> SUFFICES ASSUME TypeOK, LockInv, DownInv, CooldownInv, BudgetInv, JobInv, DecidedInv, [Next]_vars
             PROVE  [Policy!Next]_(Policy!vars)
  OBVIOUS
<1>1. CASE \E p \in Procs : Step(p)
  BY <1>1, PolicyStep
<1>2. CASE Halt
  <2>1. Work' = [m \in Monitors |-> {}] /\ UnderRecovery' = {}
    BY <1>2, WorkNone DEF Halt
  <2>2. /\ FailuresInRow' = SavedFailures /\ SavedFailures' = SavedFailures
        /\ halts' = halts + 1 /\ UNCHANGED <<lastStart, autoFailures, now>>
    BY <1>2 DEF Halt, files, FailuresInRow, SavedFailures
  <2>3. Policy!End
    BY <2>1, <2>2 DEF Policy!End
  <2> QED
    BY <2>3 DEF Policy!Next
<1>3. CASE Start
  <2>1. PICK on \in SUBSET Monitors, o \in SaveOutcomes :
          /\ Persist(Loaded(on), TrimToLimit(eventsFile), TRUE, o)
          /\ current' = IF SaveFails(o, TRUE) THEN stateFile' ELSE Loaded(on)
          /\ pc' \in [Procs -> {"off", "idle", "locking"}]
    BY <1>3, StartFiles
  <2>2. stateFile' \in {stateFile, Loaded(on)} /\ current' \in {stateFile, Loaded(on)}
    BY <2>1, PersistFiles
  <2>3. \A m \in Monitors : Loaded(on)[m].consecutive = stateFile[m].consecutive
    BY DEF Loaded, TypeOK, MonitorState
  <2>4. current = stateFile /\ \A q \in Procs : pc[q] = "off"
    BY <1>3 DEF DownInv, Start
  <2>5. FailuresInRow' = FailuresInRow /\ SavedFailures' = SavedFailures
    BY <2>2, <2>3, <2>4 DEF FailuresInRow, SavedFailures
  <2>6. Work' = Work /\ UnderRecovery' = UnderRecovery
    <3>1. \A q \in Procs : pc[q] \notin InCallback /\ pc'[q] \notin InCallback
      BY <2>1, <2>4 DEF InCallback
    <3> QED
      BY <3>1, WorkKept
  <2> QED
    BY <1>3, <2>5, <2>6 DEF Start, ghosts, Policy!vars
<1>4. CASE /\ UNCHANGED <<memory, files, lock, ghosts>>
           /\ \A q \in Procs :
                \/ pc'[q] = pc[q] /\ frame'[q] = frame[q]
                \/ pc[q] \notin InCallback /\ pc'[q] \notin InCallback
  <2>1. Work' = Work /\ UnderRecovery' = UnderRecovery
    BY <1>4, WorkKept
  <2>2. FailuresInRow' = FailuresInRow /\ SavedFailures' = SavedFailures
    BY <1>4 DEF memory, files, FailuresInRow, SavedFailures
  <2>3. CASE now' = now
    BY <1>4, <2>1, <2>2, <2>3 DEF ghosts, Policy!vars
  <2>4. CASE now' # now
    <3>1. now' = now + 1
      BY <2>4, RowsOf DEF Next, LoopTick, LoopStop, Expire, Arrive, Terminate, Halt,
         Start, Tick, vars
    <3>2. Policy!Tick
      BY <1>4, <2>1, <2>2, <3>1 DEF ghosts, Policy!Tick
    <3> QED
      BY <3>2 DEF Policy!Next
  <2> QED
    BY <2>3, <2>4
<1> QED
  BY <1>1, <1>2, <1>3, <1>4, QuietSteps

\* The engine runs recovery actions only as RecoveryPolicy allows, in every
\* interleaving, with every failed save and over every restart.
THEOREM PolicyKept == Spec => KeepsPolicy
<1>1. Init => Policy!Init
  <2> SUFFICES ASSUME Init PROVE Policy!Init
    OBVIOUS
  <2>1. Work = [m \in Monitors |-> {}] /\ UnderRecovery = {}
    BY NoWork DEF Init, InCallback
  <2>2. FailuresInRow = [m \in Monitors |-> 0] /\ SavedFailures = FailuresInRow
    BY DEF Init, FailuresInRow, SavedFailures, NewMonitorState
  <2> QED
    BY <2>1, <2>2 DEF Init, Policy!Init
<1>2. Init => CooldownInv /\ DecidedInv
  BY DEF Init, CooldownInv, Keeps, Over, DecidedInv
<1> QED
  BY <1>1, <1>2, InitType, TypeInvariance, LockInit, LockInvariance, BudgetInit, DownInvariance,
     DurableInvariance, BudgetInvariance, CooldownInvariance, JobInit, JobInvariance,
     DecidedInvariance, PolicyRefines, PTL DEF Spec, KeepsPolicy, Policy!Spec

-----------------------------------------------------------------------------
(* Only an end of the process strands a monitor. *)

\* What strands p's monitor, when nobody else is in the callback on it
StrandedBy(status, label, before) ==
    \/ status = "checking" /\ label # "checking"
    \/ status = "recovering" /\ label \notin Recovering
    \/ before \in Transient /\ label \in AtWork \cup {"starting"}

\* Row by row, an operation never leaves its monitor worse than it found it.
LEMMA StrandedRow ==
    ASSUME TypeOK, NEW p \in Procs, frame[p].on \in Monitors, Table(p),
           StrandedBy(current'[frame[p].on].status, pc'[p], frame'[p].before)
    PROVE  StrandedBy(current[frame[p].on].status, pc[p], frame[p].before)
<1> DEFINE m == frame[p].on
<1> USE DEF StrandedBy, Transient, AtWork, Recovering, PCs, Row
<1>1. CASE Row(p, {"entered"}, {"checking"}, current[m].status, "checking", current[m].results, <<>>)
  BY <1>1
<1>2. CASE Row(p, {"checking"}, {"checking"}, frame[p].before, current[m].status, current[m].results, <<>>)
  BY <1>2
<1>3. CASE Row(p, {"checking"} \cup Recovering, {"releasing"}, frame[p].before, frame[p].before,
               current[m].results, <<>>)
  BY <1>3
<1>4. CASE current'[m].status \in {"healthy", "degraded", "failed"} /\ pc'[p] \in {"deciding", "releasing"}
  BY <1>4
<1>5. CASE Row(p, {"prechecking"}, {"starting"}, current[m].status, current[m].status, current[m].results, <<>>)
  BY <1>5
<1>6. CASE Row(p, {"deciding"}, {"acting", "restoring"}, "degraded", "recovering", current[m].results,
               <<Event(m, "recovery_started")>>)
  BY <1>6
<1>7. CASE Row(p, {"starting"}, {"acting", "restoring"}, frame[p].before, "recovering", current[m].results,
               <<Event(m, "recovery_started")>>)
  BY <1>7
<1>8. CASE Row(p, Recovering, Recovering, frame[p].before, current[m].status, current[m].results, <<>>)
  BY <1>8
<1>9. CASE Row(p, PCs \ AtWork, PCs \ (AtWork \cup {"starting", "deciding"}), frame[p].before,
               current[m].status, current[m].results, <<>>)
  BY <1>9
<1> QED
  BY <1>1, <1>2, <1>3, <1>4, <1>5, <1>6, <1>7, <1>8, <1>9 DEF Table

LEMMA StrandedHere ==
    ASSUME TypeOK, LockInv, NEW p \in Procs, Step(p), pc[p] \in InCallback,
           NEW n \in Monitors, n = frame[p].on, Stranded(n)'
    PROVE  StrandedBy(current'[n].status, pc'[p], frame'[p].before)
<1>1. /\ \A q \in Procs : q # p => pc'[q] = pc[q] /\ frame'[q] = frame[q]
      /\ pc'[p] \in InCallback => frame'[p].on = n
  BY OtherFrames
<1>2. {"checking", "starting"} \cup Recovering \subseteq InCallback
  BY DEF Recovering, InCallback, PCs
<1>3. \A q \in Procs : q # p /\ frame[q].on = n => pc[q] \notin InCallback
  BY Alone
<1> QED
  BY <1>1, <1>2, <1>3 DEF Stranded, StrandedBy, AtWork, Transient

LEMMA StrandedStep ==
    ASSUME TypeOK, LockInv, JobInv, FinishInv, NEW p \in Procs, Step(p),
           NEW n \in Monitors, Stranded(n)'
    PROVE  Stranded(n)
<1> DEFINE m == frame[p].on
<1> USE DEF AtWork, Transient
<1>1. /\ m \in Monitors
      /\ \A q \in Procs : q # p => pc'[q] = pc[q] /\ frame'[q] = frame[q]
      /\ pc'[p] \in InCallback => frame'[p].on = m
  BY StepBusy, BusyOn, OtherFrames
<1>2. {"checking", "starting"} \cup Recovering \subseteq InCallback
  BY DEF Recovering, InCallback, PCs
<1>3. CASE n # m
  <2>1. current'[n] = current[n]
    BY <1>3, OtherMonitors
  <2>2. \A q \in Procs : pc[q] \in InCallback /\ frame[q].on = n =>
          pc'[q] = pc[q] /\ frame'[q] = frame[q]
    BY <1>1, <1>3
  <2>3. \A q \in Procs : pc'[q] \in InCallback /\ frame'[q].on = n =>
          pc'[q] = pc[q] /\ frame'[q] = frame[q]
    BY <1>1, <1>3
  <2> QED
    BY <1>2, <2>1, <2>2, <2>3 DEF Stranded
<1>4. CASE n = m /\ pc[p] \in InCallback
  <2>1. \A q \in Procs : q # p /\ frame[q].on = n => pc[q] \notin InCallback
    BY <1>4, Alone
  <2>2. StrandedBy(current'[m].status, pc'[p], frame'[p].before)
    BY <1>4, StrandedHere
  <2>3. StrandedBy(current[m].status, pc[p], frame[p].before)
    BY <1>1, <2>2, StatusTable, StrandedRow
  <2> QED
    BY <1>2, <1>4, <2>1, <2>3 DEF Stranded, StrandedBy
<1>5. CASE n = m /\ pc[p] \notin InCallback
  <2>1. UNCHANGED current /\ pc[p] = "locking"
    BY <1>5, MovingSteps DEF Moves, GiveUp, Release, Acquire, memory, InCallback, PCs
  <2>2. pc'[p] \in {"entered", "idle", "off"}
    BY <1>5, MovingSteps DEF Moves, GiveUp, Return, Goto, Release, Acquire, TypeOK, InCallback, PCs
  <2> QED
    BY <1>1, <1>2, <2>1, <2>2 DEF Stranded, Recovering
<1> QED
  BY <1>3, <1>4, <1>5

\* Outcomes are recorded with a lasting status.
LEMMA DoneSteps ==
    ASSUME TypeOK, NEW p \in Procs, Step(p), NEW q \in Procs, frame'[q].done, ~frame[q].done
    PROVE  /\ q = p /\ pc[p] \in InCallback /\ frame'[p].on = frame[p].on
           /\ pc'[p] \in {"deciding", "releasing"}
           /\ current'[frame[p].on].status \in {"healthy", "degraded", "failed"}
<1> DEFINE m == frame[p].on
<1>1. m \in Monitors /\ current \in [Monitors -> MonitorState]
  BY StepBusy, BusyOn DEF TypeOK
<1>2. q = p
  BY OtherFrames
<1>3. RecordHealthy(p) \/ RecordFailure(p) \/ RecordRecovery(p) \/ RecordFailedRecovery(p)
  <2>1. frame \in [Procs -> Frame] /\ frame[p] \in Frame
    BY DEF TypeOK
  <2>2. CASE UNCHANGED frame
    BY <2>2
  <2>3. CASE GiveUp(p) \/ Release(p)
    <3>1. frame'[p] = NewFrame(p, "check")
      BY <2>1, <2>3 DEF GiveUp, Release
    <3>2. ~frame'[p].done
      BY <3>1 DEF NewFrame
    <3> QED
      BY <1>2, <3>2
  <2>4. CASE MarkChecking(p)
    BY <1>2, <2>1, <2>4 DEF MarkChecking, Frame
  <2>5. CASE RunCheck(p)
    <3>1. PICK n, b : frame' = [frame EXCEPT ![p] = [frame[p] EXCEPT !.ran = n, !.bad = b]]
      BY <2>5 DEF RunCheck
    <3> QED
      BY <1>2, <2>1, <3>1 DEF Frame
  <2>6. CASE ReadStatusBefore(p)
    BY <1>2, <2>1, <2>6 DEF ReadStatusBefore, Frame
  <2>7. CASE StartRecovery(p)
    <3>1. PICK b, f : frame' = [frame EXCEPT ![p] = [frame[p] EXCEPT !.before = b, !.step = 1, !.failed = f]]
      BY <2>7 DEF StartRecovery
    <3> QED
      BY <1>2, <2>1, <3>1 DEF Frame
  <2>8. CASE Advance(p) \/ EndAction(p)
    BY <1>2, <2>1, <2>8 DEF Advance, EndAction, Frame
  <2>9. CASE EndRecheck(p)
    BY <2>2, <2>8, <2>9 DEF EndRecheck
  <2> QED
    BY <2>2, <2>3, <2>4, <2>5, <2>6, <2>7, <2>8, <2>9 DEF Step, Acquire, SkipCancelled,
       RestoreCancelledCheck, SuppressRecovery, BeginForced, AbandonStart, InterruptRecovery,
       BeginAction, EndVerify, RestoreStatus
<1>4. pc[p] \in InCallback /\ pc'[p] \in {"deciding", "releasing"}
  BY <1>3 DEF RecordHealthy, RecordFailure, RecordRecovery, RecordFailedRecovery, Goto, TypeOK, InCallback, PCs
<1>5. frame'[p].on = frame[p].on
  BY <1>4, OtherFrames DEF InCallback, PCs
<1>6. ASSUME NEW s, NEW events, NEW o, Update(m, s, events, o)
      PROVE  current'[m] = s
  BY <1>1, <1>6, UpdateOwn
<1>7. current[m] \in MonitorState
  BY <1>1
<1> HIDE DEF m
<1>8. current'[m].status \in {"healthy", "degraded", "failed"}
  <2>1. CASE RecordHealthy(p)
    <3> DEFINE s == [current[m] EXCEPT !.status = "healthy", !.consecutive = 0,
                                       !.exhausted = FALSE, !.results = Results(p)]
    <3>1. s.status = "healthy"
      BY <1>7 DEF MonitorState
    <3>2. PICK events, o : Update(m, s, events, o)
      BY <2>1 DEF RecordHealthy, m
    <3> QED
      BY <1>6, <3>1, <3>2
  <2>2. CASE RecordFailure(p)
    <3> DEFINE s == [current[m] EXCEPT !.status = "degraded", !.consecutive = @ + 1,
                                       !.results = Results(p)]
    <3>1. s.status = "degraded"
      BY <1>7 DEF MonitorState
    <3>2. PICK events, o : Update(m, s, events, o)
      BY <2>2 DEF RecordFailure, m
    <3> QED
      BY <1>6, <3>1, <3>2
  <2>3. CASE RecordRecovery(p)
    <3> DEFINE s == [current[m] EXCEPT !.status = "healthy", !.consecutive = 0,
                                       !.exhausted = FALSE, !.cooldownUntil = CooldownEnd(m),
                                       !.results = PostResults(p)]
    <3>1. s.status = "healthy"
      BY <1>7 DEF MonitorState
    <3>2. PICK events, o : Update(m, s, events, o)
      BY <2>3 DEF RecordRecovery, m
    <3> QED
      BY <1>6, <3>1, <3>2
  <2>4. CASE RecordFailedRecovery(p)
    <3> DEFINE s == [current[m] EXCEPT !.status = "failed", !.recoveryFailures = @ + 1,
                                       !.cooldownUntil = CooldownEnd(m), !.results = PostResults(p)]
    <3>1. s.status = "failed" /\ Exhaust(m, s).status = "failed"
      BY <1>7 DEF MonitorState, Exhaust
    <3>2. PICK next, events, o : next \in {s, Exhaust(m, s)} /\ Update(m, next, events, o)
      BY <2>4 DEF RecordFailedRecovery, m
    <3> QED
      BY <1>6, <3>1, <3>2
  <2> QED
    BY <1>3, <2>1, <2>2, <2>3, <2>4
<1> QED
  BY <1>2, <1>4, <1>5, <1>8 DEF m

LEMMA StrandedSteps ==
    TypeOK /\ LockInv /\ DownInv /\ JobInv /\ FinishInv /\ [Next]_vars =>
        /\ \A m \in Monitors : Stranded(m)' => Stranded(m) \/ halts' # halts
        /\ \A p \in Procs : frame'[p].done /\ ~frame[p].done => ~Stranded(frame[p].on)'
<1> SUFFICES ASSUME TypeOK, LockInv, DownInv, JobInv, FinishInv, [Next]_vars
             PROVE  /\ \A m \in Monitors : Stranded(m)' => Stranded(m) \/ halts' # halts
                    /\ \A p \in Procs : frame'[p].done /\ ~frame[p].done => ~Stranded(frame[p].on)'
  OBVIOUS
<1>1. {"checking", "starting"} \cup Recovering \subseteq InCallback
  BY DEF Recovering, InCallback, PCs
<1>2. ASSUME NEW m \in Monitors, Stranded(m)', halts' = halts
      PROVE  Stranded(m)
  <2>1. CASE \E p \in Procs : Step(p)
    BY <1>2, <2>1, StrandedStep
  <2>2. CASE Halt
    BY <1>2, <2>2 DEF Halt, TypeOK
  <2>3. CASE Start
    <3>1. PICK on \in SUBSET Monitors, o \in SaveOutcomes :
            /\ Persist(Loaded(on), TrimToLimit(eventsFile), TRUE, o)
            /\ current' = IF SaveFails(o, TRUE) THEN stateFile' ELSE Loaded(on)
            /\ pc' \in [Procs -> {"off", "idle", "locking"}]
      BY <2>3, StartFiles
    <3>2. stateFile' \in {stateFile, Loaded(on)} /\ current' \in {stateFile, Loaded(on)}
      BY <3>1, PersistFiles
    <3>3. Loaded(on)[m].status \in {stateFile[m].status, "disabled"}
      BY DEF Loaded, TypeOK, MonitorState
    <3>4. current = stateFile /\ \A q \in Procs : pc[q] = "off"
      BY <2>3 DEF DownInv, Start
    <3>5. current'[m].status \in {current[m].status, "disabled"}
      BY <3>2, <3>3, <3>4
    <3>6. \A q \in Procs : pc[q] \notin InCallback /\ pc'[q] \notin InCallback
      BY <3>1, <3>4 DEF InCallback
    <3> QED
      BY <1>1, <1>2, <3>5, <3>6 DEF Stranded
  <2>4. CASE /\ UNCHANGED <<memory, files, lock, ghosts>>
             /\ \A q \in Procs : \/ pc'[q] = pc[q] /\ frame'[q] = frame[q]
                                 \/ pc[q] \notin InCallback /\ pc'[q] \notin InCallback
    <3>1. current' = current
      BY <2>4 DEF memory
    <3> QED
      BY <1>1, <1>2, <2>4, <3>1 DEF Stranded
  <2> QED
    BY <2>1, <2>2, <2>3, <2>4, QuietSteps
<1>3. ASSUME NEW q \in Procs, frame'[q].done, ~frame[q].done
      PROVE  ~Stranded(frame[q].on)'
  <2>1. ASSUME NEW p \in Procs, Step(p)
        PROVE  ~Stranded(frame[q].on)'
    <3>1. /\ q = p /\ pc[p] \in InCallback /\ frame'[p].on = frame[p].on
          /\ pc'[p] \in {"deciding", "releasing"}
          /\ current'[frame[p].on].status \in {"healthy", "degraded", "failed"}
      BY <1>3, <2>1, DoneSteps
    <3>2. PICK n \in Monitors : n = frame[p].on
      BY <2>1, StepBusy, BusyOn
    <3>3. ~Stranded(n)'
      BY <2>1, <3>1, <3>2, StrandedHere DEF StrandedBy, AtWork, Recovering
    <3> QED
      BY <3>1, <3>2, <3>3 DEF Stranded
  <2>2. CASE Halt
    BY <1>3, <2>2 DEF Halt, NoFrames, NewFrame
  <2>3. CASE Start
    BY <1>3, <2>3 DEF Start
  <2> QED
    BY <1>3, <2>1, <2>2, <2>3, QuietSteps
<1> QED
  BY <1>2, <1>3

\* A status that tells of work nobody does comes from an end of the process
\* only, and the next operation that runs to its end puts it right.
THEOREM OnlyEndsStrand == Spec => OnlyAnEndStrands
<1>1. TypeOK /\ LockInv /\ DownInv /\ JobInv /\ FinishInv /\ [Next]_vars =>
        [/\ \A m \in Monitors : Stranded(m)' => Stranded(m) \/ halts' # halts
         /\ \A p \in Procs : frame'[p].done /\ ~frame[p].done => ~Stranded(frame[p].on)']_vars
  BY StrandedSteps
<1> QED
  BY <1>1, InitType, TypeInvariance, LockInit, LockInvariance, BudgetInit, DownInvariance, JobInit,
     JobInvariance, PTL DEF Spec, OnlyAnEndStrands

-----------------------------------------------------------------------------
(* The history tells in order. *)

LEMMA FormatMonotone ==
    ASSUME NEW t \in Nat, NEW u \in Nat, t <= u
    PROVE  Format(t) <= Format(u)
<1> DEFINE K == TicksPerSecond
           a == t \div K
           b == u \div K
<1>1. K \in Nat /\ K > 0
  BY EnvironmentAssumption
<1>2. a \in Nat /\ b \in Nat
  BY <1>1
<1>3. a * K <= t /\ u < b * K + K
  BY FormatType DEF Format
<1> HIDE DEF a, b, K
<1>4. a * K < (b + 1) * K
  BY <1>1, <1>2, <1>3
<1>5. a <= b
  BY <1>1, <1>2, <1>4
<1>6. a * K <= b * K
  BY <1>1, <1>2, <1>5
<1> QED
  BY <1>6 DEF Format, a, b, K

\* What trimming keeps is the end of a history.
LEMMA TrimShift ==
    ASSUME NEW h \in Seq(Events)
    PROVE  /\ TrimToLimit(h) \in Seq(Events)
           /\ \E k \in Nat :
                /\ Len(TrimToLimit(h)) = Len(h) - k
                /\ \A i \in 1..Len(TrimToLimit(h)) : i + k \in 1..Len(h) /\ TrimToLimit(h)[i] = h[i + k]
<1>1. TrimToLimit(h) \in Seq(Events)
  BY TrimType DEF Histories
<1>2. Len(h) \in Nat /\ EventsMaxEntries \in Nat \ {0}
  BY ConfigAssumption
<1>3. CASE Len(h) <= EventsMaxEntries
  <2>1. TrimToLimit(h) = h
    BY <1>2, <1>3 DEF TrimToLimit
  <2> QED
    BY <1>1, <1>2, <2>1
<1>4. CASE Len(h) > EventsMaxEntries
  <2> DEFINE k == Len(h) - EventsMaxEntries
  <2>1. TrimToLimit(h) = SubSeq(h, k + 1, Len(h)) /\ k \in Nat
    BY <1>2, <1>4 DEF TrimToLimit
  <2>2. /\ Len(SubSeq(h, k + 1, Len(h))) = Len(h) - k
        /\ \A i \in 1..(Len(h) - k) : SubSeq(h, k + 1, Len(h))[i] = h[i + k]
    BY <1>2, <2>1
  <2>3. \A i \in 1..(Len(h) - k) : i + k \in 1..Len(h)
    BY <1>2, <2>1
  <2> HIDE DEF k
  <2> QED
    BY <1>1, <2>1, <2>2, <2>3
<1> QED
  BY <1>2, <1>3, <1>4

\* The last event of m that h still has, if any, has one of the types.
LastIn(h, m, types) ==
    \A i \in DOMAIN h :
        h[i].mon = m /\ (\A j \in DOMAIN h : h[j].mon = m => j <= i) => h[i].type \in types

LEMMA TrimInOrder ==
    ASSUME NEW h \in Seq(Events), NEW t, t = TrimToLimit(h)
    PROVE  /\ t \in Seq(Events)
           /\ Chronological(h) => Chronological(t)
           /\ OutcomesFollow(h) => OutcomesFollow(t)
           /\ \A m, types : LastIn(h, m, types) => LastIn(t, m, types)
           /\ \A i \in DOMAIN t : \E j \in DOMAIN h : t[i] = h[j]
<1>1. PICK k \in Nat :
        /\ Len(t) = Len(h) - k
        /\ \A i \in 1..Len(t) : i + k \in 1..Len(h) /\ t[i] = h[i + k]
  BY TrimShift
<1>2. /\ t \in Seq(Events) /\ Len(t) \in Nat /\ Len(h) \in Nat
      /\ DOMAIN t = 1..Len(t) /\ DOMAIN h = 1..Len(h)
  BY TrimShift
<1>3. ASSUME Chronological(h), NEW i \in DOMAIN t, NEW j \in DOMAIN t, i <= j, t[i].mon = t[j].mon
      PROVE  t[i].at <= t[j].at
  <2>1. i + k \in DOMAIN h /\ j + k \in DOMAIN h /\ t[i] = h[i + k] /\ t[j] = h[j + k] /\ i + k <= j + k
    BY <1>1, <1>2, <1>3
  <2> QED
    BY <1>3, <2>1 DEF Chronological
<1>4. ASSUME OutcomesFollow(h), NEW i \in DOMAIN t, NEW j \in DOMAIN t, DirectlyBefore(t, i, j)
      PROVE  MayFollow(t[i].type, t[j].type)
  <2>1. i + k \in DOMAIN h /\ j + k \in DOMAIN h /\ t[i] = h[i + k] /\ t[j] = h[j + k]
    BY <1>1, <1>2
  <2>2. ASSUME NEW l \in DOMAIN h, i + k < l, l < j + k
        PROVE  h[l].mon # h[j + k].mon
    <3>1. l - k \in DOMAIN t /\ i < l - k /\ l - k < j /\ t[l - k] = h[l]
      BY <1>1, <1>2, <2>2
    <3> QED
      BY <1>4, <2>1, <3>1 DEF DirectlyBefore
  <2>3. DirectlyBefore(h, i + k, j + k)
    BY <1>1, <1>2, <1>4, <2>1, <2>2 DEF DirectlyBefore
  <2> QED
    BY <1>4, <2>1, <2>3 DEF OutcomesFollow
<1>5. ASSUME NEW m, NEW types, LastIn(h, m, types),
             NEW i \in DOMAIN t, t[i].mon = m, \A j \in DOMAIN t : t[j].mon = m => j <= i
      PROVE  t[i].type \in types
  <2>1. i + k \in DOMAIN h /\ t[i] = h[i + k]
    BY <1>1, <1>2
  <2>2. ASSUME NEW j \in DOMAIN h, h[j].mon = m
        PROVE  j <= i + k
    <3>1. CASE j > k
      <4>1. j - k \in DOMAIN t /\ t[j - k] = h[j]
        BY <1>1, <1>2, <3>1
      <4>2. j - k <= i
        BY <1>5, <2>2, <4>1
      <4> QED
        BY <1>1, <1>2, <4>2
    <3> QED
      BY <1>1, <1>2, <3>1
  <2> QED
    BY <1>5, <2>1, <2>2 DEF LastIn
<1>6. \A i \in DOMAIN t : \E j \in DOMAIN h : t[i] = h[j]
  BY <1>1, <1>2
<1> QED
  BY <1>2, <1>3, <1>4, <1>5, <1>6 DEF Chronological, OutcomesFollow, LastIn

LEMMA AppendInOrder ==
    ASSUME NEW h \in Seq(Events), NEW e \in Events, NEW g, g = h \o <<e>>
    PROVE  /\ g \in Seq(Events)
           /\ Chronological(h) /\ (\A i \in DOMAIN h : h[i].at <= e.at) => Chronological(g)
           /\ \A types :
                OutcomesFollow(h) /\ LastIn(h, e.mon, types) /\ (\A type \in types : MayFollow(type, e.type))
                    => OutcomesFollow(g)
           /\ \A m, types : LastIn(h, m, types) /\ e.mon # m => LastIn(g, m, types)
           /\ LastIn(g, e.mon, {e.type})
           /\ \A i \in DOMAIN g : g[i] = e \/ \E j \in DOMAIN h : g[i] = h[j]
<1> DEFINE n == Len(h)
<1>1. /\ n \in Nat /\ g \in Seq(Events) /\ Len(g) = n + 1
      /\ DOMAIN h = 1..n /\ DOMAIN g = 1..(n + 1)
      /\ g[n + 1] = e /\ \A i \in 1..n : g[i] = h[i]
  OBVIOUS
<1> HIDE DEF n
<1>2. e.at <= e.at
  BY DEF Events
<1>3. ASSUME Chronological(h), \A i \in DOMAIN h : h[i].at <= e.at
      PROVE  Chronological(g)
  BY <1>1, <1>2, <1>3 DEF Chronological
<1>4. ASSUME NEW types, OutcomesFollow(h), LastIn(h, e.mon, types),
             \A type \in types : MayFollow(type, e.type),
             NEW i \in DOMAIN g, NEW j \in DOMAIN g, DirectlyBefore(g, i, j)
      PROVE  MayFollow(g[i].type, g[j].type)
  <2>1. i \in 1..n
    BY <1>1, <1>4 DEF DirectlyBefore
  <2>2. CASE j = n + 1
    <3>1. h[i].mon = e.mon /\ \A l \in DOMAIN h : h[l].mon = e.mon => l <= i
      BY <1>1, <1>4, <2>1, <2>2 DEF DirectlyBefore
    <3> QED
      BY <1>1, <1>4, <2>1, <2>2, <3>1 DEF LastIn
  <2>3. CASE j \in 1..n
    <3>1. DirectlyBefore(h, i, j)
      BY <1>1, <1>4, <2>1, <2>3 DEF DirectlyBefore
    <3> QED
      BY <1>1, <1>4, <2>1, <2>3, <3>1 DEF OutcomesFollow
  <2> QED
    BY <1>1, <2>2, <2>3
<1>5. \A m, types : LastIn(h, m, types) /\ e.mon # m => LastIn(g, m, types)
  BY <1>1 DEF LastIn
<1>6. LastIn(g, e.mon, {e.type})
  BY <1>1 DEF LastIn
<1>7. \A i \in DOMAIN g : g[i] = e \/ \E j \in DOMAIN h : g[i] = h[j]
  BY <1>1
<1> QED
  BY <1>1, <1>3, <1>4, <1>5, <1>6, <1>7 DEF OutcomesFollow

\* What p's step adds to the history, if anything, and where p is then
HistoryRow(p, add) ==
    LET E(type) == Event(frame[p].on, type) IN
    \/ add = <<>> /\ pc'[p] # "deciding"
    \/ \E type \in EventTypes :
         /\ add = <<E(type)>>
         /\ type \in {"recovery_succeeded", "recovery_failed"} => pc[p] = "finishing"
         /\ type = "recovery_exhausted" => pc[p] = "deciding"
         /\ pc'[p] = "deciding" => type = "check_failed"
    \/ /\ add = <<E("recovery_failed")>> \o <<E("recovery_exhausted")>>
       /\ pc[p] = "finishing" /\ pc'[p] = "releasing"

LEMMA HistoryRows ==
    ASSUME TypeOK, NEW p \in Procs, frame[p].on \in Monitors, Table(p)
    PROVE  \E add : HistoryRow(p, add) /\ history' = TrimToLimit(history \o add)
<1> DEFINE m == frame[p].on
           b == frame[p].before
<1> USE DEF Row
<1>1. ASSUME NEW type \in EventTypes, history' = TrimToLimit(history \o <<Event(m, type)>>),
             type \in {"recovery_succeeded", "recovery_failed"} => pc[p] = "finishing",
             type = "recovery_exhausted" => pc[p] = "deciding",
             pc'[p] = "deciding" => type = "check_failed"
      PROVE  \E add : HistoryRow(p, add) /\ history' = TrimToLimit(history \o add)
  <2>1. HistoryRow(p, <<Event(m, type)>>)
    BY <1>1 DEF HistoryRow
  <2> QED
    BY <1>1, <2>1
<1>2. ASSUME pc'[p] # "deciding", history' = TrimToLimit(history \o <<>>)
      PROVE  \E add : HistoryRow(p, add) /\ history' = TrimToLimit(history \o add)
  <2>1. HistoryRow(p, <<>>)
    BY <1>2 DEF HistoryRow
  <2> QED
    BY <1>2, <2>1
<1> USE DEF EventTypes, AtWork, Recovering, PCs
<1>3. CASE Row(p, {"checking"}, {"releasing"}, b, "healthy", Full(m),
               IF ShouldRecordHealthyEvent(b) THEN <<Event(m, "check_succeeded")>> ELSE <<>>)
  BY <1>1, <1>2, <1>3
<1>4. CASE \E results : Row(p, {"checking"}, {"deciding", "releasing"}, b, "degraded", results,
                            <<Event(m, "check_failed")>>)
  BY <1>1, <1>4
<1>5. CASE Row(p, {"deciding"}, {"releasing"}, b, "failed", current[m].results,
               <<Event(m, "recovery_exhausted")>>)
  BY <1>1, <1>5
<1>6. CASE \/ Row(p, {"deciding"}, {"acting", "restoring"}, "degraded", "recovering", current[m].results,
                  <<Event(m, "recovery_started")>>)
           \/ Row(p, {"starting"}, {"acting", "restoring"}, b, "recovering", current[m].results,
                  <<Event(m, "recovery_started")>>)
  BY <1>1, <1>6
<1>7. CASE Row(p, {"finishing"}, {"releasing"}, b, "healthy", Full(m), <<Event(m, "recovery_succeeded")>>)
  BY <1>1, <1>7
<1>8. CASE \E results : Row(p, {"finishing"}, {"releasing"}, b, "failed", results,
                            <<Event(m, "recovery_failed")>>)
  BY <1>1, <1>8
<1>9. CASE \E results : Row(p, {"finishing"}, {"releasing"}, b, "failed", results,
                            <<Event(m, "recovery_failed")>> \o <<Event(m, "recovery_exhausted")>>)
  <2> DEFINE add == <<Event(m, "recovery_failed")>> \o <<Event(m, "recovery_exhausted")>>
  <2>1. history' = TrimToLimit(history \o add) /\ pc[p] = "finishing" /\ pc'[p] = "releasing"
    BY <1>9
  <2>2. HistoryRow(p, add)
    BY <2>1 DEF HistoryRow
  <2> HIDE DEF add
  <2> QED
    BY <2>1, <2>2
<1>10. CASE history' = TrimToLimit(history \o <<>>) /\ pc'[p] # "deciding"
  BY <1>2, <1>10
<1>11. CASE \/ Row(p, {"entered"}, {"checking"}, current[m].status, "checking", current[m].results, <<>>)
            \/ Row(p, {"checking"}, {"checking"}, b, current[m].status, current[m].results, <<>>)
            \/ Row(p, {"checking"} \cup Recovering, {"releasing"}, b, b, current[m].results, <<>>)
            \/ Row(p, {"deciding"}, {"releasing"}, b, "failed", current[m].results, <<>>)
            \/ Row(p, {"prechecking"}, {"starting"}, current[m].status, current[m].status,
                   current[m].results, <<>>)
            \/ Row(p, Recovering, Recovering, b, current[m].status, current[m].results, <<>>)
            \/ Row(p, PCs \ AtWork, PCs \ (AtWork \cup {"starting", "deciding"}), b, current[m].status,
                   current[m].results, <<>>)
  BY <1>10, <1>11
<1> QED
  BY <1>3, <1>4, <1>5, <1>6, <1>7, <1>8, <1>9, <1>11 DEF Table

InOrder(h) ==
    /\ Chronological(h) /\ OutcomesFollow(h)
    /\ \A i \in DOMAIN h : h[i].at <= Format(now)

\* Inductive: nothing tells of the future, and whoever decides on a recovery has
\* just told of a failed check.
OrderInv ==
    /\ InOrder(history) /\ InOrder(eventsFile)
    /\ \A p \in Procs : pc[p] = "deciding" => LastIn(history, frame[p].on, {"check_failed"})

LeadsTo(types, next) == \A type \in types : MayFollow(type, next)

\* What h tells of the other monitors at its end, g tells as well.
SameElsewhere(m, h, g) == \A n, types : n # m /\ LastIn(h, n, types) => LastIn(g, n, types)

LEMMA OneMoreInOrder ==
    ASSUME TypeOK, NEW h \in Seq(Events), InOrder(h), NEW m \in Monitors, NEW type \in EventTypes,
           NEW types, LastIn(h, m, types), LeadsTo(types, type),
           NEW g, g = h \o <<Event(m, type)>>
    PROVE  /\ g \in Seq(Events) /\ InOrder(g) /\ LastIn(g, m, {type})
           /\ SameElsewhere(m, h, g)
<1> DEFINE e == Event(m, type)
<1>1. e \in Events /\ e.mon = m /\ e.type = type /\ e.at = Format(now)
  BY EventType DEF TypeOK, Event
<1>2. now \in Nat /\ Format(now) \in Nat /\ Format(now) <= Format(now)
  BY FormatType DEF TypeOK
<1> HIDE DEF e
<1>3. g = h \o <<e>>
  BY DEF e
<1>4. g \in Seq(Events) /\ LastIn(g, e.mon, {e.type})
  BY <1>1, <1>3, AppendInOrder
<1>5. Chronological(g)
  <2>1. Chronological(h) /\ \A i \in DOMAIN h : h[i].at <= e.at
    BY <1>1 DEF InOrder
  <2> QED
    BY <1>1, <1>3, <2>1, AppendInOrder
<1>8. OutcomesFollow(g)
  <2>1. OutcomesFollow(h) /\ LastIn(h, e.mon, types) /\ \A t \in types : MayFollow(t, e.type)
    BY <1>1 DEF InOrder, LeadsTo
  <2> QED
    BY <1>1, <1>3, <2>1, AppendInOrder
<1>6. \A i \in DOMAIN g : g[i].at <= Format(now)
  BY <1>1, <1>2, <1>3, AppendInOrder DEF InOrder
<1>7. SameElsewhere(m, h, g)
  BY <1>1, <1>3, AppendInOrder DEF SameElsewhere
<1> QED
  BY <1>1, <1>4, <1>5, <1>6, <1>7, <1>8 DEF InOrder

LEMMA TwoMoreInOrder ==
    ASSUME TypeOK, NEW h \in Seq(Events), InOrder(h), NEW m \in Monitors,
           LastIn(h, m, {"recovery_started"}), NEW g,
           g = h \o (<<Event(m, "recovery_failed")>> \o <<Event(m, "recovery_exhausted")>>)
    PROVE  /\ g \in Seq(Events) /\ InOrder(g)
           /\ SameElsewhere(m, h, g)
<1>1. PICK first : first = "recovery_failed"
  OBVIOUS
<1>2. PICK second : second = "recovery_exhausted"
  OBVIOUS
<1>10. PICK types : types = {"recovery_started"}
  OBVIOUS
<1>3. LastIn(h, m, types) /\ LeadsTo(types, first) /\ LeadsTo({first}, second)
  BY <1>1, <1>2, <1>10 DEF MayFollow, LeadsTo
<1>4. first \in EventTypes /\ second \in EventTypes
  BY <1>1, <1>2 DEF EventTypes
<1>5. Event(m, first) \in Events /\ Event(m, second) \in Events
  BY <1>4, EventType DEF TypeOK
<1>6. PICK f : f = h \o <<Event(m, first)>>
  OBVIOUS
<1>7. g = f \o <<Event(m, second)>>
  BY <1>1, <1>2, <1>5, <1>6
<1>8. /\ f \in Seq(Events) /\ InOrder(f) /\ LastIn(f, m, {first})
      /\ SameElsewhere(m, h, f)
  BY <1>3, <1>4, <1>6, OneMoreInOrder
<1>9. /\ g \in Seq(Events) /\ InOrder(g)
      /\ SameElsewhere(m, f, g)
  BY <1>3, <1>4, <1>7, <1>8, OneMoreInOrder
<1> QED
  BY <1>8, <1>9 DEF SameElsewhere

LEMMA RowInOrder ==
    ASSUME TypeOK, EventInv, OrderInv, NEW p \in Procs, NEW m \in Monitors, frame[p].on = m,
           NEW add, HistoryRow(p, add), NEW g, g = history \o add
    PROVE  /\ g \in Seq(Events) /\ InOrder(g)
           /\ pc'[p] = "deciding" => LastIn(g, m, {"check_failed"})
           /\ SameElsewhere(m, history, g)
<1>1. history \in Seq(Events) /\ InOrder(history)
  BY DEF TypeOK, Histories, OrderInv
<1>2. CASE add = <<>> /\ pc'[p] # "deciding"
  <2>1. g = history
    BY <1>1, <1>2
  <2> QED
    BY <1>1, <1>2, <2>1 DEF SameElsewhere
<1>3. ASSUME pc[p] = "finishing"
      PROVE  LastIn(history, m, {"recovery_started"})
  <2>1. LastIsStart(history, m)
    BY <1>3 DEF EventInv, Acting, Recovering
  <2> QED
    BY <2>1 DEF LastIsStart, LastIn
<1>4. LastIn(history, m, EventTypes)
  <2>1. \A i \in DOMAIN history : history[i] \in Events
    BY <1>1
  <2> QED
    BY <2>1 DEF LastIn, Events
<1>5. CASE \E type \in EventTypes :
             /\ add = <<Event(m, type)>>
             /\ type \in {"recovery_succeeded", "recovery_failed"} => pc[p] = "finishing"
             /\ type = "recovery_exhausted" => pc[p] = "deciding"
             /\ pc'[p] = "deciding" => type = "check_failed"
  <2>1. PICK type \in EventTypes :
             /\ add = <<Event(m, type)>>
             /\ type \in {"recovery_succeeded", "recovery_failed"} => pc[p] = "finishing"
             /\ type = "recovery_exhausted" => pc[p] = "deciding"
             /\ pc'[p] = "deciding" => type = "check_failed"
    BY <1>5
  <2>2. PICK types : LastIn(history, m, types) /\ LeadsTo(types, type)
    <3>1. CASE type \in {"recovery_succeeded", "recovery_failed"}
      <4>1. LeadsTo({"recovery_started"}, type)
        BY <3>1 DEF MayFollow, LeadsTo
      <4> QED
        BY <1>3, <2>1, <3>1, <4>1
    <3>2. CASE type = "recovery_exhausted"
      <4>1. LeadsTo({"check_failed"}, type)
        BY <3>2 DEF MayFollow, LeadsTo
      <4> QED
        BY <2>1, <3>2, <4>1 DEF OrderInv
    <3>3. CASE type \notin {"recovery_succeeded", "recovery_failed", "recovery_exhausted"}
      <4>1. LeadsTo(EventTypes, type)
        BY <3>3 DEF MayFollow, LeadsTo
      <4> QED
        BY <1>4, <4>1
    <3> QED
      BY <3>1, <3>2, <3>3
  <2>3. /\ g \in Seq(Events) /\ InOrder(g) /\ LastIn(g, m, {type})
        /\ SameElsewhere(m, history, g)
    BY <1>1, <2>1, <2>2, OneMoreInOrder
  <2> QED
    BY <2>1, <2>3
<1>6. CASE /\ add = <<Event(m, "recovery_failed")>> \o <<Event(m, "recovery_exhausted")>>
           /\ pc[p] = "finishing" /\ pc'[p] = "releasing"
  <2>1. LastIn(history, m, {"recovery_started"})
    BY <1>3, <1>6
  <2>2. g = history \o (<<Event(m, "recovery_failed")>> \o <<Event(m, "recovery_exhausted")>>)
    BY <1>6
  <2>3. /\ g \in Seq(Events) /\ InOrder(g)
        /\ SameElsewhere(m, history, g)
    BY <1>1, <2>1, <2>2, TwoMoreInOrder
  <2> QED
    BY <1>6, <2>3
<1> QED
  BY <1>2, <1>5, <1>6 DEF HistoryRow

LEMMA OrderStep ==
    ASSUME TypeOK, LockInv, JobInv, FinishInv, EventInv, OrderInv, NEW p \in Procs, Step(p)
    PROVE  OrderInv'
<1>1. PICK m \in Monitors : m = frame[p].on
  BY StepBusy, BusyOn
<1>2. PICK add : HistoryRow(p, add) /\ history' = TrimToLimit(history \o add)
  BY <1>1, StatusTable, HistoryRows
<1> DEFINE g == history \o add
<1>3. /\ g \in Seq(Events) /\ InOrder(g)
      /\ pc'[p] = "deciding" => LastIn(g, m, {"check_failed"})
      /\ SameElsewhere(m, history, g)
  BY <1>1, <1>2, RowInOrder
<1>4. history' = TrimToLimit(g)
  BY <1>2
<1> HIDE DEF g
<1>5. /\ Chronological(history') /\ OutcomesFollow(history')
      /\ \A n, ts : LastIn(g, n, ts) => LastIn(history', n, ts)
      /\ \A i \in DOMAIN history' : \E j \in DOMAIN g : history'[i] = g[j]
  BY <1>3, <1>4, TrimInOrder DEF InOrder
<1>6. now' = now /\ Format(now)' = Format(now)
  BY RowsOf DEF Format
<1>7. InOrder(history)'
  BY <1>3, <1>5, <1>6 DEF InOrder
<1>8. InOrder(eventsFile)'
  BY <1>6, <1>7, NewsIsSaved DEF InOrder, OrderInv
<1>9. ASSUME NEW q \in Procs, pc'[q] = "deciding"
      PROVE  LastIn(history', frame'[q].on, {"check_failed"})
  <2>1. CASE q = p
    BY <1>1, <1>3, <1>5, <1>9, <2>1, OtherFrames DEF InCallback, PCs
  <2>2. CASE q # p
    <3>1. pc[q] = "deciding" /\ frame'[q] = frame[q]
      BY <1>9, <2>2, OtherFrames
    <3>2. frame[p].on # frame[q].on \/ history' = history
      BY <2>2, <3>1, OthersKeep DEF InCallback, PCs
    <3>3. LastIn(history, frame[q].on, {"check_failed"})
      BY <3>1 DEF OrderInv
    <3> QED
      BY <1>1, <1>3, <1>5, <3>1, <3>2, <3>3 DEF SameElsewhere
  <2> QED
    BY <2>1, <2>2
<1> QED
  BY <1>7, <1>8, <1>9 DEF OrderInv, LastIn

LEMMA OrderInvariance ==
    TypeOK /\ LockInv /\ JobInv /\ FinishInv /\ EventInv /\ OrderInv /\ [Next]_vars => OrderInv'
<1> SUFFICES ASSUME TypeOK, LockInv, JobInv, FinishInv, EventInv, OrderInv, [Next]_vars
             PROVE  OrderInv'
  OBVIOUS
<1>1. CASE \E p \in Procs : Step(p)
  BY <1>1, OrderStep
<1>2. ASSUME UNCHANGED <<history, eventsFile>>, now' \in Nat, now <= now',
             \A q \in Procs : pc'[q] = "deciding" => pc[q] = "deciding" /\ frame'[q] = frame[q]
      PROVE  OrderInv'
  <2>1. now \in Nat /\ Format(now) <= Format(now') /\ Format(now)' = Format(now')
    BY <1>2, FormatMonotone DEF TypeOK, Format
  <2>2. Format(now) \in Nat /\ Format(now') \in Nat
    BY <1>2, FormatType DEF TypeOK
  <2>3. ASSUME NEW h \in Seq(Events), \A i \in DOMAIN h : h[i].at <= Format(now)
        PROVE  \A i \in DOMAIN h : h[i].at <= Format(now')
    <3>2. \A i \in DOMAIN h : h[i] \in Events
      OBVIOUS
    <3>1. \A i \in DOMAIN h : h[i].at \in Nat
      BY <3>2 DEF Events
    <3> QED
      BY <2>1, <2>2, <2>3, <3>1
  <2>4. history \in Seq(Events) /\ eventsFile \in Seq(Events)
    BY DEF TypeOK, Histories
  <2>5. \A i \in DOMAIN history : history[i].at <= Format(now')
    BY <2>3, <2>4 DEF OrderInv, InOrder
  <2>6. \A i \in DOMAIN eventsFile : eventsFile[i].at <= Format(now')
    BY <2>3, <2>4 DEF OrderInv, InOrder
  <2>7. InOrder(history)' /\ InOrder(eventsFile)'
    BY <1>2, <2>1, <2>5, <2>6 DEF OrderInv, InOrder
  <2>8. \A q \in Procs : pc'[q] = "deciding" => LastIn(history, frame[q].on, {"check_failed"})
    BY <1>2 DEF OrderInv
  <2> QED
    BY <1>2, <2>7, <2>8 DEF OrderInv, LastIn
<1>3. CASE \E m \in Monitors : LoopTick(m) \/ LoopStop(m)
  BY <1>2, <1>3 DEF LoopTick, LoopStop, Goto, TypeOK, memory, files
<1>4. CASE \E r \in Requests : Expire(r)
  BY <1>2, <1>4 DEF Expire, TypeOK, memory, files
<1>5. CASE \E r \in Requests, m \in Monitors, job \in {"check", "recover"} : Arrive(r, m, job)
  BY <1>2, <1>5 DEF Arrive, Goto, TypeOK, memory, files
<1>6. CASE Terminate \/ Tick \/ UNCHANGED vars
  BY <1>2, <1>6 DEF Terminate, Tick, TypeOK, vars, memory, files
<1>7. CASE Halt
  <2>1. history' = eventsFile /\ eventsFile' = eventsFile /\ now' = now
        /\ \A q \in Procs : pc'[q] # "deciding"
    BY <1>7 DEF Halt, files
  <2> QED
    BY <2>1 DEF OrderInv, InOrder, Format
<1>8. CASE Start
  <2>1. history' \in {eventsFile, TrimToLimit(eventsFile)}
        /\ eventsFile' \in {eventsFile, TrimToLimit(eventsFile)}
    BY <1>8, StartFiles, PersistFiles
  <2>2. now' = now /\ \A q \in Procs : pc'[q] # "deciding"
    BY <1>8, StartFiles DEF Start
  <2>3. eventsFile \in Seq(Events)
    BY DEF TypeOK, Histories
  <2>4. ASSUME NEW t, t \in {eventsFile, TrimToLimit(eventsFile)}
        PROVE  InOrder(t)
    BY <2>3, <2>4, TrimInOrder DEF OrderInv, InOrder
  <2>5. InOrder(history') /\ InOrder(eventsFile')
    BY <2>1, <2>4
  <2> QED
    BY <2>2, <2>5 DEF OrderInv, InOrder, Format
<1> QED
  BY <1>1, <1>3, <1>4, <1>5, <1>6, <1>7, <1>8 DEF Next

\* In both histories the events of a monitor are in the order of time, and the
\* outcome of a recovery directly follows its start: what GET /events answers
\* can be read as a story of each monitor, whatever trimming and restarts left.
THEOREM HistoryInOrder == Spec => []HistoryTellsInOrder
<1>1. OrderInv => HistoryTellsInOrder
  BY DEF OrderInv, InOrder, HistoryTellsInOrder
<1>2. Init => OrderInv
  BY DEF Init, OrderInv, InOrder, Chronological, OutcomesFollow
<1>3. Init => EventInv
  BY DEF Init, EventInv, Acting, Recovering
<1> QED
  BY <1>1, <1>2, <1>3, InitType, TypeInvariance, LockInit, LockInvariance, JobInit, JobInvariance,
     EventInvariance, OrderInvariance, PTL DEF Spec

-----------------------------------------------------------------------------
(* Slots *)

\* Inductive, the converse of LockInv: who is in a slot is in the callback.
HolderInv ==
    \A m \in Monitors : \A q \in lock[m] : pc[q] \in InCallback /\ frame[q].on = m

LEMMA HolderStep ==
    ASSUME TypeOK, HolderInv, NEW p \in Procs, Step(p), NEW m \in Monitors, NEW q \in lock'[m]
    PROVE  pc'[q] \in InCallback /\ frame'[q].on = m
<1>1. /\ lock \in [Monitors -> SUBSET Procs] /\ pc \in [Procs -> PCs] /\ frame \in [Procs -> Frame]
      /\ frame[p].on \in Monitors
  BY StepBusy, BusyOn DEF TypeOK
<1>2. ASSUME q \in lock[m], q # p
      PROVE  pc'[q] \in InCallback /\ frame'[q].on = m
  BY <1>1, <1>2, OtherFrames DEF HolderInv
<1>3. CASE Moves(p)
  <2>1. pc'[p] \in InCallback /\ frame'[p].on = frame[p].on
    BY <1>1, <1>3 DEF Moves
  <2>2. CASE pc[p] \in InCallback /\ lock' = lock
    BY <1>2, <2>1, <2>2 DEF HolderInv
  <2>3. CASE Acquire(p)
    <3>1. lock' = [lock EXCEPT ![frame[p].on] = {p}] /\ pc[p] \notin InCallback
      BY <2>3 DEF Acquire, InCallback
    <3>2. CASE m = frame[p].on
      BY <1>1, <2>1, <3>1, <3>2
    <3>3. CASE m # frame[p].on
      <4>1. q \in lock[m]
        BY <1>1, <3>1, <3>3
      <4> QED
        BY <1>2, <3>1, <4>1 DEF HolderInv
    <3> QED
      BY <3>2, <3>3
  <2> QED
    BY <1>3, <2>2, <2>3 DEF Moves
<1>4. CASE GiveUp(p)
  <2>1. lock' = lock /\ pc[p] \notin InCallback
    BY <1>4 DEF GiveUp, InCallback
  <2> QED
    BY <1>2, <2>1 DEF HolderInv
<1>5. CASE Release(p)
  <2>1. lock' = [lock EXCEPT ![frame[p].on] = {}]
    BY <1>5 DEF Release, Unlocked
  <2>2. q \in lock[m] /\ m # frame[p].on
    BY <1>1, <2>1
  <2> QED
    BY <1>2, <2>2 DEF HolderInv
<1> QED
  BY <1>3, <1>4, <1>5, MovingSteps

LEMMA HolderInvariance == TypeOK /\ DownInv /\ HolderInv /\ [Next]_vars => HolderInv'
<1> SUFFICES ASSUME TypeOK, DownInv, HolderInv, [Next]_vars, NEW m \in Monitors, NEW q \in lock'[m]
             PROVE  pc'[q] \in InCallback /\ frame'[q].on = m
  BY DEF HolderInv
<1>1. CASE \E p \in Procs : Step(p)
  BY <1>1, HolderStep
<1>2. CASE Halt
  BY <1>2 DEF Halt
<1>3. CASE Start
  <2>1. q \in lock[m] /\ q \in Procs /\ daemon = "down"
    BY <1>3 DEF Start, TypeOK
  <2> QED
    BY <2>1 DEF DownInv, HolderInv, InCallback
<1>4. CASE /\ UNCHANGED lock
           /\ \A p \in Procs : \/ pc'[p] = pc[p] /\ frame'[p] = frame[p]
                               \/ pc[p] \notin InCallback /\ pc'[p] \notin InCallback
  <2>1. q \in lock[m] /\ q \in Procs
    BY <1>4 DEF TypeOK
  <2> QED
    BY <1>4, <2>1 DEF HolderInv
<1> QED
  BY <1>1, <1>2, <1>3, <1>4, QuietSteps

\* The slot of a monitor is taken exactly by whoever works on it.
THEOREM SlotReturned == Spec => []SlotIsReturned
<1>1. TypeOK /\ LockInv /\ HolderInv => SlotIsReturned
  <2> SUFFICES ASSUME TypeOK, LockInv, HolderInv, NEW m \in Monitors
               PROVE  lock[m] = {p \in Procs : pc[p] \in InCallback /\ frame[p].on = m}
    BY DEF SlotIsReturned
  <2>1. lock[m] \subseteq Procs
    BY DEF TypeOK
  <2>2. \A p \in lock[m] : pc[p] \in InCallback /\ frame[p].on = m
    BY DEF HolderInv
  <2>3. ASSUME NEW p \in Procs, pc[p] \in InCallback, frame[p].on = m
        PROVE  p \in lock[m]
    BY <2>3 DEF LockInv
  <2> QED
    BY <2>1, <2>2, <2>3
<1>2. Init => HolderInv
  BY DEF Init, HolderInv
<1> QED
  BY <1>1, <1>2, InitType, TypeInvariance, LockInit, LockInvariance, BudgetInit, DownInvariance,
     HolderInvariance, PTL DEF Spec

-----------------------------------------------------------------------------
(* Operations come to an end. *)

LEMMA Stages ==
    /\ Stage("entered") = 0
    /\ Stage("checking") = 1 /\ Stage("prechecking") = 1
    /\ Stage("deciding") = 2 /\ Stage("starting") = 2
    /\ Stage("acting") = 3 /\ Stage("running") = 3 /\ Stage("rechecking") = 3
    /\ Stage("verifying") = 4 /\ Stage("finishing") = 5
    /\ Stage("restoring") = 6 /\ Stage("releasing") = 7
BY DEF Stage

LEMMA AdvanceForward ==
    ASSUME TypeOK, NEW p \in Procs, frame[p].on \in Monitors, Stage(pc[p]) = 3, Advance(p)
    PROVE  /\ Forward(p)
           /\ pc'[p] = "acting" => frame'[p].step = frame[p].step + 1
                                   /\ frame[p].step < Len(Recovery[frame[p].on])
           /\ pc'[p] \in {"acting", "verifying"}
<1>1. /\ pc \in [Procs -> PCs] /\ frame \in [Procs -> Frame]
      /\ frame[p].step \in Nat /\ Len(Recovery[frame[p].on]) \in Nat
  BY ConfigAssumption DEF TypeOK, Frame
<1>2. CASE frame[p].step < Len(Recovery[frame[p].on])
  <2>1. pc'[p] = "acting" /\ frame' = [frame EXCEPT ![p].step = frame[p].step + 1]
    BY <1>1, <1>2 DEF Advance, Goto
  <2>2. frame'[p].step = frame[p].step + 1
    BY <1>1, <2>1 DEF Frame
  <2>3. frame'[p].step \in (frame[p].step + 1)..Len(Recovery[frame[p].on])
    BY <1>1, <1>2, <2>2
  <2> QED
    BY <1>2, <2>1, <2>2, <2>3, Stages DEF Forward
<1>3. CASE ~(frame[p].step < Len(Recovery[frame[p].on]))
  <2>1. pc'[p] = "verifying"
    BY <1>1, <1>3 DEF Advance, Goto
  <2> QED
    BY <2>1, Stages DEF Forward
<1> QED
  BY <1>2, <1>3

LEMMA StepForward ==
    ASSUME TypeOK, NEW p \in Procs, Step(p), pc[p] \in InCallback, pc'[p] \in InCallback
    PROVE  Forward(p)
<1>1. /\ pc \in [Procs -> PCs] /\ frame \in [Procs -> Frame] /\ frame[p] \in Frame
      /\ frame[p].on \in Monitors
  BY StepBusy, BusyOn DEF TypeOK
<1>2. CASE SkipCancelled(p) \/ MarkChecking(p) \/ BeginForced(p)
  BY <1>1, <1>2, Stages DEF SkipCancelled, MarkChecking, BeginForced, Goto, Forward
<1>3. CASE RunCheck(p)
  <2>1. PICK b : frame' = [frame EXCEPT ![p] = [frame[p] EXCEPT !.ran = @ + 1, !.bad = b]]
    BY <1>3 DEF RunCheck
  <2>2. /\ frame'[p].ran = frame[p].ran + 1 /\ frame'[p].step = frame[p].step /\ pc'[p] = pc[p]
        /\ frame[p].ran \in Nat /\ frame[p].ran < NumChecks[frame[p].on]
        /\ NumChecks[frame[p].on] \in Nat
    BY <1>1, <1>3, <2>1, ConfigAssumption DEF RunCheck, Frame
  <2>3. frame'[p].ran \in (frame[p].ran + 1)..NumChecks[frame[p].on]
    BY <2>2
  <2> QED
    BY <2>2, <2>3 DEF Forward
<1>4. CASE RestoreCancelledCheck(p) \/ RecordHealthy(p) \/ RecordFailure(p)
  BY <1>1, <1>4, Stages DEF RestoreCancelledCheck, RecordHealthy, RecordFailure, Goto, Forward
<1>5. CASE SuppressRecovery(p) \/ ReadStatusBefore(p) \/ AbandonStart(p)
  BY <1>1, <1>5, Stages DEF SuppressRecovery, ReadStatusBefore, AbandonStart, AtStart, Goto, Forward
<1>6. CASE StartRecovery(p)
  <2>1. pc[p] \in {"starting", "deciding"} /\ pc'[p] \in {"restoring", "acting"}
    BY <1>6, StartStep DEF StartRecovery, AtStart
  <2> QED
    BY <2>1, Stages DEF Forward
<1>7. CASE InterruptRecovery(p)
  BY <1>1, <1>7, Stages DEF InterruptRecovery, Goto, Forward
<1>8. CASE BeginAction(p)
  BY <1>1, <1>8, Stages DEF BeginAction, Goto, Forward
<1>9. CASE EndAction(p)
  <2>1. pc[p] = "running"
    BY <1>9 DEF EndAction
  <2>2. CASE Advance(p)
    BY <1>1, <2>1, <2>2, AdvanceForward, Stages
  <2>3. CASE Goto(p, "rechecking")
             /\ frame' = [frame EXCEPT ![p] = [frame[p] EXCEPT !.ran = 0, !.bad = FALSE]]
    <3>1. pc'[p] = "rechecking" /\ frame'[p].step = frame[p].step
      BY <1>1, <2>3 DEF Goto, Frame
    <3> QED
      BY <2>1, <3>1 DEF Forward
  <2>4. CASE Goto(p, "finishing")
    <3>1. pc'[p] = "finishing"
      BY <1>1, <2>4 DEF Goto
    <3> QED
      BY <2>1, <3>1, Stages DEF Forward
  <2> QED
    BY <1>9, <2>2, <2>3, <2>4 DEF EndAction
<1>10. CASE EndRecheck(p)
  <2>1. pc[p] = "rechecking"
    BY <1>10 DEF EndRecheck
  <2>2. CASE Advance(p)
    BY <1>1, <2>1, <2>2, AdvanceForward, Stages
  <2>3. CASE Goto(p, "finishing")
    <3>1. pc'[p] = "finishing"
      BY <1>1, <2>3 DEF Goto
    <3> QED
      BY <2>1, <3>1, Stages DEF Forward
  <2> QED
    BY <1>10, <2>2, <2>3 DEF EndRecheck
<1>11. CASE EndVerify(p) \/ RestoreStatus(p)
  BY <1>1, <1>11, Stages DEF EndVerify, RestoreStatus, Goto, Forward
<1>12. CASE RecordRecovery(p) \/ RecordFailedRecovery(p)
  BY <1>1, <1>12, Stages DEF RecordRecovery, RecordFailedRecovery, Goto, Forward
<1>13. CASE Acquire(p) \/ GiveUp(p) \/ Release(p)
  BY <1>1, <1>13 DEF Acquire, GiveUp, Release, Return, Goto, InCallback
<1> QED
  BY <1>2, <1>3, <1>4, <1>5, <1>6, <1>7, <1>8, <1>9, <1>10, <1>11, <1>12, <1>13 DEF Step

\* Every step of an operation takes it forward, so that it ends after a bounded
\* number of them, whatever happens to it.
THEOREM OperationsBounded == Spec => OperationsAreBounded
<1>1. ASSUME TypeOK, [Next]_vars, NEW p \in Procs,
             pc[p] \in InCallback, pc'[p] \in InCallback, pc'[p] # pc[p] \/ frame'[p] # frame[p]
      PROVE  Forward(p)
  <2>1. CASE \E q \in Procs : Step(q)
    <3>1. PICK q \in Procs : Step(q)
      BY <2>1
    <3>2. q = p
      BY <1>1, <3>1, OtherFrames
    <3> QED
      BY <1>1, <3>1, <3>2, StepForward
  <2>2. CASE Halt
    BY <1>1, <2>2 DEF Halt, InCallback
  <2>3. CASE Start
    BY <1>1, <2>3, StartFiles DEF InCallback
  <2> QED
    BY <1>1, <2>1, <2>2, <2>3, QuietSteps
<1>2. TypeOK /\ [Next]_vars =>
        [\A p \in Procs :
           (/\ pc[p] \in InCallback /\ pc'[p] \in InCallback
            /\ pc'[p] # pc[p] \/ frame'[p] # frame[p])
               => Forward(p)]_vars
  BY <1>1
<1> QED
  BY <1>2, InitType, TypeInvariance, PTL DEF Spec, OperationsAreBounded

=============================================================================
