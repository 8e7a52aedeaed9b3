---------------------------- MODULE ManagerProofs ----------------------------
(***************************************************************************)
(* Proofs about the engine, for every number of monitors, calls, checks,   *)
(* recovery actions and restarts.                                          *)
(***************************************************************************)
EXTENDS ManagerProperties, TLAPS

-----------------------------------------------------------------------------
(* Operators *)

LEMMA FormatType ==
    ASSUME NEW t \in Nat
    PROVE  /\ Format(t) \in Nat
           /\ Format(t) <= t
           /\ t < Format(t) + TicksPerSecond
<1> DEFINE T == TicksPerSecond
<1>1. T \in Nat /\ T > 0
  BY EnvironmentAssumption
<1>2. t = T * (t \div T) + (t % T) /\ t % T \in 0..(T - 1) /\ t \div T \in Nat
  BY <1>1
<1>3. (t \div T) * T \in Nat /\ (t \div T) * T = T * (t \div T)
  BY <1>1, <1>2
<1> QED
  BY <1>1, <1>2, <1>3 DEF Format

LEMMA TrimType ==
    ASSUME NEW h \in Seq(Events)
    PROVE  TrimToLimit(h) \in Histories
<1>1. EventsMaxEntries \in Nat /\ EventsMaxEntries > 0 /\ Len(h) \in Nat
  BY ConfigAssumption
<1> QED
  BY <1>1 DEF TrimToLimit, Histories

LEMMA TrimShort ==
    ASSUME NEW h \in Histories
    PROVE  TrimToLimit(h \o <<>>) = h
<1>1. h \in Seq(Events) /\ Len(h) <= EventsMaxEntries /\ h \o <<>> = h
  BY DEF Histories
<1> QED
  BY <1>1, ConfigAssumption DEF TrimToLimit

LEMMA CooldownEndType ==
    ASSUME NEW m \in Monitors, now \in Nat
    PROVE  /\ CooldownEnd(m) \in Nat
           /\ now + Cooldown[m] < CooldownEnd(m) + TicksPerSecond
<1>1. now + Cooldown[m] \in Nat
  BY ConfigAssumption
<1> QED
  BY <1>1, FormatType DEF CooldownEnd

LEMMA EventType ==
    ASSUME NEW m \in Monitors, NEW type \in EventTypes, now \in Nat
    PROVE  /\ Event(m, type) \in Events
           /\ <<Event(m, type)>> \in Seq(Events)
           /\ Event(m, type).at <= now
<1>1. Event(m, type) \in Events /\ Event(m, type).at <= now
  BY FormatType DEF Event, Events
<1> QED
  BY <1>1

-----------------------------------------------------------------------------
(* What a block under m.mu that saves does to memory and files *)

Stores == /\ current \in [Monitors -> MonitorState]
          /\ history \in Histories
          /\ dirty \in BOOLEAN
          /\ stateFile \in [Monitors -> MonitorState]
          /\ eventsFile \in Histories

LEMMA PersistFiles ==
    ASSUME NEW states, NEW events, NEW news \in BOOLEAN, NEW o \in SaveOutcomes,
           Persist(states, events, news, o)
    PROVE  /\ stateFile' = states \/ (stateFile' = stateFile /\ o = "stateOld")
           /\ eventsFile' = eventsFile \/ (eventsFile' = events /\ stateFile' = states /\ news)
           /\ ~SaveFails(o, news) => stateFile' = states
           /\ news /\ ~SaveFails(o, news) => eventsFile' = events
           /\ dirty' = (news /\ SaveFails(o, news))
<1>1. /\ stateFile' = states \/ (stateFile' = stateFile /\ o = "stateOld")
      /\ eventsFile' = eventsFile \/ (eventsFile' = events /\ stateFile' = states /\ news)
      /\ ~SaveFails(o, news) => stateFile' = states
  BY DEF Persist, SaveFails
<1>2. news /\ ~SaveFails(o, news) => eventsFile' = events
  BY EnvironmentAssumption DEF Persist, SaveFails
<1>3. dirty' = (news /\ SaveFails(o, news))
  BY Zenon DEF Persist
<1> QED
  BY <1>1, <1>2, <1>3

LEMMA UpdateType ==
    ASSUME Stores, NEW m \in Monitors, NEW s \in MonitorState, NEW events \in Seq(Events),
           NEW o, Update(m, s, events, o)
    PROVE  Stores'
<1>1. current' \in [Monitors -> MonitorState]
  BY DEF Stores, Update
<1>2. history' \in Histories
  <2>1. history \o events \in Seq(Events)
    BY DEF Stores, Histories
  <2> QED
    BY <2>1, TrimType DEF Update
<1>3. o \in SaveOutcomes /\ (dirty \/ events # <<>>) \in BOOLEAN
      /\ Persist(current', history', dirty \/ events # <<>>, o)
  BY DEF Update
<1>4. /\ stateFile' \in {current', stateFile}
      /\ eventsFile' \in {history', eventsFile}
      /\ dirty' \in BOOLEAN
  BY <1>3, PersistFiles DEF SaveFails
<1> QED
  BY <1>1, <1>2, <1>4 DEF Stores

-----------------------------------------------------------------------------
(* Type correctness *)

LEMMA BusyOn ==
    ASSUME TypeOK, NEW p \in Procs, Busy(p)
    PROVE  frame[p].on \in Monitors
BY DEF TypeOK, Procs

LEMMA StepBusy ==
    ASSUME NEW p, Step(p)
    PROVE  Busy(p)
BY DEF Step, Busy, Acquire, GiveUp, SkipCancelled, Release, MarkChecking, RunCheck,
   RestoreCancelledCheck, RecordHealthy, RecordFailure, SuppressRecovery, BeginForced,
   ReadStatusBefore, AbandonStart, AtStart, StartRecovery, InterruptRecovery, BeginAction,
   EndAction, EndRecheck, EndVerify, RestoreStatus, RecordRecovery, RecordFailedRecovery,
   Evaluating

\* The new state of the monitor and the news of each action that saves.
Follows(p, s) ==
    LET c == current[frame[p].on] IN
    /\ s \in MonitorState
    /\ s.cooldownUntil \in {c.cooldownUntil, CooldownEnd(frame[p].on)}
    /\ \/ s.recoveryFailures = c.recoveryFailures
       \/ s.recoveryFailures = c.recoveryFailures + 1 /\ RecordFailedRecovery(p)

News(m, s, events) ==
    /\ events \in Seq(Events)
    /\ \A i \in DOMAIN events :
         /\ events[i].mon = m
         /\ events[i].at <= now
         /\ events[i].type = "recovery_started" => s.cooldownUntil = CooldownEnd(m)

Saves(p) ==
    /\ Busy(p)
    /\ \E s, events :
         /\ Follows(p, s)
         /\ News(frame[p].on, s, events)
         /\ \E o \in SaveOutcomes : Update(frame[p].on, s, events, o)

LEMMA SavingSteps ==
    ASSUME TypeOK, NEW p \in Procs, Step(p)
    PROVE  Saves(p) \/ UNCHANGED <<memory, files>>
<1> DEFINE m == frame[p].on
           c == current[m]
<1> SUFFICES ASSUME Busy(p), ~ UNCHANGED <<memory, files>>
             PROVE  Saves(p)
  BY StepBusy
<1>1. m \in Monitors /\ c \in MonitorState /\ frame[p] \in Frame
  BY BusyOn DEF TypeOK
<1>2. now \in Nat
  BY DEF TypeOK
<1>3. CooldownEnd(m) \in Nat
  BY <1>1, <1>2, CooldownEndType
<1>4. Results(p) \in EvaluationResults /\ PostResults(p) \in EvaluationResults
  BY <1>1 DEF Results, PostResults, Frame, MonitorState, EvaluationResults
<1>5. \A s : \A type \in EventTypes :
        (type = "recovery_started" => s.cooldownUntil = CooldownEnd(m))
          => News(m, s, <<Event(m, type)>>)
  <2> TAKE s
  <2> TAKE type \in EventTypes
  <2>1. /\ <<Event(m, type)>> \in Seq(Events)
        /\ Event(m, type).at <= now
        /\ Event(m, type).mon = m /\ Event(m, type).type = type
    BY <1>1, <1>2, EventType DEF Event
  <2> QED
    BY <2>1 DEF News
<1>6. \A s : News(m, s, <<>>)
  BY DEF News
<1>7. ASSUME NEW s, Follows(p, s), NEW events, News(m, s, events),
             NEW o \in SaveOutcomes, Update(m, s, events, o)
      PROVE  Saves(p)
  BY <1>7 DEF Saves
<1>8. CASE MarkChecking(p)
  <2>1. Follows(p, [c EXCEPT !.status = "checking"])
    BY <1>1 DEF Follows, MonitorState, Statuses
  <2> QED
    BY <1>6, <1>7, <1>8, <2>1 DEF MarkChecking
<1>9. CASE RestoreCancelledCheck(p) \/ RestoreStatus(p)
  <2>1. Follows(p, [c EXCEPT !.status = frame[p].before])
    BY <1>1 DEF Follows, MonitorState, Frame
  <2> QED
    BY <1>6, <1>7, <1>9, <2>1 DEF RestoreCancelledCheck, RestoreStatus, PutBack
<1>10. CASE RecordHealthy(p)
  <2>1. Follows(p, [c EXCEPT !.status = "healthy", !.consecutive = 0, !.exhausted = FALSE,
                             !.results = Results(p)])
    BY <1>1, <1>4 DEF Follows, MonitorState, Statuses
  <2> QED
    BY <2>1, <1>5, <1>6, <1>7, <1>10 DEF RecordHealthy, EventTypes
<1>11. CASE RecordFailure(p)
  <2>1. \A n \in Nat : Follows(p, [c EXCEPT !.status = "degraded", !.consecutive = n,
                                            !.results = Results(p)])
    BY <1>1, <1>4 DEF Follows, MonitorState, Statuses
  <2>2. c.consecutive + 1 \in Nat
    BY <1>1 DEF MonitorState
  <2>3. Follows(p, [c EXCEPT !.status = "degraded", !.consecutive = c.consecutive + 1,
                             !.results = Results(p)])
    BY <2>1, <2>2
  <2> QED
    BY <2>3, <1>5, <1>7, <1>11 DEF RecordFailure, EventTypes
<1>12. CASE SuppressRecovery(p)
  <2>1. /\ Follows(p, [c EXCEPT !.status = "failed"])
        /\ Follows(p, Exhaust(m, c))
    BY <1>1, <1>3 DEF Follows, Exhaust, MonitorState, Statuses
  <2> QED
    BY <2>1, <1>5, <1>6, <1>7, <1>12 DEF SuppressRecovery, EventTypes
<1>13. CASE StartRecovery(p)
  <2> DEFINE s == [c EXCEPT !.status = "recovering", !.cooldownUntil = CooldownEnd(m)]
  <2>1. Follows(p, s)
    BY <1>1, <1>3 DEF Follows, MonitorState, Statuses
  <2>2. News(m, s, <<Event(m, "recovery_started")>>)
    BY <1>1, <1>5 DEF EventTypes, MonitorState
  <2> QED
    BY <2>1, <2>2, <1>7, <1>13 DEF StartRecovery
<1>14. CASE RecordRecovery(p)
  <2>1. Follows(p, [c EXCEPT !.status = "healthy", !.consecutive = 0, !.exhausted = FALSE,
                             !.cooldownUntil = CooldownEnd(m), !.results = PostResults(p)])
    BY <1>1, <1>3, <1>4 DEF Follows, MonitorState, Statuses
  <2> QED
    BY <2>1, <1>5, <1>7, <1>14 DEF RecordRecovery, EventTypes
<1>15. CASE RecordFailedRecovery(p)
  <2> DEFINE s == [c EXCEPT !.status = "failed", !.recoveryFailures = @ + 1,
                            !.cooldownUntil = CooldownEnd(m), !.results = PostResults(p)]
  <2>1. \A n \in Nat :
          LET x == [c EXCEPT !.status = "failed", !.recoveryFailures = n,
                             !.cooldownUntil = CooldownEnd(m), !.results = PostResults(p)]
          IN  /\ x \in MonitorState /\ x.cooldownUntil = CooldownEnd(m) /\ x.recoveryFailures = n
              /\ Exhaust(m, x) \in MonitorState
              /\ Exhaust(m, x).cooldownUntil = CooldownEnd(m)
              /\ Exhaust(m, x).recoveryFailures = n
    BY <1>1, <1>3, <1>4 DEF Exhaust, MonitorState, Statuses
  <2>2. c.recoveryFailures + 1 \in Nat
    BY <1>1 DEF MonitorState
  <2>3. Follows(p, s) /\ Follows(p, Exhaust(m, s))
    BY <2>1, <2>2, <1>15 DEF Follows
  <2>4. /\ News(m, s, <<Event(m, "recovery_failed")>>)
        /\ News(m, Exhaust(m, s),
                <<Event(m, "recovery_failed")>> \o <<Event(m, "recovery_exhausted")>>)
    <3>1. /\ News(m, s, <<Event(m, "recovery_failed")>>)
          /\ News(m, Exhaust(m, s), <<Event(m, "recovery_failed")>>)
          /\ News(m, Exhaust(m, s), <<Event(m, "recovery_exhausted")>>)
      BY <1>5 DEF EventTypes
    <3>2. ASSUME NEW x, NEW e, NEW f, News(m, x, <<e>>), News(m, x, <<f>>)
          PROVE  News(m, x, <<e>> \o <<f>>)
      BY <3>2 DEF News
    <3> QED
      BY <3>1, <3>2
  <2> QED
    BY <2>3, <2>4, <1>7, <1>15 DEF RecordFailedRecovery
<1> QED
  BY <1>8, <1>9, <1>10, <1>11, <1>12, <1>13, <1>14, <1>15
  DEF Step, Acquire, GiveUp, SkipCancelled, Release, RunCheck, BeginForced,
      ReadStatusBefore, AbandonStart, InterruptRecovery, BeginAction,
      EndAction, EndRecheck, EndVerify

\* How a goroutine moves: apart from the two ways out of withMonitorLock, from
\* label to label with its monitor, its job and the lock kept.
Moves(p) ==
    /\ \E label \in InCallback, f \in Frame :
         /\ f.on = frame[p].on /\ f.job = frame[p].job
         /\ pc' = [pc EXCEPT ![p] = label]
         /\ frame' = [frame EXCEPT ![p] = f]
    /\ \/ pc[p] \in InCallback /\ lock' = lock
       \/ Acquire(p)
    /\ UNCHANGED <<daemon, enabled, expired, reply, now, halts>>

LEMMA MovingSteps ==
    ASSUME TypeOK, NEW p \in Procs, Step(p)
    PROVE  GiveUp(p) \/ Release(p) \/ Moves(p)
<1>1. frame \in [Procs -> Frame] /\ pc \in [Procs -> PCs] /\ frame[p] \in Frame
  BY DEF TypeOK
<1>2. frame = [frame EXCEPT ![p] = frame[p]]
  BY <1>1
<1>3. now \in Nat /\ daemon \in {"down", "up", "stopping"}
  BY DEF TypeOK
<1>4. ASSUME UNCHANGED frame, NEW label \in InCallback, Goto(p, label),
             (pc[p] \in InCallback /\ lock' = lock) \/ Acquire(p),
             UNCHANGED <<daemon, enabled, expired, reply, now, halts>>
      PROVE  Moves(p)
  BY <1>1, <1>2, <1>4 DEF Moves, Goto
<1>5. ASSUME NEW f \in Frame, f.on = frame[p].on, f.job = frame[p].job,
             frame' = [frame EXCEPT ![p] = f], NEW label \in InCallback, Goto(p, label),
             pc[p] \in InCallback, lock' = lock,
             UNCHANGED <<daemon, enabled, expired, reply, now, halts>>
      PROVE  Moves(p)
  BY <1>5 DEF Moves, Goto
<1>6. CASE Acquire(p)
  BY <1>4, <1>6 DEF Acquire, InCallback, PCs, ghosts
<1>7. CASE SkipCancelled(p) \/ BeginForced(p) \/ InterruptRecovery(p) \/ BeginAction(p)
           \/ EndVerify(p) \/ RestoreStatus(p) \/ RestoreCancelledCheck(p)
  BY <1>4, <1>7 DEF SkipCancelled, BeginForced, InterruptRecovery, BeginAction, EndVerify,
     RestoreStatus, RestoreCancelledCheck, InCallback, PCs, ghosts
<1>8. CASE SuppressRecovery(p) \/ AbandonStart(p)
  BY <1>4, <1>8 DEF SuppressRecovery, AbandonStart, AtStart, InCallback, PCs, ghosts
<1>9. CASE MarkChecking(p)
  <2>1. [frame[p] EXCEPT !.before = current[frame[p].on].status] \in Frame
    BY <1>1, <1>9, BusyOn DEF MarkChecking, Busy, Frame, TypeOK, MonitorState
  <2> QED
    BY <1>1, <1>5, <1>9, <2>1 DEF MarkChecking, InCallback, PCs, ghosts, Frame
<1>10. CASE RunCheck(p)
  <2>1. PICK n \in Nat, b \in BOOLEAN :
          frame' = [frame EXCEPT ![p] = [frame[p] EXCEPT !.ran = n, !.bad = b]]
    <3>1. frame[p].ran + 1 \in Nat
      BY <1>1 DEF Frame
    <3>2. PICK success \in BOOLEAN :
            frame' = [frame EXCEPT ![p] =
                        [frame[p] EXCEPT !.ran = @ + 1, !.bad = @ \/ ~success]]
      BY <1>10 DEF RunCheck
    <3>3. (frame[p].bad \/ ~success) \in BOOLEAN
      OBVIOUS
    <3> QED
      BY <3>1, <3>2, <3>3
  <2>2. [frame[p] EXCEPT !.ran = n, !.bad = b] \in Frame
    BY <1>1 DEF Frame
  <2>3. pc[p] \in InCallback /\ Goto(p, pc[p])
    BY <1>1, <1>10 DEF RunCheck, Evaluating, InCallback, PCs, Goto
  <2>4. lock' = lock /\ UNCHANGED <<daemon, enabled, expired, reply, now, halts>>
    BY <1>10 DEF RunCheck, ghosts
  <2> QED
    BY <1>1, <1>5, <2>1, <2>2, <2>3, <2>4 DEF Frame
<1>11. CASE RecordHealthy(p) \/ RecordFailure(p) \/ RecordRecovery(p) \/ RecordFailedRecovery(p)
  <2>1. [frame[p] EXCEPT !.done = TRUE] \in Frame
    BY <1>1 DEF Frame
  <2> QED
    BY <1>1, <1>5, <1>11, <2>1 DEF RecordHealthy, RecordFailure, RecordRecovery,
       RecordFailedRecovery, InCallback, PCs, ghosts, Frame
<1>12. CASE ReadStatusBefore(p)
  <2>1. [frame[p] EXCEPT !.before = current[frame[p].on].status] \in Frame
    BY <1>1, <1>12, BusyOn DEF ReadStatusBefore, Busy, Frame, TypeOK, MonitorState
  <2> QED
    BY <1>1, <1>4, <1>5, <1>12, <2>1 DEF ReadStatusBefore, InCallback, PCs, ghosts, Frame
<1>13. CASE StartRecovery(p)
  <2>1. PICK o \in SaveOutcomes, before \in Statuses, failed \in BOOLEAN :
          /\ Goto(p, IF SaveFails(o, TRUE) THEN "restoring" ELSE "acting")
          /\ frame' = [frame EXCEPT ![p] =
                [frame[p] EXCEPT !.before = before, !.step = 1, !.failed = failed]]
    <3>1. frame[p].before \in Statuses /\ "degraded" \in Statuses
      BY <1>1 DEF Frame, Statuses
    <3>2. \A o \in SaveOutcomes : (SaveFails(o, TRUE) /\ frame[p].job = "recover") \in BOOLEAN
      OBVIOUS
    <3> QED
      BY <1>13, <3>1, <3>2 DEF StartRecovery
  <2>2. [frame[p] EXCEPT !.before = before, !.step = 1, !.failed = failed] \in Frame
    BY <1>1 DEF Frame
  <2>3. /\ pc[p] \in InCallback /\ lock' = lock
        /\ UNCHANGED <<daemon, enabled, expired, reply, now, halts>>
    BY <1>13 DEF StartRecovery, AtStart, InCallback, PCs
  <2> QED
    BY <1>1, <1>5, <2>1, <2>2, <2>3 DEF InCallback, PCs, Frame
<1>14. \A n \in Nat, b \in BOOLEAN :
         /\ [frame[p] EXCEPT !.ran = n, !.bad = b] \in Frame
         /\ [frame[p] EXCEPT !.step = n] \in Frame
  BY <1>1 DEF Frame
<1>15. ASSUME Advance(p), pc[p] \in InCallback, lock' = lock,
              UNCHANGED <<daemon, enabled, expired, reply, now, halts>>
       PROVE  Moves(p)
  <2>1. CASE frame' = [frame EXCEPT ![p].step = @ + 1] /\ Goto(p, "acting")
    <3>1. frame[p].step + 1 \in Nat
      BY <1>1 DEF Frame
    <3>2. frame' = [frame EXCEPT ![p] = [frame[p] EXCEPT !.step = frame[p].step + 1]]
      BY <2>1
    <3>3. [frame[p] EXCEPT !.step = frame[p].step + 1] \in Frame
      BY <1>14, <3>1
    <3>4. "acting" \in InCallback
      BY DEF InCallback, PCs
    <3> QED
      BY <1>1, <1>5, <1>15, <2>1, <3>2, <3>3, <3>4 DEF Frame
  <2>2. CASE frame' = [frame EXCEPT ![p] = [frame[p] EXCEPT !.ran = 0, !.bad = FALSE]]
             /\ Goto(p, "verifying")
    <3>1. [frame[p] EXCEPT !.ran = 0, !.bad = FALSE] \in Frame
      BY <1>14
    <3>2. "verifying" \in InCallback
      BY DEF InCallback, PCs
    <3> QED
      BY <1>1, <1>5, <1>15, <2>2, <3>1, <3>2 DEF Frame
  <2> QED
    BY <1>15, <2>1, <2>2 DEF Advance
<1>16. CASE EndAction(p)
  <2>1. /\ pc[p] \in InCallback /\ lock' = lock
        /\ UNCHANGED <<daemon, enabled, expired, reply, now, halts>>
    BY <1>16 DEF EndAction, InCallback, PCs, ghosts
  <2>2. \/ Advance(p)
        \/ \E label \in {"rechecking", "finishing"}, b \in BOOLEAN :
             /\ Goto(p, label)
             /\ frame' = [frame EXCEPT ![p] = [frame[p] EXCEPT !.ran = 0, !.bad = b]]
    BY <1>16 DEF EndAction
  <2>3. ASSUME NEW label \in {"rechecking", "finishing"}, NEW b \in BOOLEAN, Goto(p, label),
               frame' = [frame EXCEPT ![p] = [frame[p] EXCEPT !.ran = 0, !.bad = b]]
        PROVE  Moves(p)
    <3>1. /\ [frame[p] EXCEPT !.ran = 0, !.bad = b] \in Frame
          /\ [frame[p] EXCEPT !.ran = 0, !.bad = b].on = frame[p].on
          /\ [frame[p] EXCEPT !.ran = 0, !.bad = b].job = frame[p].job
      BY <1>1, <1>14 DEF Frame
    <3>2. label \in InCallback
      BY DEF InCallback, PCs
    <3> QED
      BY <1>5, <2>1, <2>3, <3>1, <3>2
  <2> QED
    BY <1>15, <2>1, <2>2, <2>3
<1>17. CASE EndRecheck(p)
  <2>1. /\ pc[p] \in InCallback /\ lock' = lock
        /\ UNCHANGED <<daemon, enabled, expired, reply, now, halts>>
    BY <1>17 DEF EndRecheck, InCallback, PCs, ghosts
  <2>2. Advance(p) \/ (Goto(p, "finishing") /\ UNCHANGED frame)
    BY <1>17 DEF EndRecheck
  <2> QED
    BY <1>4, <1>15, <2>1, <2>2 DEF InCallback, PCs
<1> QED
  BY <1>6, <1>7, <1>8, <1>9, <1>10, <1>11, <1>12, <1>13, <1>16, <1>17 DEF Step

LEMMA TypeStep ==
    ASSUME TypeOK, NEW p \in Procs, Step(p)
    PROVE  TypeOK'
<1>1. Busy(p)
  BY StepBusy
<1>2. Stores'
  <2>1. Stores
    BY DEF TypeOK, Stores
  <2>2. CASE UNCHANGED <<memory, files>>
    BY <2>1, <2>2 DEF Stores, memory, files
  <2> QED
    BY <2>1, <2>2, SavingSteps, BusyOn, UpdateType DEF Saves, Follows, News
<1>3. /\ lastStart' \in [Monitors -> SUBSET Nat]
      /\ autoFailures' \in [Monitors -> Nat]
  <2>1. now \in Nat /\ autoFailures \in [Monitors -> Nat] /\ lastStart \in [Monitors -> SUBSET Nat]
    BY DEF TypeOK
  <2>2. CASE StartRecovery(p)
    <3>1. /\ lastStart' \in {lastStart, [lastStart EXCEPT ![frame[p].on] = {now}]}
          /\ autoFailures' = autoFailures
      BY <2>2 DEF StartRecovery
    <3> QED
      BY <2>1, <3>1
  <2>3. CASE RecordFailedRecovery(p)
    <3>1. /\ autoFailures' \in {autoFailures,
                               [autoFailures EXCEPT ![frame[p].on] = autoFailures[frame[p].on] + 1]}
          /\ lastStart' = lastStart
      BY <2>3 DEF RecordFailedRecovery
    <3>2. \A m \in Monitors : autoFailures[m] + 1 \in Nat
      BY <2>1
    <3> QED
      BY <2>1, <3>1, <3>2
  <2>4. CASE UNCHANGED <<lastStart, autoFailures>>
    BY <2>1, <2>4
  <2> QED
    BY <2>2, <2>3, <2>4 DEF Step, Acquire, GiveUp, SkipCancelled, Release, MarkChecking, RunCheck,
       RestoreCancelledCheck, RecordHealthy, RecordFailure, SuppressRecovery, BeginForced,
       ReadStatusBefore, AbandonStart, InterruptRecovery, BeginAction,
       EndAction, EndRecheck, EndVerify, RestoreStatus, RecordRecovery, ghosts
<1>4. CASE Moves(p)
  <2>1. PICK label \in InCallback, f \in Frame :
          /\ f.on = frame[p].on
          /\ pc' = [pc EXCEPT ![p] = label]
          /\ frame' = [frame EXCEPT ![p] = f]
    BY <1>4 DEF Moves
  <2>2. pc' \in [Procs -> PCs] /\ frame' \in [Procs -> Frame]
    BY <2>1 DEF TypeOK, InCallback
  <2>3. /\ \A q \in Procs : frame'[q].on = frame[q].on
        /\ \A q \in Procs : Busy(q)' => Busy(q)
    BY <1>1, <2>1 DEF TypeOK, Busy
  <2>4. lock' \in [Monitors -> SUBSET Procs]
    BY <1>4 DEF Moves, Acquire, TypeOK
  <2> QED
    BY <1>2, <1>3, <1>4, <2>2, <2>3, <2>4 DEF TypeOK, Stores, Moves, Procs
<1>5. CASE GiveUp(p) \/ Release(p)
  <2>1. PICK label \in {"off", "idle"} : pc' = [pc EXCEPT ![p] = label]
    BY <1>5 DEF GiveUp, Release, Return, Goto
  <2>2. /\ reply' \in [Requests -> {"none", "ok", "error"}]
        /\ expired' \in SUBSET Requests
    BY <1>5 DEF GiveUp, Release, Return, TypeOK
  <2>3. frame' = [frame EXCEPT ![p] = NewFrame(p, "check")]
    BY <1>5 DEF GiveUp, Release
  <2>4. NewFrame(p, "check") \in Frame /\ NewFrame(p, "check").on = p
    BY DEF NewFrame, Frame, Statuses
  <2>5. pc' \in [Procs -> PCs] /\ frame' \in [Procs -> Frame]
    BY <2>1, <2>3, <2>4 DEF TypeOK, PCs
  <2>6. \A m \in Monitors : frame'[m].on = m
    BY <2>3, <2>4 DEF TypeOK, Procs
  <2>7. \A r \in Requests : Busy(r)' => frame'[r].on \in Monitors
    BY <2>1, <2>3 DEF TypeOK, Procs, Busy
  <2>8. lock' \in [Monitors -> SUBSET Procs]
    BY <1>5 DEF GiveUp, Release, Unlocked, TypeOK
  <2> QED
    BY <1>2, <1>3, <1>5, <2>2, <2>5, <2>6, <2>7, <2>8 DEF GiveUp, Release, TypeOK, Stores, ghosts
<1> QED
  BY <1>4, <1>5, MovingSteps

LEMMA NewFrameType ==
    ASSUME NEW p \in Procs, NEW m \in Procs, NEW job \in {"check", "recover"}
    PROVE  NewFrame(m, job) \in Frame /\ NewFrame(m, job).on = m
BY DEF NewFrame, Frame, Statuses

LEMMA NoFramesType ==
    NoFrames \in [Procs -> Frame] /\ \A p \in Procs : NoFrames[p].on = p
BY NewFrameType DEF NoFrames

LEMMA InitType == Init => TypeOK
<1> SUFFICES ASSUME Init PROVE TypeOK
  OBVIOUS
<1>1. NewMonitorState \in MonitorState
  BY DEF NewMonitorState, NoResults, MonitorState, EvaluationResults, Statuses
<1>2. <<>> \in Histories
  BY ConfigAssumption DEF Histories
<1>3. frame \in [Procs -> Frame] /\ \A m \in Monitors : frame[m].on = m
  BY NoFramesType DEF Init, Procs
<1> QED
  BY <1>1, <1>2, <1>3 DEF Init, TypeOK, Busy, PCs, Procs

\* What a start loads, with the set of enabled monitors it reads.
Loaded(on) == [m \in Monitors |->
                 [stateFile[m] EXCEPT !.status = IF m \in on THEN @ ELSE "disabled"]]

LEMMA LoadedType ==
    ASSUME TypeOK, NEW on
    PROVE  Loaded(on) \in [Monitors -> MonitorState]
<1> SUFFICES ASSUME NEW m \in Monitors
             PROVE  [stateFile[m] EXCEPT !.status = IF m \in on THEN @ ELSE "disabled"]
                      \in MonitorState
  BY DEF Loaded
<1>1. stateFile[m] \in MonitorState
  BY DEF TypeOK
<1>2. (IF m \in on THEN stateFile[m].status ELSE "disabled") \in Statuses
  BY <1>1 DEF MonitorState, Statuses
<1> QED
  BY <1>1, <1>2 DEF MonitorState

LEMMA StartFiles ==
    ASSUME TypeOK, Start
    PROVE  \E on \in SUBSET Monitors, o \in SaveOutcomes :
             /\ Persist(Loaded(on), TrimToLimit(eventsFile), TRUE, o)
             /\ current' = IF SaveFails(o, TRUE) THEN stateFile' ELSE Loaded(on)
             /\ history' = IF SaveFails(o, TRUE) THEN eventsFile' ELSE TrimToLimit(eventsFile)
             /\ daemon' = IF SaveFails(o, TRUE) THEN "down" ELSE "up"
             /\ enabled' = on
             /\ pc' \in [Procs -> {"off", "idle", "locking"}]
             /\ \A r \in Requests : pc'[r] \in {"off", "idle"}
<1>1. PICK on \in EnabledSets, o \in SaveOutcomes :
        /\ Persist(Loaded(on), TrimToLimit(eventsFile), TRUE, o)
        /\ current' = IF SaveFails(o, TRUE) THEN stateFile' ELSE Loaded(on)
        /\ history' = IF SaveFails(o, TRUE) THEN eventsFile' ELSE TrimToLimit(eventsFile)
        /\ daemon' = IF SaveFails(o, TRUE) THEN "down" ELSE "up"
        /\ enabled' = on
        /\ pc' = [p \in Procs |-> IF SaveFails(o, TRUE) \/ p \notin Requests \cup on THEN "off"
                                  ELSE IF p \in Requests THEN "idle" ELSE "locking"]
  BY DEF Start, Loaded
<1>2. on \in SUBSET Monitors
  BY EnvironmentAssumption
<1>4. /\ pc' \in [Procs -> {"off", "idle", "locking"}]
      /\ \A r \in Requests : pc'[r] \in {"off", "idle"}
  BY <1>1 DEF Procs
<1> QED
  BY <1>1, <1>2, <1>4

LEMMA StartType ==
    ASSUME TypeOK, Start
    PROVE  TypeOK'
<1>1. PICK on \in SUBSET Monitors, o \in SaveOutcomes :
        /\ Persist(Loaded(on), TrimToLimit(eventsFile), TRUE, o)
        /\ current' = IF SaveFails(o, TRUE) THEN stateFile' ELSE Loaded(on)
        /\ history' = IF SaveFails(o, TRUE) THEN eventsFile' ELSE TrimToLimit(eventsFile)
        /\ daemon' = IF SaveFails(o, TRUE) THEN "down" ELSE "up"
        /\ enabled' = on
        /\ pc' \in [Procs -> {"off", "idle", "locking"}]
        /\ \A r \in Requests : pc'[r] \in {"off", "idle"}
  BY StartFiles
<1>2. Loaded(on) \in [Monitors -> MonitorState] /\ TrimToLimit(eventsFile) \in Histories
  BY LoadedType, TrimType DEF TypeOK, Histories
<1>3. /\ stateFile' \in {stateFile, Loaded(on)}
      /\ eventsFile' \in {eventsFile, TrimToLimit(eventsFile)}
      /\ dirty' \in BOOLEAN
  BY <1>1, PersistFiles DEF SaveFails
<1>4. \A r \in Requests : ~Busy(r)'
  BY <1>1 DEF Busy
<1>5. UNCHANGED <<lock, frame, expired, reply, now, lastStart, autoFailures, halts>>
  BY DEF Start, ghosts
<1>6. pc' \in [Procs -> PCs]
  <2>1. {"off", "idle", "locking"} \subseteq PCs
    BY DEF PCs
  <2> QED
    BY <1>1, <2>1
<1>7. /\ daemon' \in {"down", "up", "stopping"} /\ enabled' \in SUBSET Monitors
      /\ current' \in [Monitors -> MonitorState] /\ history' \in Histories
      /\ stateFile' \in [Monitors -> MonitorState] /\ eventsFile' \in Histories
  BY <1>1, <1>2, <1>3 DEF TypeOK
<1> QED
  BY <1>3, <1>4, <1>5, <1>6, <1>7 DEF TypeOK

LEMMA TypeInvariance == TypeOK /\ [Next]_vars => TypeOK'
<1> SUFFICES ASSUME TypeOK, [Next]_vars PROVE TypeOK'
  OBVIOUS
<1>1. CASE \E p \in Procs : Step(p)
  BY <1>1, TypeStep
<1>2. CASE \E m \in Monitors : LoopTick(m) \/ LoopStop(m)
  BY <1>2 DEF LoopTick, LoopStop, Goto, TypeOK, memory, files, ghosts, PCs, Procs, Busy
<1>3. CASE \E r \in Requests : Expire(r)
  BY <1>3 DEF Expire, TypeOK, memory, files, ghosts, Busy
<1>4. CASE \E r \in Requests, m \in Monitors, job \in {"check", "recover"} : Arrive(r, m, job)
  <2>1. PICK r \in Requests, m \in Monitors, job \in {"check", "recover"} : Arrive(r, m, job)
    BY <1>4
  <2>2. NewFrame(m, job) \in Frame /\ NewFrame(m, job).on = m
    BY NewFrameType DEF Procs
  <2>3. /\ pc' \in [Procs -> PCs] /\ frame' \in [Procs -> Frame]
        /\ reply' \in [Requests -> {"none", "ok", "error"}]
        /\ \A q \in Procs \ {r} : frame'[q] = frame[q] /\ pc'[q] = pc[q]
        /\ Busy(r)' => frame'[r].on = m
    BY <2>1, <2>2 DEF Arrive, Goto, TypeOK, PCs, Procs, Busy
  <2>4. r \notin Monitors
    BY ProcessAssumption
  <2> QED
    BY <2>1, <2>3, <2>4 DEF Arrive, TypeOK, memory, files, ghosts, Procs, Busy
<1>5. CASE Terminate
  BY <1>5 DEF Terminate, TypeOK, memory, files, ghosts, Busy
<1>6. CASE Halt
  <2>1. halts' \in Nat
    BY <1>6 DEF Halt, TypeOK
  <2>2. frame' \in [Procs -> Frame] /\ \A m \in Monitors : frame'[m].on = m
    BY <1>6, NoFramesType DEF Halt, Procs
  <2> QED
    BY <1>6, <2>1, <2>2 DEF Halt, TypeOK, files, Busy, PCs, Procs
<1>7. CASE Start
  BY <1>7, StartType
<1>8. CASE Tick
  BY <1>8 DEF Tick, TypeOK, memory, files, ghosts, Busy
<1>9. CASE UNCHANGED vars
  BY <1>9 DEF vars, TypeOK, memory, files, ghosts, Busy
<1> QED
  BY <1>1, <1>2, <1>3, <1>4, <1>5, <1>6, <1>7, <1>8, <1>9 DEF Next

\* Every variable keeps its type, and no history outgrows EventsMaxEntries.
THEOREM TypeCorrect == Spec => []TypeOK
BY InitType, TypeInvariance, PTL DEF Spec

-----------------------------------------------------------------------------
(* One operation at a time *)

\* Inductive: the slot of a monitor's channel holds whoever is in the callback.
LockInv == \A p \in Procs : pc[p] \in InCallback => lock[frame[p].on] = {p}

LEMMA LockImplies == LockInv => OneOperationPerMonitor
BY DEF LockInv, OneOperationPerMonitor

LEMMA LockInit == Init => LockInv
BY DEF Init, LockInv, InCallback

LEMMA CallbackBusy ==
    ASSUME NEW p, pc[p] \in InCallback
    PROVE  Busy(p)
BY DEF InCallback, PCs, Busy

LEMMA LockInvariance == TypeOK /\ LockInv /\ [Next]_vars => LockInv'
<1> SUFFICES ASSUME TypeOK, LockInv, [Next]_vars,
                    NEW q \in Procs, pc'[q] \in InCallback
             PROVE  lock'[frame'[q].on] = {q}
  BY DEF LockInv
<1> USE DEF LockInv
<1>1. ASSUME NEW p \in Procs, Step(p)
      PROVE  lock'[frame'[q].on] = {q}
  <2>1. CASE Moves(p)
    <3>1. PICK label \in InCallback, f \in Frame :
            /\ f.on = frame[p].on
            /\ pc' = [pc EXCEPT ![p] = label]
            /\ frame' = [frame EXCEPT ![p] = f]
      BY <2>1 DEF Moves
    <3>2. frame'[q].on = frame[q].on
      BY <3>1 DEF TypeOK
    <3>3. CASE pc[p] \in InCallback /\ lock' = lock
      BY <3>1, <3>2, <3>3 DEF TypeOK
    <3>4. CASE Acquire(p)
      <4>1. /\ lock[frame[p].on] = {}
            /\ lock' = [lock EXCEPT ![frame[p].on] = {p}]
        BY <3>4 DEF Acquire
      <4>2. frame[p].on \in Monitors
        BY <3>4, BusyOn DEF Acquire, Busy
      <4>3. CASE q = p
        BY <3>2, <4>1, <4>2, <4>3 DEF TypeOK
      <4>4. CASE q # p
        <5>1. pc[q] \in InCallback /\ lock[frame[q].on] = {q}
          BY <3>1, <4>4 DEF TypeOK
        <5>2. frame[q].on # frame[p].on
          BY <4>1, <5>1
        <5>3. lock \in [Monitors -> SUBSET Procs]
          BY DEF TypeOK
        <5> QED
          BY <3>2, <4>1, <4>2, <5>1, <5>2, <5>3
      <4> QED
        BY <4>3, <4>4
    <3> QED
      BY <2>1, <3>3, <3>4 DEF Moves
  <2>2. CASE GiveUp(p) \/ Release(p)
    <3>1. PICK label \in {"off", "idle"} : pc' = [pc EXCEPT ![p] = label]
      BY <2>2 DEF GiveUp, Release, Return, Goto
    <3>2. q # p
      BY <3>1 DEF TypeOK, InCallback
    <3>3. pc[q] \in InCallback /\ frame'[q] = frame[q] /\ lock[frame[q].on] = {q}
      BY <2>2, <3>1, <3>2 DEF GiveUp, Release, TypeOK
    <3>4. CASE GiveUp(p)
      BY <3>3, <3>4 DEF GiveUp
    <3>5. CASE Release(p)
      <4>1. pc[p] \in InCallback
        BY <3>5 DEF Release, InCallback, PCs
      <4>2. frame[p].on # frame[q].on
        BY <3>2, <3>3, <4>1
      <4> QED
        BY <3>3, <3>5, <4>2 DEF Release, Unlocked, TypeOK
    <3> QED
      BY <2>2, <3>4, <3>5
  <2> QED
    BY <1>1, <2>1, <2>2, MovingSteps
<1>2. CASE \E m \in Monitors : LoopTick(m) \/ LoopStop(m)
  <2>1. PICK m \in Monitors, label \in {"locking", "off"} :
          /\ pc' = [pc EXCEPT ![m] = label]
          /\ UNCHANGED <<lock, frame>>
    BY <1>2 DEF LoopTick, LoopStop, Goto
  <2>2. pc[q] \in InCallback
    <3>1. label \notin InCallback
      BY DEF InCallback
    <3> QED
      BY <2>1, <3>1 DEF TypeOK
  <2> QED
    BY <2>1, <2>2
<1>3. CASE \E r \in Requests : Expire(r)
  BY <1>3 DEF Expire
<1>4. CASE \E r \in Requests, m \in Monitors, job \in {"check", "recover"} : Arrive(r, m, job)
  <2>1. PICK r \in Requests, m \in Monitors, job \in {"check", "recover"} : Arrive(r, m, job)
    BY <1>4
  <2>2. q # r /\ pc[q] \in InCallback
    BY <2>1 DEF Arrive, Goto, TypeOK, InCallback, PCs, Procs
  <2> QED
    BY <2>1, <2>2 DEF Arrive, TypeOK, Procs
<1>5. CASE Terminate
  BY <1>5 DEF Terminate
<1>6. CASE Halt
  BY <1>6 DEF Halt, InCallback
<1>7. CASE Start
  BY <1>7, StartFiles DEF InCallback
<1>8. CASE Tick
  BY <1>8 DEF Tick
<1>9. CASE UNCHANGED vars
  BY <1>9 DEF vars
<1> QED
  BY <1>1, <1>2, <1>3, <1>4, <1>5, <1>6, <1>7, <1>8, <1>9 DEF Next

\* Two operations on one monitor never overlap.
THEOREM Exclusive == Spec => []OneOperationPerMonitor
BY LockInit, InitType, TypeInvariance, LockInvariance, LockImplies, PTL DEF Spec

-----------------------------------------------------------------------------
(* The dirty flag *)

LEMMA UpdateKeepsDirty ==
    ASSUME Stores, UnsavedHistoryIsDirty, daemon # "down", NEW m, NEW s,
           NEW events \in Seq(Events), NEW o \in SaveOutcomes, Update(m, s, events, o)
    PROVE  ~dirty' => eventsFile' = history'
<1>1. /\ history' = TrimToLimit(history \o events)
      /\ Persist(current', history', dirty \/ events # <<>>, o)
  BY DEF Update
<1>2. CASE dirty \/ events # <<>>
  BY <1>1, <1>2, PersistFiles
<1>3. CASE ~dirty /\ events = <<>>
  <2>1. history' = history
    BY <1>1, <1>3, TrimShort DEF Stores
  <2>2. eventsFile' = eventsFile
    BY <1>1, <1>3 DEF Persist
  <2> QED
    BY <1>3, <2>1, <2>2 DEF UnsavedHistoryIsDirty
<1> QED
  BY <1>2, <1>3 DEF Stores

LEMMA StepUp ==
    ASSUME TypeOK, NEW p \in Procs, Step(p)
    PROVE  daemon' = daemon
BY MovingSteps DEF Moves, GiveUp, Release

LEMMA DirtyInvariance ==
    TypeOK /\ UnsavedHistoryIsDirty /\ [Next]_vars => UnsavedHistoryIsDirty'
<1> SUFFICES ASSUME TypeOK, UnsavedHistoryIsDirty, [Next]_vars PROVE UnsavedHistoryIsDirty'
  OBVIOUS
<1>1. ASSUME NEW p \in Procs, Step(p)
      PROVE  UnsavedHistoryIsDirty'
  <2>1. CASE UNCHANGED <<memory, files>>
    BY <1>1, <2>1, StepUp DEF UnsavedHistoryIsDirty, memory, files
  <2>2. ASSUME NEW s \in MonitorState, NEW events \in Seq(Events), NEW o \in SaveOutcomes,
               Update(frame[p].on, s, events, o), daemon # "down"
        PROVE  ~dirty' => eventsFile' = history'
    <3>1. Stores
      BY DEF TypeOK, Stores
    <3> QED
      BY <2>2, <3>1, UpdateKeepsDirty
  <2> QED
    BY <1>1, <2>1, <2>2, SavingSteps, StepUp DEF UnsavedHistoryIsDirty, Saves, Follows, News
<1>2. CASE Halt
  BY <1>2 DEF Halt, UnsavedHistoryIsDirty
<1>3. CASE Start
  BY <1>3, StartFiles, PersistFiles DEF UnsavedHistoryIsDirty
<1>4. CASE UNCHANGED <<memory, files>> /\ (daemon' = "down" => daemon = "down")
           /\ (daemon = "down" => daemon' = "down")
  BY <1>4 DEF UnsavedHistoryIsDirty, memory, files
<1> QED
  BY <1>1, <1>2, <1>3, <1>4 DEF Next, vars, LoopTick, LoopStop, Expire, Arrive, Terminate, Tick

\* While the daemon runs, history it has not saved is marked for the next save.
THEOREM UnsavedIsDirty == Spec => []UnsavedHistoryIsDirty
<1>1. Init => UnsavedHistoryIsDirty
  BY DEF Init, UnsavedHistoryIsDirty
<1> QED
  BY <1>1, InitType, TypeInvariance, DirtyInvariance, PTL DEF Spec

-----------------------------------------------------------------------------
(* Facts about a step of one goroutine that the invariants below share *)

LEMMA OtherFrames ==
    ASSUME TypeOK, NEW p \in Procs, Step(p), NEW q \in Procs
    PROVE  /\ q # p => pc'[q] = pc[q] /\ frame'[q] = frame[q]
           /\ pc'[q] \in InCallback => /\ frame'[q].on = frame[q].on
                                       /\ frame'[q].job = frame[q].job
<1>1. CASE Moves(p)
  BY <1>1 DEF Moves, TypeOK
<1>2. CASE GiveUp(p) \/ Release(p)
  BY <1>2 DEF GiveUp, Release, Return, Goto, TypeOK, InCallback
<1> QED
  BY <1>1, <1>2, MovingSteps

LEMMA OtherMonitors ==
    ASSUME TypeOK, NEW p \in Procs, Step(p), NEW m \in Monitors
    PROVE  /\ m # frame[p].on => current'[m] = current[m]
           /\ stateFile'[m] = stateFile[m] \/ stateFile'[m] = current'[m]
<1>1. CASE UNCHANGED <<memory, files>>
  BY <1>1 DEF memory, files
<1>2. CASE Saves(p)
  <2>1. PICK s, events : /\ Follows(p, s)
                         /\ News(frame[p].on, s, events)
                         /\ \E o \in SaveOutcomes : Update(frame[p].on, s, events, o)
    BY <1>2 DEF Saves
  <2>2. PICK o \in SaveOutcomes : Update(frame[p].on, s, events, o)
    BY <2>1
  <2>3. stateFile' = current' \/ stateFile' = stateFile
    BY <2>2, PersistFiles DEF Update, TypeOK
  <2>4. m # frame[p].on => current'[m] = current[m]
    BY <2>2 DEF Update, TypeOK
  <2> QED
    BY <2>3, <2>4
<1> QED
  BY <1>1, <1>2, SavingSteps

LEMMA OwnMonitor ==
    ASSUME TypeOK, NEW p \in Procs, Step(p), Busy(p)
    PROVE  \/ current'[frame[p].on] = current[frame[p].on]
           \/ Follows(p, current'[frame[p].on])
<1>1. frame[p].on \in Monitors
  BY BusyOn
<1>2. CASE Saves(p)
  BY <1>1, <1>2 DEF Saves, Update, TypeOK
<1> QED
  BY <1>2, SavingSteps DEF memory

LEMMA StartStep ==
    ASSUME TypeOK, NEW p \in Procs, StartRecovery(p)
    PROVE  /\ current'[frame[p].on].status = "recovering"
           /\ current'[frame[p].on].cooldownUntil = CooldownEnd(frame[p].on)
           /\ current'[frame[p].on].recoveryFailures = current[frame[p].on].recoveryFailures
           /\ \/ pc'[p] = "restoring" /\ lastStart' = lastStart
              \/ /\ pc'[p] = "acting"
                 /\ lastStart' = [lastStart EXCEPT ![frame[p].on] = {now}]
                 /\ history' = TrimToLimit(history \o <<Event(frame[p].on, "recovery_started")>>)
                 /\ stateFile' = current'
                 /\ eventsFile' = history'
<1> DEFINE m == frame[p].on
           s == [current[m] EXCEPT !.status = "recovering", !.cooldownUntil = CooldownEnd(m)]
<1>1. m \in Monitors /\ current \in [Monitors -> MonitorState]
      /\ frame \in [Procs -> Frame] /\ pc \in [Procs -> PCs]
  BY BusyOn DEF StartRecovery, AtStart, Busy, TypeOK
<1>2. PICK o \in SaveOutcomes :
        /\ Update(m, s, <<Event(m, "recovery_started")>>, o)
        /\ pc' = [pc EXCEPT ![p] = IF SaveFails(o, TRUE) THEN "restoring" ELSE "acting"]
        /\ lastStart' = IF SaveFails(o, TRUE) THEN lastStart
                        ELSE [lastStart EXCEPT ![m] = {now}]
  BY DEF StartRecovery, Goto
<1>3. /\ current'[m] = s
      /\ s.status = "recovering" /\ s.cooldownUntil = CooldownEnd(m)
      /\ s.recoveryFailures = current[m].recoveryFailures
  BY <1>1, <1>2 DEF Update, MonitorState
<1>4. Persist(current', history', TRUE, o)
  <2>1. (dirty \/ <<Event(m, "recovery_started")>> # <<>>) = TRUE
    OBVIOUS
  <2> QED
    BY <1>2, <2>1 DEF Update
<1>5. ~SaveFails(o, TRUE) => stateFile' = current' /\ eventsFile' = history'
  BY <1>4, PersistFiles
<1>6. history' = TrimToLimit(history \o <<Event(m, "recovery_started")>>)
  BY <1>2 DEF Update
<1> QED
  BY <1>1, <1>2, <1>3, <1>5, <1>6

LEMMA ActingLabels ==
    ASSUME TypeOK, NEW p \in Procs, Step(p), pc'[p] \in Acting
    PROVE  \/ StartRecovery(p) /\ pc'[p] = "acting"
           \/ pc[p] \in Acting /\ UNCHANGED <<memory, files>>
<1> USE DEF Acting, Recovering
<1>1. pc \in [Procs -> PCs]
  BY DEF TypeOK
<1>2. CASE Acquire(p) \/ GiveUp(p) \/ SkipCancelled(p) \/ Release(p) \/ MarkChecking(p)
           \/ RestoreCancelledCheck(p) \/ RecordHealthy(p) \/ RecordFailure(p)
           \/ SuppressRecovery(p) \/ BeginForced(p) \/ ReadStatusBefore(p) \/ AbandonStart(p)
           \/ InterruptRecovery(p) \/ RestoreStatus(p) \/ RecordRecovery(p)
           \/ RecordFailedRecovery(p)
  BY <1>1, <1>2 DEF Acquire, GiveUp, SkipCancelled, Release, Return, MarkChecking,
     RestoreCancelledCheck, RecordHealthy, RecordFailure, SuppressRecovery, BeginForced,
     ReadStatusBefore, AbandonStart, InterruptRecovery, RestoreStatus, RecordRecovery,
     RecordFailedRecovery, Goto
<1>3. CASE StartRecovery(p)
  BY <1>3, StartStep
<1>4. CASE RunCheck(p)
  BY <1>1, <1>4 DEF RunCheck
<1>5. CASE BeginAction(p) \/ EndAction(p) \/ EndRecheck(p) \/ EndVerify(p)
  BY <1>1, <1>5 DEF BeginAction, EndAction, EndRecheck, EndVerify
<1> QED
  BY <1>2, <1>3, <1>4, <1>5 DEF Step

LEMMA DecidingLabels ==
    ASSUME TypeOK, NEW p \in Procs, Step(p), pc'[p] = "deciding"
    PROVE  /\ RecordFailure(p)
           /\ current[frame[p].on].cooldownUntil <= now
           /\ current[frame[p].on].consecutive + 1 >= FailureThreshold[frame[p].on]
<1>1. pc \in [Procs -> PCs]
  BY DEF TypeOK
<1>2. CASE RecordFailure(p)
  <2>1. frame[p].on \in Monitors
    BY <1>2, BusyOn DEF RecordFailure, Busy
  <2>2. current[frame[p].on].cooldownUntil \in Nat /\ now \in Nat
    BY <2>1 DEF TypeOK, MonitorState
  <2>3. ShouldRecover(frame[p].on, current[frame[p].on].consecutive + 1)
    BY <1>1, <1>2 DEF RecordFailure, Goto
  <2> QED
    BY <1>2, <2>2, <2>3 DEF ShouldRecover, CooldownActive
<1>3. CASE ~RecordFailure(p)
  BY <1>1, <1>3 DEF Step, Acquire, GiveUp, SkipCancelled, Release, Return, MarkChecking, RunCheck,
     Evaluating, RestoreCancelledCheck, RecordHealthy, SuppressRecovery, BeginForced,
     ReadStatusBefore, AbandonStart, StartRecovery, InterruptRecovery, BeginAction,
     EndAction, Advance, EndRecheck, EndVerify, RestoreStatus, RecordRecovery,
     RecordFailedRecovery, Goto
<1> QED
  BY <1>2, <1>3

LEMMA LastStartSteps ==
    ASSUME TypeOK, NEW p \in Procs, Step(p), ~StartRecovery(p)
    PROVE  lastStart' = lastStart
BY DEF Step, Acquire, GiveUp, SkipCancelled, Release, MarkChecking, RunCheck,
   RestoreCancelledCheck, RecordHealthy, RecordFailure, SuppressRecovery, BeginForced,
   ReadStatusBefore, AbandonStart, InterruptRecovery, BeginAction,
   EndAction, EndRecheck, EndVerify, RestoreStatus, RecordRecovery, RecordFailedRecovery, ghosts

LEMMA FailureCountSteps ==
    ASSUME TypeOK, NEW p \in Procs, Step(p), ~RecordFailedRecovery(p)
    PROVE  autoFailures' = autoFailures
BY DEF Step, Acquire, GiveUp, SkipCancelled, Release, MarkChecking, RunCheck,
   RestoreCancelledCheck, RecordHealthy, RecordFailure, SuppressRecovery, BeginForced,
   ReadStatusBefore, AbandonStart, StartRecovery, InterruptRecovery, BeginAction,
   EndAction, EndRecheck, EndVerify, RestoreStatus, RecordRecovery, ghosts

-----------------------------------------------------------------------------
(* The cooldown *)

Over(m) == \A t \in lastStart[m] : now + TicksPerSecond > t + Cooldown[m]

Keeps(s, m) == \A t \in lastStart[m] : s.cooldownUntil + TicksPerSecond > t + Cooldown[m]

\* Inductive: memory and file hold at least the cooldown of the last durable
\* start, and whoever has found the cooldown to be over is right.
CooldownInv ==
    /\ \A m \in Monitors :
         /\ \A t \in lastStart[m] : t <= now
         /\ Keeps(current[m], m)
         /\ Keeps(stateFile[m], m)
    /\ \A p \in Procs : pc[p] = "deciding" => Over(frame[p].on)

LEMMA CooldownStep ==
    ASSUME TypeOK, LockInv, CooldownInv, NEW p \in Procs, Step(p)
    PROVE  CooldownInv'
<1> DEFINE m == frame[p].on
<1>1. /\ now' = now /\ now \in Nat
      /\ lastStart \in [Monitors -> SUBSET Nat] /\ lastStart' \in [Monitors -> SUBSET Nat]
      /\ current \in [Monitors -> MonitorState] /\ current' \in [Monitors -> MonitorState]
      /\ stateFile \in [Monitors -> MonitorState] /\ stateFile' \in [Monitors -> MonitorState]
      /\ Cooldown \in [Monitors -> Nat] /\ TicksPerSecond \in Nat \ {0}
  <2>1. TypeOK'
    BY TypeStep
  <2>2. now' = now
    BY MovingSteps DEF Moves, GiveUp, Release
  <2> QED
    BY <2>1, <2>2, ConfigAssumption, EnvironmentAssumption DEF TypeOK
<1>2. Busy(p) /\ m \in Monitors
  BY StepBusy, BusyOn
<1>3. now + Cooldown[m] < CooldownEnd(m) + TicksPerSecond /\ CooldownEnd(m) \in Nat
  BY <1>1, <1>2, CooldownEndType
<1>4. \A k \in Monitors : k # m => lastStart'[k] = lastStart[k]
  BY <1>1, <1>2, StartStep, LastStartSteps
<1>5. \A t \in lastStart'[m] : t <= now
  <2>1. lastStart' \in {lastStart, [lastStart EXCEPT ![m] = {now}]}
    BY StartStep, LastStartSteps
  <2>2. lastStart'[m] = lastStart[m] \/ lastStart'[m] = {now}
    BY <1>1, <1>2, <2>1
  <2> QED
    BY <1>1, <1>2, <2>2 DEF CooldownInv
<1>6. \A t \in lastStart'[m] :
         /\ current'[m].cooldownUntil + TicksPerSecond > t + Cooldown[m]
         /\ stateFile'[m].cooldownUntil + TicksPerSecond > t + Cooldown[m]
  <2>1. \A t \in lastStart'[m] : t \in Nat /\ CooldownEnd(m) + TicksPerSecond > t + Cooldown[m]
    BY <1>1, <1>2, <1>3, <1>5
  <2>2. \A x \in MonitorState : x.cooldownUntil \in Nat
    BY DEF MonitorState
  <2>3. current'[m] \in MonitorState /\ stateFile'[m] \in MonitorState
    BY <1>1, <1>2
  <2>4. CASE StartRecovery(p)
    <3>1. current'[m].cooldownUntil = CooldownEnd(m)
      BY <2>4, StartStep
    <3>2. lastStart' = lastStart \/ stateFile' = current'
      BY <2>4, StartStep
    <3>3. \A t \in lastStart'[m] : current'[m].cooldownUntil + TicksPerSecond > t + Cooldown[m]
      BY <2>1, <3>1
    <3>4. \A t \in lastStart'[m] : stateFile'[m].cooldownUntil + TicksPerSecond > t + Cooldown[m]
      BY <1>2, <3>2, <3>3, OtherMonitors DEF CooldownInv, Keeps
    <3> QED
      BY <3>3, <3>4
  <2>5. CASE ~StartRecovery(p)
    <3>1. lastStart' = lastStart
      BY <2>5, LastStartSteps
    <3>2. current'[m].cooldownUntil \in {current[m].cooldownUntil, CooldownEnd(m)}
      BY <1>2, OwnMonitor DEF Follows
    <3>3. \A t \in lastStart'[m] : current'[m].cooldownUntil + TicksPerSecond > t + Cooldown[m]
      BY <1>2, <2>1, <3>1, <3>2 DEF CooldownInv, Keeps
    <3>4. \A t \in lastStart'[m] : stateFile'[m].cooldownUntil + TicksPerSecond > t + Cooldown[m]
      BY <1>2, <3>1, <3>3, OtherMonitors DEF CooldownInv, Keeps
    <3> QED
      BY <3>3, <3>4
  <2> QED
    BY <2>4, <2>5
<1>7. ASSUME NEW k \in Monitors, k # m
      PROVE  Keeps(current[k], k)' /\ Keeps(stateFile[k], k)'
  BY <1>4, <1>7, OtherMonitors DEF CooldownInv, Keeps
<1>8. ASSUME NEW q \in Procs, pc'[q] = "deciding"
      PROVE  Over(frame[q].on)'
  <2>1. "deciding" \in InCallback
    BY DEF InCallback, PCs
  <2>2. CASE q = p
    <3>1. /\ frame'[p].on = m
          /\ current[m].cooldownUntil <= now
          /\ lastStart' = lastStart
      BY <1>8, <2>1, <2>2, OtherFrames, DecidingLabels DEF RecordFailure, ghosts
    <3>2. \A t \in lastStart[m] : t \in Nat /\ now + TicksPerSecond > t + Cooldown[m]
      <4>1. current[m].cooldownUntil \in Nat /\ Cooldown[m] \in Nat
        BY <1>1, <1>2 DEF MonitorState
      <4> QED
        BY <1>1, <1>2, <3>1, <4>1 DEF CooldownInv, Keeps
    <3> QED
      BY <1>1, <2>2, <3>1, <3>2 DEF Over
  <2>3. CASE q # p
    <3>1. pc[q] = "deciding" /\ frame'[q] = frame[q] /\ Over(frame[q].on)
      BY <1>8, <2>3, OtherFrames DEF CooldownInv
    <3>2. frame[q].on \in Monitors /\ pc[q] \in InCallback
      BY <2>1, <3>1, BusyOn, CallbackBusy
    <3>3. CASE frame[q].on # m
      BY <1>1, <1>4, <3>1, <3>2, <3>3 DEF Over
    <3>4. CASE frame[q].on = m
      <4>1. ~StartRecovery(p)
        <5> SUFFICES ASSUME StartRecovery(p) PROVE FALSE
          OBVIOUS
        <5>1. pc[p] \in InCallback
          BY DEF StartRecovery, AtStart, InCallback, PCs
        <5>2. lock[m] = {p} /\ lock[m] = {q}
          BY <3>2, <3>4, <5>1 DEF LockInv
        <5> QED
          BY <2>3, <5>2
      <4> QED
        BY <1>1, <3>1, <4>1, LastStartSteps DEF Over
    <3> QED
      BY <3>3, <3>4
  <2> QED
    BY <2>2, <2>3
<1>9. \A k \in Monitors : /\ \A t \in lastStart'[k] : t <= now'
                          /\ Keeps(current[k], k)' /\ Keeps(stateFile[k], k)'
  <2> TAKE k \in Monitors
  <2>1. \A t \in lastStart'[k] : t <= now'
    BY <1>1, <1>4, <1>5 DEF CooldownInv
  <2> QED
    BY <1>6, <1>7, <2>1 DEF Keeps
<1> QED
  BY <1>8, <1>9 DEF CooldownInv, Keeps, Over

LEMMA CooldownInvariance == TypeOK /\ LockInv /\ CooldownInv /\ [Next]_vars => CooldownInv'
<1> SUFFICES ASSUME TypeOK, LockInv, CooldownInv, [Next]_vars PROVE CooldownInv'
  OBVIOUS
<1>1. CASE \E p \in Procs : Step(p)
  BY <1>1, CooldownStep
<1>2. ASSUME UNCHANGED <<current, stateFile, lastStart, now>>,
             \A q \in Procs : pc'[q] = "deciding" => pc[q] = "deciding" /\ frame'[q] = frame[q]
      PROVE  CooldownInv'
  BY <1>2 DEF CooldownInv, Keeps, Over
<1>3. CASE \E m \in Monitors : LoopTick(m) \/ LoopStop(m)
  BY <1>2, <1>3 DEF LoopTick, LoopStop, Goto, TypeOK, memory, files, ghosts
<1>4. CASE \E r \in Requests : Expire(r)
  BY <1>2, <1>4 DEF Expire, memory, files, ghosts
<1>5. CASE \E r \in Requests, m \in Monitors, job \in {"check", "recover"} : Arrive(r, m, job)
  BY <1>2, <1>5 DEF Arrive, Goto, TypeOK, memory, files, ghosts
<1>6. CASE Terminate
  BY <1>2, <1>6 DEF Terminate, memory, files, ghosts
<1>7. CASE Halt
  BY <1>7 DEF Halt, files, CooldownInv, Keeps, Over
<1>8. CASE Start
  <2>1. PICK on \in SUBSET Monitors, o \in SaveOutcomes :
          /\ Persist(Loaded(on), TrimToLimit(eventsFile), TRUE, o)
          /\ current' = IF SaveFails(o, TRUE) THEN stateFile' ELSE Loaded(on)
          /\ pc' \in [Procs -> {"off", "idle", "locking"}]
    BY <1>8, StartFiles
  <2>2. \A m \in Monitors : Loaded(on)[m].cooldownUntil = stateFile[m].cooldownUntil
    BY DEF Loaded, TypeOK, MonitorState
  <2>3. stateFile' \in {stateFile, Loaded(on)} /\ current' \in {stateFile, Loaded(on)}
    BY <2>1, PersistFiles
  <2>4. \A m \in Monitors : /\ current'[m].cooldownUntil = stateFile[m].cooldownUntil
                            /\ stateFile'[m].cooldownUntil = stateFile[m].cooldownUntil
    BY <2>2, <2>3
  <2> QED
    BY <1>8, <2>1, <2>4 DEF Start, ghosts, CooldownInv, Keeps, Over
<1>9. CASE Tick
  <2>1. now \in Nat /\ now' = now + 1
    BY <1>9 DEF Tick, TypeOK
  <2>2. /\ lastStart' = lastStart /\ lastStart \in [Monitors -> SUBSET Nat]
        /\ UNCHANGED <<current, stateFile, pc, frame>>
    BY <1>9 DEF Tick, TypeOK, memory, files, ghosts
  <2>3. \A m \in Monitors : \A t \in lastStart[m] :
          /\ t \in Nat /\ Cooldown[m] \in Nat /\ TicksPerSecond \in Nat
          /\ t <= now => t <= now + 1
          /\ now + TicksPerSecond > t + Cooldown[m]
               => now + 1 + TicksPerSecond > t + Cooldown[m]
    BY <2>1, <2>2, ConfigAssumption, EnvironmentAssumption
  <2>4. \A q \in Procs : pc[q] = "deciding" => frame[q].on \in Monitors
    BY BusyOn DEF Busy
  <2> QED
    BY <2>1, <2>2, <2>3, <2>4 DEF CooldownInv, Keeps, Over
<1>10. CASE UNCHANGED vars
  BY <1>2, <1>10 DEF vars, memory, files, ghosts
<1> QED
  BY <1>1, <1>3, <1>4, <1>5, <1>6, <1>7, <1>8, <1>9, <1>10 DEF Next

\* No automatic recovery starts within the cooldown of the last durable start.
THEOREM CooldownCorrect == Spec => CooldownRespected
<1>1. Init => CooldownInv
  BY DEF Init, CooldownInv, Keeps, Over
<1>2. CooldownInv /\ [Next]_vars =>
        [\A p \in Procs :
           pc[p] = "deciding" /\ pc'[p] = "acting" =>
             \A t \in lastStart[frame[p].on] :
                 now + TicksPerSecond > t + Cooldown[frame[p].on]]_vars
  BY DEF CooldownInv, Over
<1> QED
  BY <1>1, <1>2, InitType, TypeInvariance, LockInit, LockInvariance, CooldownInvariance, PTL
  DEF Spec, CooldownRespected

-----------------------------------------------------------------------------
(* The recovery cap and the durable start *)

LEMMA Alone ==
    ASSUME TypeOK, LockInv, NEW p \in Procs, NEW q \in Procs,
           pc[p] \in InCallback, pc[q] \in InCallback, frame[p].on = frame[q].on
    PROVE  p = q
BY DEF LockInv

LEMMA FailedStep ==
    ASSUME TypeOK, NEW p \in Procs, RecordFailedRecovery(p)
    PROVE  /\ current'[frame[p].on].recoveryFailures = current[frame[p].on].recoveryFailures + 1
           /\ pc[p] \in Acting /\ pc'[p] = "releasing"
           /\ autoFailures' = IF frame[p].job = "check"
                              THEN [autoFailures EXCEPT ![frame[p].on] = @ + 1]
                              ELSE autoFailures
<1> DEFINE m == frame[p].on
<1>1. m \in Monitors /\ current \in [Monitors -> MonitorState] /\ pc \in [Procs -> PCs]
  BY BusyOn DEF RecordFailedRecovery, Busy, TypeOK
<1>2. current'[m].recoveryFailures = current[m].recoveryFailures + 1
  <2> DEFINE s == [current[m] EXCEPT !.status = "failed", !.recoveryFailures = @ + 1,
                                     !.cooldownUntil = CooldownEnd(m),
                                     !.results = PostResults(p)]
  <2>1. current'[m] = s \/ current'[m] = Exhaust(m, s)
    BY <1>1 DEF RecordFailedRecovery, Update
  <2>2. /\ s.recoveryFailures = current[m].recoveryFailures + 1
        /\ Exhaust(m, s).recoveryFailures = s.recoveryFailures
    BY <1>1 DEF Exhaust, MonitorState
  <2> QED
    BY <2>1, <2>2
<1> QED
  BY <1>1, <1>2 DEF RecordFailedRecovery, Goto, Acting, Recovering

\* Nobody is at work while the daemon is down.
DownInv == daemon = "down" => current = stateFile /\ \A p \in Procs : pc[p] = "off"

\* While a recovery acts, the file holds the monitor's state as memory does.
DurableInv ==
    \A p \in Procs : pc[p] \in Acting =>
        /\ stateFile[frame[p].on] = current[frame[p].on]
        /\ current[frame[p].on].status = "recovering"

\* A restart takes at most one failed run away from the counter, and an
\* automatic run begins below the cap.
BudgetInv ==
    /\ \A m \in Monitors :
         /\ autoFailures[m] <= current[m].recoveryFailures + halts
         /\ current[m].recoveryFailures <= stateFile[m].recoveryFailures + 1
         /\ MaxRecoveryAttempts[m] > 0 => autoFailures[m] <= MaxRecoveryAttempts[m] + halts
    /\ \A p \in Procs :
         /\ pc[p] \in {"prechecking", "starting"} => frame[p].job = "recover"
         /\ pc[p] \in Acting /\ frame[p].job = "check"
              /\ MaxRecoveryAttempts[frame[p].on] > 0
            => current[frame[p].on].recoveryFailures < MaxRecoveryAttempts[frame[p].on]

LEMMA DownInvariance == TypeOK /\ DownInv /\ [Next]_vars => DownInv'
<1> SUFFICES ASSUME TypeOK, DownInv, [Next]_vars, daemon' = "down"
             PROVE  current' = stateFile' /\ \A p \in Procs : pc'[p] = "off"
  BY DEF DownInv
<1>1. CASE \E p \in Procs : Step(p)
  BY <1>1, StepBusy, StepUp DEF DownInv, Busy
<1>2. CASE Halt
  BY <1>2 DEF Halt, files
<1>3. CASE Start
  BY <1>3 DEF Start
<1>4. CASE Terminate
  BY <1>4 DEF Terminate
<1>5. CASE UNCHANGED <<daemon, current, stateFile, pc>>
  BY <1>5 DEF DownInv
<1>6. ASSUME daemon = "down"
      PROVE  /\ ~ \E m \in Monitors : LoopTick(m) \/ LoopStop(m)
             /\ ~ \E r \in Requests, m \in Monitors, job \in {"check", "recover"} : Arrive(r, m, job)
  BY <1>6 DEF DownInv, LoopTick, LoopStop, Arrive, Procs
<1> QED
  BY <1>1, <1>2, <1>3, <1>4, <1>5, <1>6
  DEF Next, vars, LoopTick, LoopStop, Expire, Arrive, Tick, memory, files

LEMMA DurableInvariance == TypeOK /\ LockInv /\ DurableInv /\ [Next]_vars => DurableInv'
<1> SUFFICES ASSUME TypeOK, LockInv, DurableInv, [Next]_vars,
                    NEW q \in Procs, pc'[q] \in Acting
             PROVE  /\ stateFile'[frame'[q].on] = current'[frame'[q].on]
                    /\ current'[frame'[q].on].status = "recovering"
  BY DEF DurableInv
<1>1. pc'[q] \in InCallback
  BY DEF Acting, Recovering, InCallback, PCs
<1>2. ASSUME NEW p \in Procs, Step(p)
      PROVE  /\ stateFile'[frame'[q].on] = current'[frame'[q].on]
             /\ current'[frame'[q].on].status = "recovering"
  <2>1. CASE q = p
    <3>1. frame'[p].on = frame[p].on
      BY <1>1, <1>2, <2>1, OtherFrames
    <3>2. CASE StartRecovery(p) /\ pc'[p] = "acting"
      BY <2>1, <3>1, <3>2, StartStep
    <3>3. CASE pc[p] \in Acting /\ UNCHANGED <<memory, files>>
      BY <2>1, <3>1, <3>3 DEF DurableInv, memory, files
    <3> QED
      BY <1>2, <2>1, <3>2, <3>3, ActingLabels
  <2>2. CASE q # p
    <3>1. pc[q] \in Acting /\ pc[q] \in InCallback /\ frame'[q] = frame[q]
      BY <1>1, <1>2, <2>2, OtherFrames
    <3>2. frame[q].on \in Monitors
      BY <3>1, BusyOn, CallbackBusy
    <3>3. current'[frame[q].on] = current[frame[q].on]
      <4>1. CASE frame[p].on # frame[q].on
        BY <1>2, <3>2, <4>1, OtherMonitors
      <4>2. CASE frame[p].on = frame[q].on
        <5>1. pc[p] \notin InCallback
          BY <2>2, <3>1, <4>2, Alone
        <5>2. UNCHANGED <<memory, files>>
          BY <1>2, <5>1, MovingSteps
          DEF Moves, Acquire, GiveUp, Release, InCallback, PCs
        <5> QED
          BY <5>2 DEF memory
      <4> QED
        BY <4>1, <4>2
    <3> QED
      BY <1>2, <3>1, <3>2, <3>3, OtherMonitors DEF DurableInv
  <2> QED
    BY <2>1, <2>2
<1>3. ASSUME UNCHANGED <<current, stateFile>>, pc[q] \in Acting, frame'[q] = frame[q]
      PROVE  /\ stateFile'[frame'[q].on] = current'[frame'[q].on]
             /\ current'[frame'[q].on].status = "recovering"
  BY <1>3 DEF DurableInv
<1>4. CASE \E m \in Monitors : LoopTick(m) \/ LoopStop(m)
  BY <1>1, <1>3, <1>4 DEF LoopTick, LoopStop, Goto, TypeOK, memory, files, InCallback
<1>5. CASE \E r \in Requests : Expire(r)
  BY <1>3, <1>5 DEF Expire, memory, files
<1>6. CASE \E r \in Requests, m \in Monitors, job \in {"check", "recover"} : Arrive(r, m, job)
  BY <1>1, <1>3, <1>6 DEF Arrive, Goto, TypeOK, memory, files, InCallback
<1>7. CASE Terminate \/ Tick \/ UNCHANGED vars
  BY <1>3, <1>7 DEF Terminate, Tick, vars, memory, files
<1>8. CASE Halt
  BY <1>1, <1>8 DEF Halt, InCallback
<1>9. CASE Start
  BY <1>1, <1>9, StartFiles DEF InCallback
<1> QED
  BY <1>2, <1>4, <1>5, <1>6, <1>7, <1>8, <1>9 DEF Next

LEMMA RecoverLabels ==
    ASSUME TypeOK, NEW p \in Procs, Step(p), pc'[p] \in {"prechecking", "starting"}
    PROVE  BeginForced(p) \/ pc[p] = "prechecking"
BY DEF TypeOK, Step, Acquire, GiveUp, SkipCancelled, Release, Return, MarkChecking, RunCheck,
   Evaluating, RestoreCancelledCheck, RecordHealthy, RecordFailure, SuppressRecovery, BeginForced,
   ReadStatusBefore, AbandonStart, StartRecovery, InterruptRecovery, BeginAction,
   EndAction, Advance, EndRecheck, EndVerify, RestoreStatus, RecordRecovery,
   RecordFailedRecovery, Goto

LEMMA BudgetStep ==
    ASSUME TypeOK, LockInv, DurableInv, BudgetInv, NEW p \in Procs, Step(p)
    PROVE  BudgetInv'
<1> DEFINE m == frame[p].on
<1>1. /\ m \in Monitors /\ halts' = halts /\ halts \in Nat
      /\ autoFailures \in [Monitors -> Nat]
      /\ current \in [Monitors -> MonitorState] /\ current' \in [Monitors -> MonitorState]
      /\ stateFile \in [Monitors -> MonitorState] /\ stateFile' \in [Monitors -> MonitorState]
      /\ MaxRecoveryAttempts \in [Monitors -> Nat]
  <2>1. halts' = halts
    BY MovingSteps DEF Moves, GiveUp, Release, ghosts
  <2> QED
    BY <2>1, TypeStep, StepBusy, BusyOn, ConfigAssumption DEF TypeOK
<1>2. \A x \in MonitorState : x.recoveryFailures \in Nat
  BY DEF MonitorState
<1>3. ASSUME NEW k \in Monitors
      PROVE  /\ autoFailures'[k] <= current'[k].recoveryFailures + halts
             /\ current'[k].recoveryFailures <= stateFile'[k].recoveryFailures + 1
             /\ MaxRecoveryAttempts[k] > 0 => autoFailures'[k] <= MaxRecoveryAttempts[k] + halts
  <2>1. /\ autoFailures[k] <= current[k].recoveryFailures + halts
        /\ current[k].recoveryFailures <= stateFile[k].recoveryFailures + 1
        /\ MaxRecoveryAttempts[k] > 0 => autoFailures[k] <= MaxRecoveryAttempts[k] + halts
    BY DEF BudgetInv
  <2>2. /\ current[k].recoveryFailures \in Nat /\ current'[k].recoveryFailures \in Nat
        /\ stateFile[k].recoveryFailures \in Nat
        /\ autoFailures[k] \in Nat /\ MaxRecoveryAttempts[k] \in Nat
        /\ stateFile'[k] = stateFile[k] \/ stateFile'[k] = current'[k]
    BY <1>1, <1>2, OtherMonitors
  <2>3. CASE k = m /\ RecordFailedRecovery(p)
    <3>1. /\ current'[k].recoveryFailures = current[k].recoveryFailures + 1
          /\ stateFile[k] = current[k]
          /\ autoFailures'[k] = autoFailures[k] + (IF frame[p].job = "check" THEN 1 ELSE 0)
      BY <1>1, <2>2, <2>3, FailedStep DEF DurableInv
    <3>2. frame[p].job = "check" /\ MaxRecoveryAttempts[k] > 0
            => current[k].recoveryFailures < MaxRecoveryAttempts[k]
      BY <2>3, FailedStep DEF BudgetInv
    <3> QED
      BY <1>1, <2>1, <2>2, <3>1, <3>2
  <2>4. CASE k # m \/ ~RecordFailedRecovery(p)
    <3>1. autoFailures'[k] = autoFailures[k]
      BY <1>1, <2>4, FailedStep, FailureCountSteps
    <3>2. current'[k].recoveryFailures = current[k].recoveryFailures
      BY <2>4, OtherMonitors, OwnMonitor, StepBusy DEF Follows
    <3> QED
      BY <1>1, <2>1, <2>2, <3>1, <3>2
  <2> QED
    BY <2>3, <2>4
<1>4. ASSUME NEW q \in Procs, pc'[q] \in {"prechecking", "starting"}
      PROVE  frame'[q].job = "recover"
  <2>1. pc'[q] \in InCallback
    BY <1>4 DEF InCallback, PCs
  <2>2. CASE q = p
    BY <1>4, <2>1, <2>2, OtherFrames, RecoverLabels DEF BeginForced, BudgetInv
  <2>3. CASE q # p
    BY <1>4, <2>3, OtherFrames DEF BudgetInv
  <2> QED
    BY <2>2, <2>3
<1>5. ASSUME NEW q \in Procs, pc'[q] \in Acting, frame'[q].job = "check",
             MaxRecoveryAttempts[frame'[q].on] > 0
      PROVE  current'[frame'[q].on].recoveryFailures < MaxRecoveryAttempts[frame'[q].on]
  <2>1. pc'[q] \in InCallback
    BY <1>5 DEF Acting, Recovering, InCallback, PCs
  <2>2. frame'[q].on = frame[q].on /\ frame[q].job = "check"
    BY <1>5, <2>1, OtherFrames
  <2>3. CASE q = p
    <3>1. CASE StartRecovery(p)
      <4>1. ~AttemptsExhausted(m, current[m])
        BY <2>2, <2>3, <3>1 DEF StartRecovery, AtStart, BudgetInv
      <4>2. current'[m].recoveryFailures = current[m].recoveryFailures
        BY <3>1, StartStep
      <4> QED
        BY <1>1, <1>2, <1>5, <2>2, <2>3, <4>1, <4>2 DEF AttemptsExhausted
    <3>2. CASE pc[p] \in Acting /\ UNCHANGED <<memory, files>>
      BY <1>5, <2>2, <2>3, <3>2 DEF BudgetInv, memory
    <3> QED
      BY <1>5, <2>3, <3>1, <3>2, ActingLabels
  <2>4. CASE q # p
    <3>1. pc[q] \in Acting /\ pc[q] \in InCallback
      BY <1>5, <2>1, <2>4, OtherFrames
    <3>2. current'[frame[q].on].recoveryFailures = current[frame[q].on].recoveryFailures
      <4>1. CASE m # frame[q].on
        BY <3>1, <4>1, OtherMonitors, BusyOn, CallbackBusy
      <4>2. CASE m = frame[q].on
        <5>1. pc[p] \notin InCallback
          BY <2>4, <3>1, <4>2, Alone
        <5>2. UNCHANGED <<memory, files>>
          BY <5>1, MovingSteps DEF Moves, Acquire, GiveUp, Release, InCallback, PCs
        <5> QED
          BY <5>2 DEF memory
      <4> QED
        BY <4>1, <4>2
    <3> QED
      BY <1>5, <2>2, <3>1, <3>2 DEF BudgetInv
  <2> QED
    BY <2>3, <2>4
<1> QED
  BY <1>1, <1>3, <1>4, <1>5 DEF BudgetInv

LEMMA BudgetInvariance ==
    TypeOK /\ LockInv /\ DownInv /\ DurableInv /\ BudgetInv /\ [Next]_vars => BudgetInv'
<1> SUFFICES ASSUME TypeOK, LockInv, DownInv, DurableInv, BudgetInv, [Next]_vars
             PROVE  BudgetInv'
  OBVIOUS
<1>1. CASE \E p \in Procs : Step(p)
  BY <1>1, BudgetStep
<1>2. ASSUME UNCHANGED <<current, stateFile, autoFailures, halts>>,
             \A q \in Procs : \/ pc'[q] \in {"off", "idle", "locking"}
                              \/ pc'[q] = pc[q] /\ frame'[q] = frame[q]
      PROVE  BudgetInv'
  BY <1>2 DEF BudgetInv, Acting, Recovering
<1>3. CASE \E m \in Monitors : LoopTick(m) \/ LoopStop(m)
  BY <1>2, <1>3 DEF LoopTick, LoopStop, Goto, TypeOK, memory, files, ghosts
<1>4. CASE \E r \in Requests : Expire(r)
  BY <1>2, <1>4 DEF Expire, memory, files, ghosts
<1>5. CASE \E r \in Requests, m \in Monitors, job \in {"check", "recover"} : Arrive(r, m, job)
  BY <1>2, <1>5 DEF Arrive, Goto, TypeOK, memory, files, ghosts
<1>6. CASE Terminate \/ Tick \/ UNCHANGED vars
  BY <1>2, <1>6 DEF Terminate, Tick, vars, memory, files, ghosts
<1>7. /\ halts \in Nat /\ autoFailures \in [Monitors -> Nat]
      /\ current \in [Monitors -> MonitorState] /\ stateFile \in [Monitors -> MonitorState]
      /\ MaxRecoveryAttempts \in [Monitors -> Nat]
      /\ \A x \in MonitorState : x.recoveryFailures \in Nat
  BY ConfigAssumption DEF TypeOK, MonitorState
<1>8. CASE Halt
  <2>1. /\ halts' = halts + 1 /\ current' = stateFile
        /\ stateFile' = stateFile /\ autoFailures' = autoFailures
        /\ \A p \in Procs : pc'[p] = "off"
    BY <1>8 DEF Halt, files
  <2>2. \A k \in Monitors :
          /\ autoFailures[k] <= stateFile[k].recoveryFailures + (halts + 1)
          /\ stateFile[k].recoveryFailures <= stateFile[k].recoveryFailures + 1
          /\ MaxRecoveryAttempts[k] > 0
               => autoFailures[k] <= MaxRecoveryAttempts[k] + (halts + 1)
    <3> TAKE k \in Monitors
    <3>1. /\ autoFailures[k] \in Nat /\ current[k].recoveryFailures \in Nat
          /\ stateFile[k].recoveryFailures \in Nat /\ MaxRecoveryAttempts[k] \in Nat
      BY <1>7
    <3> QED
      BY <1>7, <3>1 DEF BudgetInv
  <2> QED
    BY <2>1, <2>2 DEF BudgetInv, Acting, Recovering
<1>9. CASE Start
  <2>1. PICK on \in SUBSET Monitors, o \in SaveOutcomes :
          /\ Persist(Loaded(on), TrimToLimit(eventsFile), TRUE, o)
          /\ current' = IF SaveFails(o, TRUE) THEN stateFile' ELSE Loaded(on)
          /\ pc' \in [Procs -> {"off", "idle", "locking"}]
    BY <1>9, StartFiles
  <2>2. \A k \in Monitors : Loaded(on)[k].recoveryFailures = stateFile[k].recoveryFailures
    BY <1>7 DEF Loaded, MonitorState
  <2>3. stateFile' \in {stateFile, Loaded(on)} /\ current' \in {stateFile, Loaded(on)}
    BY <2>1, PersistFiles
  <2>4. \A k \in Monitors :
          /\ current'[k].recoveryFailures = stateFile[k].recoveryFailures
          /\ stateFile'[k].recoveryFailures = stateFile[k].recoveryFailures
          /\ current[k] = stateFile[k]
    BY <1>9, <2>2, <2>3 DEF DownInv, Start
  <2>5. halts' = halts /\ autoFailures' = autoFailures
    BY <1>9 DEF Start, ghosts
  <2> QED
    BY <1>7, <2>1, <2>4, <2>5 DEF BudgetInv, Acting, Recovering
<1> QED
  BY <1>1, <1>3, <1>4, <1>5, <1>6, <1>8, <1>9 DEF Next

LEMMA BudgetInit == Init => DownInv /\ DurableInv /\ BudgetInv
<1> SUFFICES ASSUME Init PROVE DownInv /\ DurableInv /\ BudgetInv
  OBVIOUS
<1>1. MaxRecoveryAttempts \in [Monitors -> Nat]
  BY ConfigAssumption
<1> QED
  BY <1>1 DEF Init, DownInv, DurableInv, BudgetInv, NewMonitorState, Acting, Recovering

\* max_recovery_attempts holds over any number of restarts, up to one run for
\* each end of the process.
THEOREM BudgetCorrect == Spec => []RecoveryBudget
<1>1. BudgetInv => RecoveryBudget
  BY DEF BudgetInv, RecoveryBudget
<1> QED
  BY <1>1, InitType, TypeInvariance, LockInit, LockInvariance, BudgetInit, DownInvariance,
     DurableInvariance, BudgetInvariance, PTL DEF Spec

-----------------------------------------------------------------------------
(* The event of a durable start *)

LEMMA TrimLast ==
    ASSUME NEW h \in Seq(Events), NEW m \in Monitors, LastIsStart(h, m)
    PROVE  LastIsStart(TrimToLimit(h), m)
<1> DEFINE t == TrimToLimit(h)
           k == IF Len(h) > EventsMaxEntries THEN Len(h) - EventsMaxEntries ELSE 0
<1>1. EventsMaxEntries \in Nat /\ EventsMaxEntries > 0 /\ Len(h) \in Nat
  BY ConfigAssumption
<1>2. k \in Nat /\ k <= Len(h)
  BY <1>1
<1>3. /\ t \in Seq(Events) /\ Len(t) = Len(h) - k
      /\ \A i \in 1..Len(t) : t[i] = h[i + k]
  BY <1>1 DEF TrimToLimit
<1> SUFFICES ASSUME NEW i \in DOMAIN t, t[i].mon = m,
                    \A j \in DOMAIN t : t[j].mon = m => j <= i
             PROVE  t[i].type = "recovery_started"
  BY DEF LastIsStart
<1>4. i \in 1..Len(t) /\ i \in Nat /\ i + k \in DOMAIN h /\ t[i] = h[i + k]
  BY <1>1, <1>2, <1>3, SMTT(40)
<1> HIDE DEF t, k
<1>5. \A j \in DOMAIN h : h[j].mon = m => j <= i + k
  <2> SUFFICES ASSUME NEW j \in DOMAIN h, h[j].mon = m, j > k
               PROVE  j <= i + k
    BY <1>2, <1>4
  <2>1. j \in Nat /\ j <= Len(h) /\ j - k \in 1..Len(t)
    BY <1>1, <1>2, <1>3
  <2>2. t[j - k] = h[(j - k) + k] /\ (j - k) + k = j
    BY <1>2, <1>3, <2>1
  <2>3. j - k <= i
    BY <1>3, <2>1, <2>2
  <2> QED
    BY <1>2, <1>4, <2>1, <2>3
<1> QED
  BY <1>4, <1>5 DEF LastIsStart

LEMMA AppendLast ==
    ASSUME NEW h \in Seq(Events), NEW events \in Seq(Events), NEW m \in Monitors,
           \/ LastIsStart(h, m) /\ \A i \in DOMAIN events : events[i].mon # m
           \/ \E e \in Events : events = <<e>> /\ e.mon = m /\ e.type = "recovery_started"
    PROVE  LastIsStart(TrimToLimit(h \o events), m)
<1> DEFINE g == h \o events
<1>1. /\ g \in Seq(Events) /\ Len(g) = Len(h) + Len(events)
      /\ Len(h) \in Nat /\ Len(events) \in Nat
      /\ \A i \in 1..Len(h) : g[i] = h[i]
      /\ \A i \in 1..Len(events) : g[Len(h) + i] = events[i]
  OBVIOUS
<1> SUFFICES LastIsStart(g, m)
  BY <1>1, TrimLast
<1> HIDE DEF g
<1> SUFFICES ASSUME NEW i \in DOMAIN g, g[i].mon = m,
                    \A j \in DOMAIN g : g[j].mon = m => j <= i
             PROVE  g[i].type = "recovery_started"
  BY DEF LastIsStart
<1>2. i \in Nat /\ i >= 1 /\ i <= Len(h) + Len(events)
  BY <1>1
<1>3. CASE LastIsStart(h, m) /\ \A j \in DOMAIN events : events[j].mon # m
  <2>1. i <= Len(h)
    <3> SUFFICES ASSUME i > Len(h) PROVE FALSE
      BY <1>1, <1>2
    <3>1. i - Len(h) \in 1..Len(events) /\ Len(h) + (i - Len(h)) = i
      BY <1>1, <1>2
    <3>2. g[i] = events[i - Len(h)]
      BY <1>1, <3>1
    <3> QED
      BY <1>3, <3>1, <3>2
  <2>2. i \in DOMAIN h /\ g[i] = h[i]
    BY <1>1, <1>2, <2>1
  <2>3. \A j \in DOMAIN h : j \in DOMAIN g /\ g[j] = h[j]
    BY <1>1, SMTT(40)
  <2> QED
    BY <1>3, <2>2, <2>3 DEF LastIsStart
<1>4. CASE \E e \in Events : events = <<e>> /\ e.mon = m /\ e.type = "recovery_started"
  <2>1. PICK e \in Events : events = <<e>> /\ e.mon = m /\ e.type = "recovery_started"
    BY <1>4
  <2>2. Len(events) = 1 /\ Len(h) + 1 \in DOMAIN g /\ g[Len(h) + 1] = e
    BY <1>1, <2>1
  <2>3. i = Len(h) + 1
    BY <1>1, <1>2, <2>1, <2>2
  <2> QED
    BY <2>1, <2>2, <2>3
<1> QED
  BY <1>3, <1>4

\* While a recovery acts, its start is the last thing memory and file tell of
\* the monitor.
EventInv ==
    \A p \in Procs : pc[p] \in Acting =>
        LastIsStart(history, frame[p].on) /\ LastIsStart(eventsFile, frame[p].on)

LEMMA EventStep ==
    ASSUME TypeOK, LockInv, EventInv, NEW p \in Procs, Step(p),
           NEW q \in Procs, pc'[q] \in Acting
    PROVE  LastIsStart(history', frame'[q].on) /\ LastIsStart(eventsFile', frame'[q].on)
<1>1. pc'[q] \in InCallback /\ frame'[q].on = frame[q].on
  BY OtherFrames DEF Acting, Recovering, InCallback, PCs
<1>2. history \in Seq(Events) /\ now \in Nat
  BY DEF TypeOK, Histories
<1>3. CASE q = p
  <2>1. CASE StartRecovery(p) /\ pc'[p] = "acting"
    <3>1. frame[p].on \in Monitors
      BY StepBusy, BusyOn
    <3>2. /\ history' = TrimToLimit(history \o <<Event(frame[p].on, "recovery_started")>>)
          /\ eventsFile' = history'
      BY <2>1, StartStep
    <3>3. Event(frame[p].on, "recovery_started") \in Events
      BY <1>2, <3>1, EventType DEF EventTypes
    <3>4. LastIsStart(history', frame[p].on)
      <4> DEFINE e == Event(frame[p].on, "recovery_started")
      <4>1. e \in Events /\ e.mon = frame[p].on /\ e.type = "recovery_started"
        BY <3>3 DEF Event
      <4>2. <<e>> \in Seq(Events) /\ \E f \in Events : /\ <<e>> = <<f>> /\ f.mon = frame[p].on
                                                       /\ f.type = "recovery_started"
        BY <4>1
      <4> HIDE DEF e
      <4>3. LastIsStart(TrimToLimit(history \o <<e>>), frame[p].on)
        BY <1>2, <3>1, <4>2, AppendLast
      <4> QED
        BY <3>2, <4>3 DEF e
    <3> QED
      BY <1>1, <1>3, <3>2, <3>4
  <2>2. CASE pc[p] \in Acting /\ UNCHANGED <<memory, files>>
    BY <1>1, <1>3, <2>2 DEF EventInv, memory, files
  <2> QED
    BY <1>3, <2>1, <2>2, ActingLabels
<1>4. CASE q # p
  <2>1. pc[q] \in Acting /\ pc[q] \in InCallback
    BY <1>1, <1>4, OtherFrames
  <2>2. LastIsStart(history, frame[q].on) /\ LastIsStart(eventsFile, frame[q].on)
    BY <2>1 DEF EventInv
  <2>3. CASE UNCHANGED <<memory, files>>
    BY <1>1, <2>2, <2>3 DEF memory, files
  <2>4. CASE Saves(p) /\ ~ UNCHANGED <<memory, files>>
    <3>1. pc[p] \in InCallback
      BY <2>4, MovingSteps DEF Moves, Acquire, GiveUp, Release
    <3>2. frame[p].on # frame[q].on /\ frame[q].on \in Monitors
      BY <1>4, <2>1, <3>1, Alone, BusyOn, CallbackBusy
    <3>a. PICK s, events : /\ News(frame[p].on, s, events)
                           /\ \E o \in SaveOutcomes : Update(frame[p].on, s, events, o)
      BY <2>4 DEF Saves
    <3>3. PICK o \in SaveOutcomes : /\ News(frame[p].on, s, events)
                                    /\ Update(frame[p].on, s, events, o)
      BY <3>a
    <3>4. /\ history' = TrimToLimit(history \o events)
          /\ eventsFile' = eventsFile \/ eventsFile' = history'
      BY <3>3, PersistFiles DEF Update, TypeOK
    <3>5. events \in Seq(Events) /\ \A i \in DOMAIN events : events[i].mon # frame[q].on
      BY <3>2, <3>3 DEF News
    <3>6. LastIsStart(history', frame[q].on)
      BY <1>2, <2>2, <3>2, <3>4, <3>5, AppendLast
    <3> QED
      BY <1>1, <2>2, <3>4, <3>6
  <2> QED
    BY <2>3, <2>4, SavingSteps
<1> QED
  BY <1>3, <1>4

LEMMA EventInvariance == TypeOK /\ LockInv /\ EventInv /\ [Next]_vars => EventInv'
<1> SUFFICES ASSUME TypeOK, LockInv, EventInv, [Next]_vars,
                    NEW q \in Procs, pc'[q] \in Acting
             PROVE  LastIsStart(history', frame'[q].on) /\ LastIsStart(eventsFile', frame'[q].on)
  BY DEF EventInv, LastIsStart
<1>1. pc'[q] \notin {"off", "idle", "locking"}
  BY DEF Acting, Recovering
<1>2. CASE \E p \in Procs : Step(p)
  BY <1>2, EventStep
<1>3. ASSUME UNCHANGED <<history, eventsFile>>, pc[q] \in Acting, frame'[q] = frame[q]
      PROVE  LastIsStart(history', frame'[q].on) /\ LastIsStart(eventsFile', frame'[q].on)
  BY <1>3 DEF EventInv
<1>4. CASE \E m \in Monitors : LoopTick(m) \/ LoopStop(m)
  BY <1>1, <1>3, <1>4 DEF LoopTick, LoopStop, Goto, TypeOK, memory, files
<1>5. CASE \E r \in Requests : Expire(r)
  BY <1>3, <1>5 DEF Expire, memory, files
<1>6. CASE \E r \in Requests, m \in Monitors, job \in {"check", "recover"} : Arrive(r, m, job)
  BY <1>1, <1>3, <1>6 DEF Arrive, Goto, TypeOK, memory, files
<1>7. CASE Terminate \/ Tick \/ UNCHANGED vars
  BY <1>3, <1>7 DEF Terminate, Tick, vars, memory, files
<1>8. CASE Halt
  BY <1>1, <1>8 DEF Halt
<1>9. CASE Start
  BY <1>1, <1>9, StartFiles
<1> QED
  BY <1>2, <1>4, <1>5, <1>6, <1>7, <1>8, <1>9 DEF Next

\* While recovery actions run, both files tell of the recovery.
THEOREM DurableCorrect == Spec => []ActionsAreDurable
<1>1. DurableInv /\ EventInv => ActionsAreDurable
  BY DEF DurableInv, EventInv, ActionsAreDurable
<1>2. Init => EventInv
  BY DEF Init, EventInv, Acting, Recovering
<1> QED
  BY <1>1, <1>2, InitType, TypeInvariance, LockInit, LockInvariance, BudgetInit,
     DurableInvariance, EventInvariance, PTL DEF Spec

=============================================================================
