----------------------------- MODULE StatusProofs -----------------------------
(***************************************************************************)
(* More proofs about the engine: what its two files and its memory tell    *)
(* of a monitor, and that they tell the truth.                             *)
(***************************************************************************)
EXTENDS ManagerProofs

-----------------------------------------------------------------------------
(* Histories *)

LEMMA TrimPart ==
    ASSUME NEW h \in Seq(Events), NEW i \in DOMAIN TrimToLimit(h)
    PROVE  \E j \in DOMAIN h : TrimToLimit(h)[i] = h[j]
<1> DEFINE t == TrimToLimit(h)
           k == IF Len(h) > EventsMaxEntries THEN Len(h) - EventsMaxEntries ELSE 0
<1>1. EventsMaxEntries \in Nat /\ EventsMaxEntries > 0 /\ Len(h) \in Nat
  BY ConfigAssumption
<1>2. k \in Nat /\ k <= Len(h)
  BY <1>1
<1>3. /\ t \in Seq(Events) /\ Len(t) = Len(h) - k
      /\ \A l \in 1..Len(t) : t[l] = h[l + k]
  BY <1>1 DEF TrimToLimit
<1> HIDE DEF k
<1>4. i \in 1..Len(t) /\ i + k \in DOMAIN h
  BY <1>1, <1>2, <1>3
<1>5. t[i] = h[i + k]
  BY <1>3, <1>4
<1> QED
  BY <1>4, <1>5

LEMMA AppendPart ==
    ASSUME NEW h \in Seq(Events), NEW events \in Seq(Events),
           NEW i \in DOMAIN TrimToLimit(h \o events)
    PROVE  LET e == TrimToLimit(h \o events)[i] IN
           (\E j \in DOMAIN h : e = h[j]) \/ (\E j \in DOMAIN events : e = events[j])
<1> DEFINE g == h \o events
<1>1. /\ g \in Seq(Events) /\ Len(g) = Len(h) + Len(events)
      /\ Len(h) \in Nat /\ Len(events) \in Nat
      /\ \A j \in 1..Len(h) : g[j] = h[j]
      /\ \A j \in 1..Len(events) : g[Len(h) + j] = events[j]
  OBVIOUS
<1>2. PICK j \in DOMAIN g : TrimToLimit(g)[i] = g[j]
  BY <1>1, TrimPart
<1>3. j \in 1..(Len(h) + Len(events))
  BY <1>1
<1> HIDE DEF g
<1>4. CASE j <= Len(h)
  <2>1. j \in DOMAIN h /\ g[j] = h[j]
    BY <1>1, <1>3, <1>4
  <2> QED
    BY <1>2, <2>1 DEF g
<1>5. CASE j > Len(h)
  <2>1. j - Len(h) \in 1..Len(events) /\ Len(h) + (j - Len(h)) = j
    BY <1>1, <1>3, <1>5
  <2>2. g[j] = events[j - Len(h)] /\ j - Len(h) \in DOMAIN events
    BY <1>1, <2>1
  <2> QED
    BY <1>2, <2>2 DEF g
<1> QED
  BY <1>1, <1>3, <1>4, <1>5

-----------------------------------------------------------------------------
(* The events and the cooldown *)

\* What h tells of the past has its cooldown in the states.
Covered(e, states) ==
    /\ e.at <= now
    /\ e.type = "recovery_started" =>
         states[e.mon].cooldownUntil + TicksPerSecond > e.at + Cooldown[e.mon]

CoveredBy(h, states) == \A i \in DOMAIN h : Covered(h[i], states)

\* Inductive: so it is of memory, of the files, and of events.json with memory,
\* which the next save may write to state.json alone.
CoverInv ==
    /\ CoveredBy(history, current)
    /\ CoveredBy(eventsFile, current)
    /\ CoveredBy(eventsFile, stateFile)

LEMMA CoverStep ==
    ASSUME TypeOK, CoverInv, NEW p \in Procs, Step(p)
    PROVE  CoverInv'
<1> DEFINE m == frame[p].on
<1>1. now' = now /\ now \in Nat
  BY MovingSteps DEF Moves, GiveUp, Release, TypeOK
<1>2. m \in Monitors
  BY StepBusy, BusyOn
<1>3. CASE UNCHANGED <<memory, files>>
  BY <1>1, <1>3 DEF CoverInv, CoveredBy, Covered, memory, files
<1>4. CASE Saves(p)
  <2>1. PICK s, events : /\ Follows(p, s)
                         /\ News(m, s, events)
                         /\ \E o \in SaveOutcomes : Update(m, s, events, o)
    BY <1>4 DEF Saves
  <2>2. PICK o \in SaveOutcomes : Update(m, s, events, o)
    BY <2>1
  <2>3. /\ current' = [current EXCEPT ![m] = s]
        /\ current \in [Monitors -> MonitorState]
        /\ history \in Seq(Events) /\ eventsFile \in Seq(Events) /\ events \in Seq(Events)
        /\ history' = TrimToLimit(history \o events)
        /\ s.cooldownUntil \in {current[m].cooldownUntil, CooldownEnd(m)}
    BY <2>1, <2>2 DEF Update, TypeOK, Histories, Follows, News
  <2>4. /\ eventsFile' = eventsFile \/ (eventsFile' = history' /\ stateFile' = current')
        /\ stateFile' = current' \/ stateFile' = stateFile
    BY <2>2, PersistFiles DEF Update, TypeOK
  <2>5. CooldownEnd(m) \in Nat /\ now + Cooldown[m] < CooldownEnd(m) + TicksPerSecond
    BY <1>1, <1>2, CooldownEndType
  <2>6. Cooldown[m] \in Nat /\ TicksPerSecond \in Nat
    BY <1>2, ConfigAssumption, EnvironmentAssumption
  <2>7. ASSUME NEW e \in Events, Covered(e, current) PROVE Covered(e, current')
    <3>1. e.at \in Nat /\ e.at <= now
      BY <2>7 DEF Events, Covered
    <3>2. CASE e.mon # m
      BY <2>3, <2>7, <3>2 DEF Covered, Events
    <3>3. CASE e.mon = m
      <4>1. current'[m].cooldownUntil \in {current[m].cooldownUntil, CooldownEnd(m)}
        BY <1>2, <2>3
      <4> QED
        BY <1>1, <2>5, <2>6, <2>7, <3>1, <3>3, <4>1 DEF Covered
    <3> QED
      BY <3>2, <3>3
  <2>8. ASSUME NEW i \in DOMAIN events PROVE Covered(events[i], current')
    <3>1. events[i] \in Events /\ events[i].at \in Nat
      <4>1. events[i] \in Events
        BY <2>3
      <4> QED
        BY <4>1 DEF Events
    <3>2. /\ events[i].mon = m /\ events[i].at <= now
          /\ events[i].type = "recovery_started" => current'[m].cooldownUntil = CooldownEnd(m)
      BY <1>2, <2>1, <2>3 DEF News
    <3> QED
      BY <1>1, <2>5, <2>6, <3>1, <3>2 DEF Covered
  <2>9. CoveredBy(history', current')
    <3> SUFFICES ASSUME NEW i \in DOMAIN history' PROVE Covered(history'[i], current')
      BY DEF CoveredBy
    <3>1. \/ \E j \in DOMAIN history : history'[i] = history[j]
          \/ \E j \in DOMAIN events : history'[i] = events[j]
      BY <2>3, AppendPart
    <3>2. \A j \in DOMAIN history : history[j] \in Events /\ Covered(history[j], current)
      BY <2>3 DEF CoverInv, CoveredBy
    <3> QED
      BY <2>7, <2>8, <3>1, <3>2
  <2>10. CoveredBy(eventsFile, current')
    <3>1. \A j \in DOMAIN eventsFile : eventsFile[j] \in Events /\ Covered(eventsFile[j], current)
      BY <2>3 DEF CoverInv, CoveredBy
    <3> QED
      BY <2>7, <3>1 DEF CoveredBy
  <2>11. CoveredBy(eventsFile', current') /\ CoveredBy(eventsFile', stateFile')
    BY <2>4, <2>9, <2>10 DEF CoverInv
  <2> QED
    BY <1>1, <2>9, <2>11 DEF CoverInv, CoveredBy, Covered
<1> QED
  BY <1>3, <1>4, SavingSteps

LEMMA CoverInvariance == TypeOK /\ CoverInv /\ [Next]_vars => CoverInv'
<1> SUFFICES ASSUME TypeOK, CoverInv, [Next]_vars PROVE CoverInv'
  OBVIOUS
<1>1. CASE \E p \in Procs : Step(p)
  BY <1>1, CoverStep
<1>2. ASSUME UNCHANGED <<memory, files, now>> PROVE CoverInv'
  BY <1>2 DEF CoverInv, CoveredBy, Covered, memory, files
<1>3. CASE (\E m \in Monitors : LoopTick(m) \/ LoopStop(m)) \/ (\E r \in Requests : Expire(r))
           \/ Terminate \/ UNCHANGED vars
  BY <1>2, <1>3 DEF LoopTick, LoopStop, Expire, Terminate, vars
<1>4. CASE \E r \in Requests, m \in Monitors, job \in {"check", "recover"} : Arrive(r, m, job)
  BY <1>2, <1>4 DEF Arrive
<1>5. CASE Halt
  BY <1>5 DEF Halt, CoverInv, CoveredBy, Covered, files
<1>6. CASE Start
  <2>1. PICK on \in SUBSET Monitors, o \in SaveOutcomes :
          /\ Persist(Loaded(on), TrimToLimit(eventsFile), TRUE, o)
          /\ current' = IF SaveFails(o, TRUE) THEN stateFile' ELSE Loaded(on)
          /\ history' = IF SaveFails(o, TRUE) THEN eventsFile' ELSE TrimToLimit(eventsFile)
    BY <1>6, StartFiles
  <2>2. \A m \in Monitors : Loaded(on)[m].cooldownUntil = stateFile[m].cooldownUntil
    BY DEF Loaded, TypeOK, MonitorState
  <2>3. /\ stateFile' \in {stateFile, Loaded(on)} /\ current' \in {stateFile, Loaded(on)}
        /\ eventsFile' \in {eventsFile, TrimToLimit(eventsFile)}
        /\ history' \in {eventsFile, TrimToLimit(eventsFile)}
    <3>1. stateFile' = Loaded(on) \/ stateFile' = stateFile
      BY <2>1, PersistFiles
    <3>2. eventsFile' = eventsFile \/ eventsFile' = TrimToLimit(eventsFile)
      BY <2>1, PersistFiles
    <3> QED
      BY <2>1, <3>1, <3>2
  <2>4. eventsFile \in Seq(Events) /\ now' = now
    BY <1>6 DEF TypeOK, Histories, Start
  <2>5. \A h \in {eventsFile, TrimToLimit(eventsFile)} : \A i \in DOMAIN h :
          h[i] \in Events /\ Covered(h[i], stateFile)
    BY <2>4, TrimPart DEF CoverInv, CoveredBy
  <2>6. ASSUME NEW h \in {eventsFile, TrimToLimit(eventsFile)}, NEW s \in {stateFile, Loaded(on)}
        PROVE  CoveredBy(h, s)
    BY <2>2, <2>5 DEF CoveredBy, Covered, Events
  <2>7. CoveredBy(history', current') /\ CoveredBy(eventsFile', current')
        /\ CoveredBy(eventsFile', stateFile')
    BY <2>3, <2>6
  <2> QED
    BY <2>4, <2>7 DEF CoverInv, CoveredBy, Covered
<1>7. CASE Tick
  <2>1. now \in Nat /\ now' = now + 1 /\ history \in Seq(Events) /\ eventsFile \in Seq(Events)
        /\ UNCHANGED <<current, history, stateFile, eventsFile>>
    BY <1>7 DEF Tick, TypeOK, Histories, memory, files
  <2>2. \A e \in Events : e.at <= now => e.at <= now + 1
    BY <2>1 DEF Events
  <2>3. /\ \A i \in DOMAIN history : history[i] \in Events
        /\ \A i \in DOMAIN eventsFile : eventsFile[i] \in Events
    BY <2>1
  <2> QED
    BY <2>1, <2>2, <2>3 DEF CoverInv, CoveredBy, Covered
<1> QED
  BY <1>1, <1>3, <1>4, <1>5, <1>6, <1>7 DEF Next

\* events.json never tells of the start of a recovery whose cooldown is not in
\* state.json, whichever save fails and wherever the process ends.
THEOREM EventsBehindState == Spec => []EventsNeverAheadOfState
<1>1. CoverInv => EventsNeverAheadOfState
  BY DEF CoverInv, CoveredBy, Covered, EventsNeverAheadOfState
<1>2. Init => CoverInv
  BY DEF Init, CoverInv, CoveredBy
<1> QED
  BY <1>1, <1>2, InitType, TypeInvariance, CoverInvariance, PTL DEF Spec


-----------------------------------------------------------------------------
(* What the steps of an operation do to the status of its monitor *)

\* The labels at which frame[p].before is the status to put back
AtWork == {"checking"} \cup Recovering

\* A scheduled check decides on a recovery, a forced recovery begins with checks.
JobInv ==
    \A p \in Procs :
        /\ pc[p] \in {"checking", "deciding"} => frame[p].job = "check"
        /\ pc[p] \in {"prechecking", "starting"} => frame[p].job = "recover"

Full(m) == [ran |-> NumChecks[m], bad |-> FALSE]

\* One of the checks done so far, if any, has failed.
FinishInv ==
    \A p \in Procs : pc[p] = "finishing" /\ ~frame[p].bad => frame[p].ran = NumChecks[frame[p].on]

LEMMA CheckLabels ==
    ASSUME TypeOK, NEW p \in Procs, Step(p), pc'[p] \in {"checking", "deciding"}
    PROVE  MarkChecking(p) \/ pc[p] = "checking"
BY DEF TypeOK, Step, Acquire, GiveUp, SkipCancelled, Release, Return, MarkChecking, RunCheck,
   Evaluating, RestoreCancelledCheck, RecordHealthy, RecordFailure, SuppressRecovery, BeginForced,
   ReadStatusBefore, AbandonStart, StartRecovery, InterruptRecovery, BeginAction,
   EndAction, Advance, EndRecheck, EndVerify, RestoreStatus, RecordRecovery,
   RecordFailedRecovery, Goto

LEMMA FinishLabels ==
    ASSUME TypeOK, NEW p \in Procs, Step(p), pc'[p] = "finishing"
    PROVE  EndAction(p) \/ EndRecheck(p) \/ EndVerify(p)
BY DEF TypeOK, Step, Acquire, GiveUp, SkipCancelled, Release, Return, MarkChecking, RunCheck,
   Evaluating, RestoreCancelledCheck, RecordHealthy, RecordFailure, SuppressRecovery, BeginForced,
   ReadStatusBefore, AbandonStart, StartRecovery, InterruptRecovery, BeginAction,
   RestoreStatus, RecordRecovery, RecordFailedRecovery, Goto

LEMMA FinishStep ==
    ASSUME TypeOK, NEW p \in Procs, Step(p), pc'[p] = "finishing", ~frame'[p].bad
    PROVE  frame'[p].ran = NumChecks[frame'[p].on]
<1>1. /\ frame \in [Procs -> Frame] /\ frame[p] \in Frame
      /\ frame[p].ran \in Nat /\ pc \in [Procs -> PCs]
  BY DEF TypeOK, Frame
<1>2. CASE EndAction(p)
  <2>1. frame' \in {[frame EXCEPT ![p] = [frame[p] EXCEPT !.ran = 0, !.bad = TRUE]]}
    BY <1>1, <1>2 DEF EndAction, Advance, Goto
  <2>2. frame'[p].bad
    BY <1>1, <2>1 DEF Frame
  <2> QED
    BY <2>2
<1>3. CASE EndRecheck(p) \/ EndVerify(p)
  <2>1. frame' = frame /\ Evaluated(p) /\ ~Cancelled(p)
    BY <1>1, <1>3 DEF EndRecheck, EndVerify, Advance, Goto
  <2> QED
    BY <2>1 DEF Evaluated
<1> QED
  BY <1>2, <1>3, FinishLabels

LEMMA JobInvariance == TypeOK /\ JobInv /\ FinishInv /\ [Next]_vars => JobInv' /\ FinishInv'
<1> SUFFICES ASSUME TypeOK, JobInv, FinishInv, [Next]_vars, NEW q \in Procs,
                    pc'[q] \in {"checking", "deciding", "prechecking", "starting", "finishing"}
             PROVE  /\ pc'[q] \in {"checking", "deciding"} => frame'[q].job = "check"
                    /\ pc'[q] \in {"prechecking", "starting"} => frame'[q].job = "recover"
                    /\ pc'[q] = "finishing" /\ ~frame'[q].bad => frame'[q].ran = NumChecks[frame'[q].on]
  BY DEF JobInv, FinishInv
<1>1. ASSUME pc'[q] = pc[q], frame'[q] = frame[q]
      PROVE  /\ pc'[q] \in {"checking", "deciding"} => frame'[q].job = "check"
             /\ pc'[q] \in {"prechecking", "starting"} => frame'[q].job = "recover"
             /\ pc'[q] = "finishing" /\ ~frame'[q].bad => frame'[q].ran = NumChecks[frame'[q].on]
  BY <1>1 DEF JobInv, FinishInv
<1>2. ASSUME NEW p \in Procs, Step(p)
      PROVE  /\ pc'[q] \in {"checking", "deciding"} => frame'[q].job = "check"
             /\ pc'[q] \in {"prechecking", "starting"} => frame'[q].job = "recover"
             /\ pc'[q] = "finishing" /\ ~frame'[q].bad => frame'[q].ran = NumChecks[frame'[q].on]
  <2>1. CASE q # p
    BY <1>1, <1>2, <2>1, OtherFrames
  <2>2. CASE q = p
    <3>1. pc'[p] \in InCallback
      BY <2>2 DEF InCallback, PCs
    <3>2. frame'[p].job = frame[p].job
      BY <1>2, <3>1, OtherFrames
    <3>3. pc'[p] \in {"checking", "deciding"} => frame[p].job = "check"
      BY <1>2, CheckLabels DEF JobInv, MarkChecking
    <3>4. pc'[p] \in {"prechecking", "starting"} => frame[p].job = "recover"
      BY <1>2, RecoverLabels DEF JobInv, BeginForced
    <3>5. pc'[p] = "finishing" /\ ~frame'[p].bad => frame'[p].ran = NumChecks[frame'[p].on]
      BY <1>2, FinishStep
    <3> QED
      BY <2>2, <3>2, <3>3, <3>4, <3>5
  <2> QED
    BY <2>1, <2>2
<1>3. CASE \E m \in Monitors : LoopTick(m) \/ LoopStop(m)
  BY <1>1, <1>3 DEF LoopTick, LoopStop, Goto, TypeOK
<1>4. CASE \E r \in Requests : Expire(r)
  BY <1>1, <1>4 DEF Expire
<1>5. CASE \E r \in Requests, m \in Monitors, job \in {"check", "recover"} : Arrive(r, m, job)
  BY <1>1, <1>5 DEF Arrive, Goto, TypeOK
<1>6. CASE Terminate \/ Tick \/ UNCHANGED vars
  BY <1>1, <1>6 DEF Terminate, Tick, vars
<1>7. CASE Halt
  BY <1>7 DEF Halt
<1>8. CASE Start
  BY <1>8, StartFiles
<1> QED
  BY <1>2, <1>3, <1>4, <1>5, <1>6, <1>7, <1>8 DEF Next

\* A step of p from one of the labels to one of others, with what it makes of
\* p's "before", of its monitor, and of the history
Row(p, from, to, before, status, results, events) ==
    LET m == frame[p].on IN
    /\ pc[p] \in from /\ pc'[p] \in to
    /\ pc'[p] \in AtWork \cup {"starting"} => frame'[p].before = before
    /\ current'[m].status = status /\ current'[m].results = results
    /\ events \in Seq(Events)
    /\ \A i \in DOMAIN events : events[i].mon = m
    /\ history' = TrimToLimit(history \o events)

Table(p) ==
    LET m == frame[p].on
        c == current[m]
        b == frame[p].before
    IN
    \/ Row(p, {"entered"}, {"checking"}, c.status, "checking", c.results, <<>>)
    \/ Row(p, {"checking"}, {"checking"}, b, c.status, c.results, <<>>)
    \/ Row(p, {"checking"} \cup Recovering, {"releasing"}, b, b, c.results, <<>>)
    \/ Row(p, {"checking"}, {"releasing"}, b, "healthy", Full(m),
           IF ShouldRecordHealthyEvent(b) THEN <<Event(m, "check_succeeded")>> ELSE <<>>)
    \/ \E results : Row(p, {"checking"}, {"deciding", "releasing"}, b, "degraded", results,
                         <<Event(m, "check_failed")>>)
    \/ Row(p, {"deciding"}, {"releasing"}, b, "failed", c.results, <<>>)
    \/ Row(p, {"deciding"}, {"releasing"}, b, "failed", c.results, <<Event(m, "recovery_exhausted")>>)
    \/ Row(p, {"prechecking"}, {"starting"}, c.status, c.status, c.results, <<>>)
    \/ Row(p, {"deciding"}, {"acting", "restoring"}, "degraded", "recovering", c.results,
           <<Event(m, "recovery_started")>>)
    \/ Row(p, {"starting"}, {"acting", "restoring"}, b, "recovering", c.results,
           <<Event(m, "recovery_started")>>)
    \/ Row(p, Recovering, Recovering, b, c.status, c.results, <<>>)
    \/ Row(p, {"finishing"}, {"releasing"}, b, "healthy", Full(m), <<Event(m, "recovery_succeeded")>>)
    \/ \E results : Row(p, {"finishing"}, {"releasing"}, b, "failed", results,
                         <<Event(m, "recovery_failed")>>)
    \/ \E results : Row(p, {"finishing"}, {"releasing"}, b, "failed", results,
                         <<Event(m, "recovery_failed")>> \o <<Event(m, "recovery_exhausted")>>)
    \/ Row(p, PCs \ AtWork, PCs \ (AtWork \cup {"starting", "deciding"}), b, c.status, c.results, <<>>)

LEMMA EventsOf ==
    ASSUME now \in Nat, NEW m \in Monitors
    PROVE  /\ <<>> \in Seq(Events)
           /\ \A type \in EventTypes : /\ <<Event(m, type)>> \in Seq(Events)
                                       /\ Event(m, type).mon = m /\ Event(m, type).type = type
           /\ \A t, u \in EventTypes :
                LET both == <<Event(m, t)>> \o <<Event(m, u)>> IN
                /\ both \in Seq(Events) /\ Len(both) = 2 /\ both[2] = Event(m, u)
                /\ \A i \in DOMAIN both : both[i].mon = m
<1>1. \A type \in EventTypes : /\ Event(m, type) \in Events
                                /\ Event(m, type).mon = m /\ Event(m, type).type = type
  BY EventType DEF Event
<1>2. ASSUME NEW e \in Events, NEW f \in Events, e.mon = m, f.mon = m
      PROVE  LET both == <<e>> \o <<f>> IN
             /\ both \in Seq(Events) /\ Len(both) = 2 /\ both[2] = f
             /\ \A i \in DOMAIN both : both[i].mon = m
  BY <1>2
<1> QED
  BY <1>1, <1>2


LEMMA UpdateOwn ==
    ASSUME TypeOK, NEW m \in Monitors, NEW s, NEW events, NEW o, Update(m, s, events, o)
    PROVE  current'[m] = s /\ history' = TrimToLimit(history \o events)
BY DEF Update, TypeOK

\* The steps that save nothing
LEMMA QuietTable ==
    ASSUME TypeOK, NEW p \in Procs, frame[p].on \in Monitors,
           \/ Acquire(p) \/ GiveUp(p) \/ SkipCancelled(p) \/ Release(p) \/ RunCheck(p)
           \/ BeginForced(p) \/ ReadStatusBefore(p) \/ AbandonStart(p) \/ InterruptRecovery(p)
           \/ BeginAction(p) \/ EndAction(p) \/ EndRecheck(p) \/ EndVerify(p)
    PROVE  Table(p)
<1> DEFINE m == frame[p].on
           c == current[m]
           b == frame[p].before
<1>1. /\ pc \in [Procs -> PCs] /\ frame \in [Procs -> Frame] /\ frame[p] \in Frame
      /\ <<>> \in Seq(Events)
  BY DEF TypeOK
<1>2. UNCHANGED memory
  BY DEF Acquire, GiveUp, SkipCancelled, Release, RunCheck, BeginForced, ReadStatusBefore, AbandonStart,
         InterruptRecovery, BeginAction, EndAction, EndRecheck, EndVerify
<1>3. current'[m] = c /\ history' = TrimToLimit(history \o <<>>)
  BY <1>2, TrimShort DEF memory, TypeOK
<1>4. ASSUME NEW from, NEW to, NEW before, pc[p] \in from, pc'[p] \in to,
             pc'[p] \in AtWork \cup {"starting"} => frame'[p].before = before
      PROVE  Row(p, from, to, before, c.status, c.results, <<>>)
  BY <1>1, <1>3, <1>4 DEF Row
<1>5. CASE Acquire(p) \/ GiveUp(p) \/ SkipCancelled(p) \/ Release(p) \/ BeginForced(p) \/ AbandonStart(p)
  <2>1. pc[p] \in PCs \ AtWork /\ pc'[p] \in PCs \ (AtWork \cup {"starting", "deciding"})
    BY <1>1, <1>5 DEF Acquire, GiveUp, SkipCancelled, Release, Return, BeginForced, AbandonStart, AtStart,
                      Goto, AtWork, Recovering, PCs
  <2> QED
    BY <1>4, <2>1 DEF Table
<1>6. CASE RunCheck(p)
  <2>1. /\ pc' = pc /\ pc[p] \in {"checking", "prechecking", "rechecking", "verifying"}
        /\ frame'[p].before = b
    <3>1. PICK n, bad : frame' = [frame EXCEPT ![p] = [frame[p] EXCEPT !.ran = n, !.bad = bad]]
      BY <1>6 DEF RunCheck
    <3>2. frame'[p].before = b
      BY <1>1, <3>1 DEF Frame
    <3> QED
      BY <1>6, <3>2 DEF RunCheck, Evaluating
  <2>2. CASE pc[p] = "checking"
    BY <1>4, <2>1, <2>2 DEF Table
  <2>3. CASE pc[p] = "prechecking"
    <3>1. pc[p] \in PCs \ AtWork /\ pc'[p] \in PCs \ (AtWork \cup {"starting", "deciding"})
      BY <2>1, <2>3 DEF AtWork, Recovering, PCs
    <3> QED
      BY <1>4, <2>1, <3>1 DEF Table
  <2>4. CASE pc[p] \in {"rechecking", "verifying"}
    <3>1. pc[p] \in Recovering /\ pc'[p] \in Recovering
      BY <2>1, <2>4 DEF Recovering
    <3> QED
      BY <1>4, <2>1, <3>1 DEF Table
  <2> QED
    BY <2>1, <2>2, <2>3, <2>4
<1>7. CASE ReadStatusBefore(p)
  <2>1. CASE pc'[p] = "releasing"
    <3>1. pc[p] \in PCs \ AtWork /\ pc'[p] \in PCs \ (AtWork \cup {"starting", "deciding"})
      BY <1>7, <2>1 DEF ReadStatusBefore, AtWork, Recovering, PCs
    <3>2. pc'[p] \notin AtWork \cup {"starting"}
      BY <2>1 DEF AtWork, Recovering
    <3> QED
      BY <1>4, <3>1, <3>2 DEF Table
  <2>2. CASE pc'[p] # "releasing"
    <3>1. pc[p] = "prechecking" /\ pc'[p] = "starting"
          /\ frame' = [frame EXCEPT ![p].before = c.status]
      BY <1>1, <1>7, <2>2 DEF ReadStatusBefore, Goto
    <3>2. frame'[p].before = c.status
      BY <1>1, <3>1 DEF Frame
    <3> QED
      BY <1>4, <3>1, <3>2 DEF Table
  <2> QED
    BY <2>1, <2>2
<1>8. CASE InterruptRecovery(p) \/ BeginAction(p) \/ EndAction(p) \/ EndRecheck(p) \/ EndVerify(p)
  <2>1. pc[p] \in Recovering /\ pc'[p] \in Recovering
    BY <1>1, <1>8 DEF InterruptRecovery, BeginAction, EndAction, EndRecheck, EndVerify, Advance, Goto, Recovering
  <2>2. frame'[p].before = b
    <3>1. \/ frame' = frame
          \/ Advance(p)
          \/ \E bad \in BOOLEAN :
               frame' = [frame EXCEPT ![p] = [frame[p] EXCEPT !.ran = 0, !.bad = bad]]
      BY <1>8 DEF InterruptRecovery, BeginAction, EndAction, EndRecheck, EndVerify
    <3>2. ASSUME NEW bad \in BOOLEAN,
                 frame' = [frame EXCEPT ![p] = [frame[p] EXCEPT !.ran = 0, !.bad = bad]]
          PROVE  frame'[p].before = b
      BY <1>1, <3>2 DEF Frame
    <3>3. CASE Advance(p)
      <4>1. CASE frame' = [frame EXCEPT ![p].step = @ + 1]
        BY <1>1, <4>1 DEF Frame
      <4> QED
        BY <3>2, <3>3, <4>1 DEF Advance
    <3> QED
      BY <3>1, <3>2, <3>3
  <2> QED
    BY <1>4, <2>1, <2>2 DEF Table
<1> QED
  BY <1>5, <1>6, <1>7, <1>8

LEMMA StatusTable ==
    ASSUME TypeOK, JobInv, FinishInv, NEW p \in Procs, Step(p)
    PROVE  Table(p)
<1> DEFINE m == frame[p].on
           c == current[m]
           b == frame[p].before
<1>1. /\ m \in Monitors /\ c \in MonitorState /\ now \in Nat
      /\ pc \in [Procs -> PCs] /\ frame \in [Procs -> Frame] /\ frame[p] \in Frame
      /\ NumChecks[m] \in Nat \ {0}
  BY StepBusy, BusyOn, ConfigAssumption DEF TypeOK
<1>2. /\ <<>> \in Seq(Events)
      /\ \A type \in EventTypes : /\ <<Event(m, type)>> \in Seq(Events)
                                  /\ Event(m, type).mon = m /\ Event(m, type).type = type
      /\ \A t, u \in EventTypes :
           LET both == <<Event(m, t)>> \o <<Event(m, u)>> IN
           /\ both \in Seq(Events) /\ Len(both) = 2 /\ both[2] = Event(m, u)
           /\ \A i \in DOMAIN both : both[i].mon = m
  BY <1>1, EventsOf
<1>3. {"check_succeeded", "check_failed", "recovery_started", "recovery_succeeded", "recovery_failed",
       "recovery_exhausted"} \subseteq EventTypes
  BY DEF EventTypes
<1>4. ASSUME NEW from, NEW to, NEW before, NEW s, NEW events, NEW o \in SaveOutcomes,
             pc[p] \in from, pc'[p] \in to, Update(m, s, events, o),
             pc'[p] \in AtWork \cup {"starting"} => frame'[p].before = before,
             events \in Seq(Events), \A i \in DOMAIN events : events[i].mon = m
      PROVE  Row(p, from, to, before, s.status, s.results, events)
  BY <1>1, <1>4, UpdateOwn DEF Row
<1>14. ASSUME NEW from, NEW to, NEW before, NEW s, NEW o \in SaveOutcomes,
              pc[p] \in from, pc'[p] \in to, Update(m, s, <<>>, o),
              pc'[p] \in AtWork \cup {"starting"} => frame'[p].before = before
       PROVE  Row(p, from, to, before, s.status, s.results, <<>>)
  <2>1. DOMAIN <<>> = {}
    OBVIOUS
  <2>2. current'[m] = s /\ history' = TrimToLimit(history \o <<>>)
    BY <1>1, <1>14, UpdateOwn
  <2>3. <<>> \in Seq(Events) /\ \A i \in DOMAIN <<>> : <<>>[i].mon = m
    BY <2>1
  <2> QED
    BY <1>14, <2>2, <2>3 DEF Row
<1>5. "releasing" \notin AtWork \cup {"starting"} /\ "deciding" \notin AtWork \cup {"starting"}
  BY DEF AtWork, Recovering
<1>6. CASE MarkChecking(p)
  <2>1. pc[p] = "entered" /\ pc'[p] = "checking" /\ frame'[p].before = c.status
    BY <1>1, <1>6 DEF MarkChecking, Goto, Frame
  <2> DEFINE s == [c EXCEPT !.status = "checking"]
  <2>2. s.status = "checking" /\ s.results = c.results
    BY <1>1 DEF MonitorState
  <2>3. PICK o \in SaveOutcomes : Update(m, s, <<>>, o)
    BY <1>6 DEF MarkChecking
  <2>4. Row(p, {"entered"}, {"checking"}, c.status, s.status, s.results, <<>>)
    BY <1>14, <2>1, <2>3
  <2> QED
    BY <2>2, <2>4 DEF Table
<1>7. CASE RestoreCancelledCheck(p) \/ RestoreStatus(p)
  <2>1. pc[p] \in {"checking"} \cup Recovering /\ pc'[p] = "releasing"
    BY <1>1, <1>7 DEF RestoreCancelledCheck, RestoreStatus, Goto, Recovering
  <2> DEFINE s == [c EXCEPT !.status = b]
  <2>2. s.status = b /\ s.results = c.results
    BY <1>1 DEF MonitorState
  <2>3. PICK o \in SaveOutcomes : Update(m, s, <<>>, o)
    BY <1>7 DEF RestoreCancelledCheck, RestoreStatus, PutBack
  <2>4. Row(p, {"checking"} \cup Recovering, {"releasing"}, b, s.status, s.results, <<>>)
    BY <1>14, <1>5, <2>1, <2>3
  <2> QED
    BY <2>2, <2>4 DEF Table
<1>8. CASE RecordHealthy(p)
  <2> DEFINE s == [c EXCEPT !.status = "healthy", !.consecutive = 0, !.exhausted = FALSE, !.results = Results(p)]
             events == IF ShouldRecordHealthyEvent(b) THEN <<Event(m, "check_succeeded")>> ELSE <<>>
  <2>1. pc[p] = "checking" /\ pc'[p] = "releasing"
    BY <1>1, <1>8 DEF RecordHealthy, Goto
  <2>2. frame[p].ran = NumChecks[m] /\ frame[p].bad = FALSE
    <3>1. frame[p].ran = NumChecks[m] /\ ~frame[p].bad
      BY <1>8 DEF RecordHealthy, Passed, Evaluated
    <3>2. frame[p].bad \in BOOLEAN
      BY <1>1 DEF Frame
    <3> QED
      BY <3>1, <3>2
  <2>3. s.status = "healthy" /\ s.results = Full(m)
    BY <1>1, <2>2 DEF MonitorState, Results, Full
  <2>4. PICK o \in SaveOutcomes : Update(m, s, events, o)
    BY <1>8 DEF RecordHealthy
  <2>5. events \in Seq(Events) /\ \A i \in DOMAIN events : events[i].mon = m
    BY <1>2, <1>3
  <2> HIDE DEF s, events
  <2>6. Row(p, {"checking"}, {"releasing"}, b, s.status, s.results, events)
    BY <1>4, <1>5, <2>1, <2>4, <2>5
  <2> QED
    BY <2>3, <2>6 DEF Table, events
<1>9. CASE RecordFailure(p)
  <2> DEFINE s == [c EXCEPT !.status = "degraded", !.consecutive = c.consecutive + 1, !.results = Results(p)]
             events == <<Event(m, "check_failed")>>
  <2>1. pc[p] = "checking" /\ pc'[p] \in {"deciding", "releasing"}
    BY <1>1, <1>9 DEF RecordFailure, Goto
  <2>2. s.status = "degraded"
    BY <1>1 DEF MonitorState
  <2>3. PICK o \in SaveOutcomes : Update(m, s, events, o)
    BY <1>9 DEF RecordFailure
  <2>4. events \in Seq(Events) /\ \A i \in DOMAIN events : events[i].mon = m
    BY <1>2, <1>3
  <2>5. Row(p, {"checking"}, {"deciding", "releasing"}, b, s.status, s.results, events)
    BY <1>4, <1>5, <2>1, <2>3, <2>4
  <2> QED
    BY <2>2, <2>5 DEF Table
<1>10. CASE SuppressRecovery(p)
  <2> DEFINE s == [c EXCEPT !.status = "failed"]
             events == <<Event(m, "recovery_exhausted")>>
  <2>1. pc[p] = "deciding" /\ pc'[p] = "releasing"
    BY <1>1, <1>10 DEF SuppressRecovery, Goto
  <2>2. /\ s.status = "failed" /\ s.results = c.results
        /\ Exhaust(m, c).status = "failed" /\ Exhaust(m, c).results = c.results
    BY <1>1 DEF MonitorState, Exhaust
  <2>3. PICK o \in SaveOutcomes : Update(m, s, <<>>, o) \/ Update(m, Exhaust(m, c), events, o)
    BY <1>10 DEF SuppressRecovery
  <2>4. events \in Seq(Events) /\ \A i \in DOMAIN events : events[i].mon = m
    BY <1>2, <1>3
  <2>5. CASE Update(m, s, <<>>, o)
    <3>1. Row(p, {"deciding"}, {"releasing"}, b, s.status, s.results, <<>>)
      BY <1>14, <1>5, <2>1, <2>5
    <3> QED
      BY <2>2, <3>1 DEF Table
  <2>6. CASE Update(m, Exhaust(m, c), events, o)
    <3>1. Row(p, {"deciding"}, {"releasing"}, b, Exhaust(m, c).status, Exhaust(m, c).results, events)
      BY <1>4, <1>5, <2>1, <2>4, <2>6
    <3> QED
      BY <2>2, <3>1 DEF Table
  <2> QED
    BY <2>3, <2>5, <2>6
<1>11. CASE StartRecovery(p)
  <2> DEFINE s == [c EXCEPT !.status = "recovering", !.cooldownUntil = CooldownEnd(m)]
             events == <<Event(m, "recovery_started")>>
             before == IF frame[p].job = "check" THEN "degraded" ELSE b
  <2>1. PICK o \in SaveOutcomes, failed \in BOOLEAN :
          /\ Update(m, s, events, o)
          /\ pc' = [pc EXCEPT ![p] = IF SaveFails(o, TRUE) THEN "restoring" ELSE "acting"]
          /\ frame' = [frame EXCEPT ![p] =
                [frame[p] EXCEPT !.before = before, !.step = 1, !.failed = failed]]
    <3>1. \A o \in SaveOutcomes : (SaveFails(o, TRUE) /\ frame[p].job = "recover") \in BOOLEAN
      OBVIOUS
    <3> QED
      BY <1>11, <3>1 DEF StartRecovery, Goto
  <2>2. pc[p] \in {"deciding", "starting"} /\ pc'[p] \in {"acting", "restoring"} /\ frame'[p].before = before
    BY <1>1, <1>11, <2>1 DEF StartRecovery, AtStart, Frame
  <2>3. s.status = "recovering" /\ s.results = c.results
    BY <1>1 DEF MonitorState
  <2>4. events \in Seq(Events) /\ \A i \in DOMAIN events : events[i].mon = m
    BY <1>2, <1>3
  <2>5. CASE pc[p] = "deciding"
    <3>1. before = "degraded"
      BY <2>5 DEF JobInv
    <3>2. Row(p, {"deciding"}, {"acting", "restoring"}, "degraded", s.status, s.results, events)
      BY <1>4, <2>1, <2>2, <2>4, <2>5, <3>1
    <3> QED
      BY <2>3, <3>2 DEF Table
  <2>6. CASE pc[p] = "starting"
    <3>1. before = b
      BY <2>6 DEF JobInv
    <3>2. Row(p, {"starting"}, {"acting", "restoring"}, b, s.status, s.results, events)
      BY <1>4, <2>1, <2>2, <2>4, <2>6, <3>1
    <3> QED
      BY <2>3, <3>2 DEF Table
  <2> QED
    BY <2>2, <2>5, <2>6
<1>12. CASE RecordRecovery(p)
  <2> DEFINE s == [c EXCEPT !.status = "healthy", !.consecutive = 0, !.exhausted = FALSE,
                            !.cooldownUntil = CooldownEnd(m), !.results = PostResults(p)]
             events == <<Event(m, "recovery_succeeded")>>
  <2>1. pc[p] = "finishing" /\ pc'[p] = "releasing"
    BY <1>1, <1>12 DEF RecordRecovery, Goto
  <2>2. frame[p].ran = NumChecks[m] /\ frame[p].bad = FALSE
    <3>1. ~frame[p].bad
      BY <1>12 DEF RecordRecovery
    <3>2. frame[p].bad \in BOOLEAN
      BY <1>1 DEF Frame
    <3> QED
      BY <2>1, <3>1, <3>2 DEF FinishInv
  <2>3. s.status = "healthy" /\ s.results = Full(m)
    <3>1. s.status = "healthy" /\ s.results = PostResults(p)
      BY <1>1 DEF MonitorState
    <3>2. frame[p].ran > 0
      BY <1>1, <2>2
    <3> QED
      BY <2>2, <3>1, <3>2 DEF PostResults, Results, Full
  <2>4. PICK o \in SaveOutcomes : Update(m, s, events, o)
    BY <1>12 DEF RecordRecovery
  <2>5. events \in Seq(Events) /\ \A i \in DOMAIN events : events[i].mon = m
    BY <1>2, <1>3
  <2>6. Row(p, {"finishing"}, {"releasing"}, b, s.status, s.results, events)
    BY <1>4, <1>5, <2>1, <2>4, <2>5
  <2> QED
    BY <2>3, <2>6 DEF Table
<1>13. CASE RecordFailedRecovery(p)
  <2> DEFINE s == [c EXCEPT !.status = "failed", !.recoveryFailures = @ + 1,
                            !.cooldownUntil = CooldownEnd(m), !.results = PostResults(p)]
             failed == <<Event(m, "recovery_failed")>>
             both == <<Event(m, "recovery_failed")>> \o <<Event(m, "recovery_exhausted")>>
  <2>1. pc[p] = "finishing" /\ pc'[p] = "releasing"
    BY <1>1, <1>13 DEF RecordFailedRecovery, Goto
  <2>2. s.status = "failed" /\ Exhaust(m, s).status = "failed"
    BY <1>1 DEF MonitorState, Exhaust
  <2>3. PICK o \in SaveOutcomes : Update(m, s, failed, o) \/ Update(m, Exhaust(m, s), both, o)
    BY <1>2, <1>3, <1>13 DEF RecordFailedRecovery
  <2>4. /\ failed \in Seq(Events) /\ \A i \in DOMAIN failed : failed[i].mon = m
        /\ both \in Seq(Events) /\ \A i \in DOMAIN both : both[i].mon = m
    BY <1>2, <1>3
  <2>5. CASE Update(m, s, failed, o)
    <3>1. Row(p, {"finishing"}, {"releasing"}, b, s.status, s.results, failed)
      BY <1>4, <1>5, <2>1, <2>4, <2>5
    <3> QED
      BY <2>2, <3>1 DEF Table
  <2>6. CASE Update(m, Exhaust(m, s), both, o)
    <3>1. Row(p, {"finishing"}, {"releasing"}, b, Exhaust(m, s).status, Exhaust(m, s).results, both)
      BY <1>4, <1>5, <2>1, <2>4, <2>6
    <3> QED
      BY <2>2, <3>1 DEF Table
  <2> QED
    BY <2>3, <2>5, <2>6
<1> QED
  BY <1>1, <1>6, <1>7, <1>8, <1>9, <1>10, <1>11, <1>12, <1>13, QuietTable DEF Step


-----------------------------------------------------------------------------
(* Evidence *)

Good(s, m) == s.status = "healthy" => s.results = Full(m)

\* Inductive: a status that is put back had its evidence, which is still there.
EvidenceInv ==
    /\ \A m \in Monitors : Good(current[m], m) /\ Good(stateFile[m], m)
    /\ \A p \in Procs : pc[p] \in AtWork \cup {"starting"} /\ frame[p].before = "healthy" =>
                        current[frame[p].on].results = Full(frame[p].on)

LEMMA EvidenceOwn ==
    ASSUME TypeOK, EvidenceInv, NEW p \in Procs, frame[p].on \in Monitors, Table(p)
    PROVE  LET m == frame[p].on IN
           /\ Good(current'[m], m)
           /\ pc'[p] \in AtWork \cup {"starting"} /\ frame'[p].before = "healthy" =>
                current'[m].results = Full(m)
<1> DEFINE m == frame[p].on
           c == current[m]
           b == frame[p].before
           E == /\ Good(current'[m], m)
                /\ pc'[p] \in AtWork \cup {"starting"} /\ frame'[p].before = "healthy" =>
                     current'[m].results = Full(m)
<1>1. /\ c.status = "healthy" => c.results = Full(m)
      /\ pc[p] \in AtWork \cup {"starting"} /\ b = "healthy" => c.results = Full(m)
  BY DEF EvidenceInv, Good
<1>2. ASSUME NEW from, NEW to, NEW before, NEW status, NEW results, NEW events,
             Row(p, from, to, before, status, results, events),
             before = "healthy" \/ status = "healthy" =>
               results = Full(m) \/ (to \cap (AtWork \cup {"starting"}) = {} /\ status # "healthy")
      PROVE  E
  BY <1>2 DEF Row, Good
<1>3. Recovering \subseteq AtWork /\ "checking" \in AtWork /\ "finishing" \in AtWork
      /\ "releasing" \notin AtWork \cup {"starting"} /\ "deciding" \notin AtWork \cup {"starting"}
      /\ (PCs \ (AtWork \cup {"starting", "deciding"})) \cap (AtWork \cup {"starting"}) = {}
  BY DEF AtWork, Recovering
<1>4. CASE \/ Row(p, {"entered"}, {"checking"}, c.status, "checking", c.results, <<>>)
           \/ Row(p, {"checking"}, {"checking"}, b, c.status, c.results, <<>>)
           \/ Row(p, {"checking"} \cup Recovering, {"releasing"}, b, b, c.results, <<>>)
  BY <1>1, <1>3, <1>4 DEF Row, Good
<1>5. CASE \/ Row(p, {"deciding"}, {"releasing"}, b, "failed", c.results, <<>>)
           \/ Row(p, {"deciding"}, {"releasing"}, b, "failed", c.results, <<Event(m, "recovery_exhausted")>>)
           \/ Row(p, {"prechecking"}, {"starting"}, c.status, c.status, c.results, <<>>)
  BY <1>1, <1>3, <1>5 DEF Row, Good
<1>6. CASE \/ Row(p, {"deciding"}, {"acting", "restoring"}, "degraded", "recovering", c.results,
                  <<Event(m, "recovery_started")>>)
           \/ Row(p, {"starting"}, {"acting", "restoring"}, b, "recovering", c.results,
                  <<Event(m, "recovery_started")>>)
           \/ Row(p, Recovering, Recovering, b, c.status, c.results, <<>>)
           \/ Row(p, PCs \ AtWork, PCs \ (AtWork \cup {"starting", "deciding"}), b, c.status, c.results, <<>>)
  BY <1>1, <1>3, <1>6 DEF Row, Good
<1>7. CASE \/ Row(p, {"checking"}, {"releasing"}, b, "healthy", Full(m),
                  IF ShouldRecordHealthyEvent(b) THEN <<Event(m, "check_succeeded")>> ELSE <<>>)
           \/ Row(p, {"finishing"}, {"releasing"}, b, "healthy", Full(m), <<Event(m, "recovery_succeeded")>>)
  BY <1>3, <1>7 DEF Row, Good
<1>8. CASE \/ \E results : Row(p, {"checking"}, {"deciding", "releasing"}, b, "degraded", results,
                                <<Event(m, "check_failed")>>)
           \/ \E results : Row(p, {"finishing"}, {"releasing"}, b, "failed", results,
                                <<Event(m, "recovery_failed")>>)
           \/ \E results : Row(p, {"finishing"}, {"releasing"}, b, "failed", results,
                                <<Event(m, "recovery_failed")>> \o <<Event(m, "recovery_exhausted")>>)
  BY <1>3, <1>8 DEF Row, Good
<1> QED
  BY <1>4, <1>5, <1>6, <1>7, <1>8 DEF Table

\* What p changes in memory is its own monitor's, and nobody else is at work on it.
LEMMA OthersKeep ==
    ASSUME TypeOK, LockInv, NEW p \in Procs, Step(p),
           NEW q \in Procs, q # p, pc[q] \in InCallback
    PROVE  /\ pc'[q] = pc[q] /\ frame'[q] = frame[q] /\ frame[q].on \in Monitors
           /\ current'[frame[q].on] = current[frame[q].on]
           /\ frame[p].on # frame[q].on \/ history' = history
<1>1. pc'[q] = pc[q] /\ frame'[q] = frame[q] /\ frame[q].on \in Monitors
  BY OtherFrames, CallbackBusy, BusyOn
<1>2. CASE UNCHANGED <<memory, files>>
  BY <1>1, <1>2 DEF memory
<1>3. CASE Saves(p) /\ ~ UNCHANGED <<memory, files>>
  <2>1. pc[p] \in InCallback
    BY <1>3, MovingSteps DEF Moves, Acquire, GiveUp, Release
  <2>2. frame[p].on # frame[q].on
    BY <2>1, Alone
  <2> QED
    BY <1>1, <2>2, OtherMonitors
<1> QED
  BY <1>1, <1>2, <1>3, SavingSteps

LEMMA EvidenceInvariance ==
    TypeOK /\ LockInv /\ JobInv /\ FinishInv /\ EvidenceInv /\ [Next]_vars => EvidenceInv'
<1> SUFFICES ASSUME TypeOK, LockInv, JobInv, FinishInv, EvidenceInv, [Next]_vars PROVE EvidenceInv'
  OBVIOUS
<1>1. ASSUME NEW p \in Procs, Step(p) PROVE EvidenceInv'
  <2> DEFINE m == frame[p].on
  <2>1. m \in Monitors /\ Table(p)
    BY <1>1, StepBusy, BusyOn, StatusTable
  <2>2. /\ Good(current'[m], m)
        /\ pc'[p] \in AtWork \cup {"starting"} /\ frame'[p].before = "healthy" =>
             current'[m].results = Full(m)
    BY <2>1, EvidenceOwn
  <2>3. ASSUME NEW k \in Monitors PROVE Good(current'[k], k) /\ Good(stateFile'[k], k)
    <3>1. Good(current'[k], k)
      <4>1. CASE k = m
        BY <2>2, <4>1
      <4>2. CASE k # m
        BY <1>1, <4>2, OtherMonitors DEF EvidenceInv
      <4> QED
        BY <4>1, <4>2
    <3> QED
      BY <1>1, <3>1, OtherMonitors DEF EvidenceInv
  <2>4. ASSUME NEW q \in Procs, pc'[q] \in AtWork \cup {"starting"}, frame'[q].before = "healthy"
        PROVE  current'[frame'[q].on].results = Full(frame'[q].on)
    <3>1. pc'[q] \in InCallback
      BY <2>4 DEF AtWork, Recovering, InCallback, PCs
    <3>2. CASE q = p
      BY <1>1, <2>2, <2>4, <3>1, <3>2, OtherFrames
    <3>3. CASE q # p
      <4>1. pc[q] \in InCallback
        BY <1>1, <3>1, <3>3, OtherFrames
      <4> QED
        BY <1>1, <2>4, <3>3, <4>1, OthersKeep DEF EvidenceInv
    <3> QED
      BY <3>2, <3>3
  <2> QED
    BY <2>3, <2>4 DEF EvidenceInv, Good, Full
<1>2. ASSUME UNCHANGED <<current, stateFile>>,
             \A q \in Procs : pc'[q] \in AtWork \cup {"starting"} => pc'[q] = pc[q] /\ frame'[q] = frame[q]
      PROVE  EvidenceInv'
  BY <1>2 DEF EvidenceInv, Good, Full
<1>3. {"off", "idle", "locking"} \cap (AtWork \cup {"starting"}) = {}
  BY DEF AtWork, Recovering
<1>4. CASE \E m \in Monitors : LoopTick(m) \/ LoopStop(m)
  BY <1>2, <1>3, <1>4 DEF LoopTick, LoopStop, Goto, TypeOK, memory, files
<1>5. CASE \E r \in Requests : Expire(r)
  BY <1>2, <1>5 DEF Expire, memory, files
<1>6. CASE \E r \in Requests, m \in Monitors, job \in {"check", "recover"} : Arrive(r, m, job)
  BY <1>2, <1>3, <1>6 DEF Arrive, Goto, TypeOK, memory, files
<1>7. CASE Terminate \/ Tick \/ UNCHANGED vars
  BY <1>2, <1>7 DEF Terminate, Tick, vars, memory, files
<1>8. CASE Halt
  BY <1>3, <1>8 DEF Halt, files, EvidenceInv, Good, Full
<1>9. CASE Start
  <2>1. PICK on \in SUBSET Monitors, o \in SaveOutcomes :
          /\ Persist(Loaded(on), TrimToLimit(eventsFile), TRUE, o)
          /\ current' = IF SaveFails(o, TRUE) THEN stateFile' ELSE Loaded(on)
          /\ pc' \in [Procs -> {"off", "idle", "locking"}]
    BY <1>9, StartFiles
  <2>2. \A m \in Monitors : Good(Loaded(on)[m], m)
    BY DEF Loaded, TypeOK, MonitorState, EvidenceInv, Good
  <2>3. stateFile' = Loaded(on) \/ stateFile' = stateFile
    BY <2>1, PersistFiles
  <2>4. current' = Loaded(on) \/ current' = stateFile
    BY <2>1, <2>3
  <2>5. \A m \in Monitors : Good(current'[m], m) /\ Good(stateFile'[m], m)
    BY <2>2, <2>3, <2>4 DEF EvidenceInv
  <2> QED
    BY <1>3, <2>1, <2>5 DEF EvidenceInv, Good, Full
<1> QED
  BY <1>1, <1>4, <1>5, <1>6, <1>7, <1>8, <1>9 DEF Next

LEMMA JobInit == Init => JobInv /\ FinishInv
BY DEF Init, JobInv, FinishInv

\* "healthy" always rests on an evaluation in which every check ran and passed.
THEOREM HealthyHasEvidence == Spec => []HealthyIsEvidenced
<1>1. EvidenceInv => HealthyIsEvidenced
  BY DEF EvidenceInv, Good, Full, HealthyIsEvidenced
<1>2. Init => EvidenceInv
  BY DEF Init, EvidenceInv, Good, NewMonitorState, AtWork, Recovering
<1> QED
  BY <1>1, <1>2, InitType, TypeInvariance, LockInit, LockInvariance, JobInit, JobInvariance,
     EvidenceInvariance, PTL DEF Spec


-----------------------------------------------------------------------------
(* One life of the daemon *)

Transient == {"checking", "recovering"}

\* The outcomes that a status may follow; nothing was ever found out about a
\* monitor that is unknown or disabled.
Fits(status) ==
    CASE status = "healthy" -> {"check_succeeded", "recovery_succeeded"}
      [] status \in {"degraded", "failed"} -> {"check_failed", "recovery_failed", "recovery_exhausted"}
      [] OTHER -> {}

Tells(e, m) == e.mon = m /\ e.type # "recovery_started"

Agrees(status, h, m) ==
    \A i \in DOMAIN h :
        Tells(h[i], m) /\ (\A j \in DOMAIN h : Tells(h[j], m) => j <= i) => h[i].type \in Fits(status)

LEMMA AgreesTrim ==
    ASSUME NEW h \in Seq(Events), NEW m, NEW status, Agrees(status, h, m)
    PROVE  Agrees(status, TrimToLimit(h), m)
<1> DEFINE t == TrimToLimit(h)
           k == IF Len(h) > EventsMaxEntries THEN Len(h) - EventsMaxEntries ELSE 0
<1>1. EventsMaxEntries \in Nat /\ EventsMaxEntries > 0 /\ Len(h) \in Nat
  BY ConfigAssumption
<1>2. k \in Nat /\ k <= Len(h)
  BY <1>1
<1>3. /\ t \in Seq(Events) /\ Len(t) = Len(h) - k
      /\ \A i \in 1..Len(t) : t[i] = h[i + k]
  BY <1>1 DEF TrimToLimit
<1> SUFFICES ASSUME NEW i \in DOMAIN t, Tells(t[i], m),
                    \A j \in DOMAIN t : Tells(t[j], m) => j <= i
             PROVE  t[i].type \in Fits(status)
  BY DEF Agrees
<1> HIDE DEF t, k
<1>4. i \in 1..Len(t) /\ DOMAIN h = 1..Len(h)
  BY <1>3
<1>5. i \in Nat /\ i + k \in DOMAIN h /\ t[i] = h[i + k]
  BY <1>1, <1>2, <1>3, <1>4
<1>6. \A j \in DOMAIN h : Tells(h[j], m) => j <= i + k
  <2> SUFFICES ASSUME NEW j \in DOMAIN h, Tells(h[j], m), j > k
               PROVE  j <= i + k
    BY <1>2, <1>4, <1>5
  <2>1. j \in Nat /\ j <= Len(h) /\ j - k \in 1..Len(t) /\ DOMAIN t = 1..Len(t)
    BY <1>1, <1>2, <1>3, <1>4
  <2>2. t[j - k] = h[(j - k) + k] /\ (j - k) + k = j
    BY <1>2, <1>3, <2>1
  <2>3. j - k <= i
    BY <2>1, <2>2
  <2> QED
    BY <1>2, <1>5, <2>1, <2>3
<1> QED
  BY <1>5, <1>6 DEF Agrees

LEMMA AgreesAppend ==
    ASSUME NEW h \in Seq(Events), NEW events \in Seq(Events), NEW m, NEW status,
           \/ Agrees(status, h, m) /\ \A i \in DOMAIN events : ~Tells(events[i], m)
           \/ /\ Len(events) \in DOMAIN events
              /\ Tells(events[Len(events)], m) /\ events[Len(events)].type \in Fits(status)
    PROVE  Agrees(status, TrimToLimit(h \o events), m)
<1> DEFINE g == h \o events
<1>1. /\ g \in Seq(Events) /\ Len(g) = Len(h) + Len(events) /\ DOMAIN g = 1..(Len(h) + Len(events))
      /\ Len(h) \in Nat /\ Len(events) \in Nat
      /\ \A i \in 1..Len(h) : g[i] = h[i]
      /\ \A i \in 1..Len(events) : g[Len(h) + i] = events[i]
  OBVIOUS
<1>2. DOMAIN h = 1..Len(h) /\ DOMAIN events = 1..Len(events)
  OBVIOUS
<1> SUFFICES Agrees(status, g, m)
  BY <1>1, AgreesTrim
<1> HIDE DEF g
<1> SUFFICES ASSUME NEW i \in DOMAIN g, Tells(g[i], m),
                    \A j \in DOMAIN g : Tells(g[j], m) => j <= i
             PROVE  g[i].type \in Fits(status)
  BY DEF Agrees
<1>3. i \in Nat /\ i >= 1 /\ i <= Len(h) + Len(events)
  BY <1>1
<1>4. CASE Agrees(status, h, m) /\ \A j \in DOMAIN events : ~Tells(events[j], m)
  <2>1. i <= Len(h)
    <3> SUFFICES ASSUME i > Len(h) PROVE FALSE
      BY <1>1, <1>3
    <3>1. i - Len(h) \in 1..Len(events) /\ Len(h) + (i - Len(h)) = i
      BY <1>1, <1>3
    <3>2. g[i] = events[i - Len(h)]
      BY <1>1, <3>1
    <3> QED
      BY <1>2, <1>4, <3>1, <3>2
  <2>2. i \in DOMAIN h /\ g[i] = h[i]
    BY <1>1, <1>2, <1>3, <2>1
  <2>3. \A j \in DOMAIN h : j \in DOMAIN g /\ g[j] = h[j]
    BY <1>1, <1>2
  <2> QED
    BY <1>4, <2>2, <2>3 DEF Agrees
<1>5. CASE /\ Len(events) \in DOMAIN events
           /\ Tells(events[Len(events)], m) /\ events[Len(events)].type \in Fits(status)
  <2>1. /\ Len(h) + Len(events) \in DOMAIN g
        /\ g[Len(h) + Len(events)] = events[Len(events)]
    BY <1>1, <1>2, <1>5
  <2>2. Len(h) + Len(events) <= i
    BY <1>5, <2>1
  <2>3. i = Len(h) + Len(events)
    BY <1>1, <1>3, <2>2
  <2> QED
    BY <1>5, <2>1, <2>3
<1> QED
  BY <1>4, <1>5

\* Inductive in the daemon's first life: the status to put back is a lasting
\* one that the history agrees with, and whoever decides on a recovery has
\* just recorded a failure.
LifeInv ==
    /\ \A m \in Monitors : current[m].status \in Transient \/ Agrees(current[m].status, history, m)
    /\ \A p \in Procs :
         /\ pc[p] \in AtWork \cup {"starting"} =>
              frame[p].before \notin Transient /\ Agrees(frame[p].before, history, frame[p].on)
         /\ pc[p] = "deciding" => current[frame[p].on].status = "degraded"
    /\ daemon = "down" =>
         eventsFile = <<>> /\ \A m \in Monitors : stateFile[m].status \in {"unknown", "disabled"}
    /\ TransientStatusIsLive

\* What p's step makes of p and its monitor
LifeOf(p) ==
    LET m == frame[p].on IN
    /\ current'[m].status \in Transient \/ Agrees(current'[m].status, history', m)
    /\ pc'[p] \in AtWork \cup {"starting"} =>
         frame'[p].before \notin Transient /\ Agrees(frame'[p].before, history', m)
    /\ pc'[p] = "deciding" => current'[m].status = "degraded"
    /\ current'[m].status = "checking" =>
         pc'[p] = "checking" \/ (current[m].status = "checking" /\ pc[p] # "checking")
    /\ current'[m].status = "recovering" =>
         pc'[p] \in Recovering \/ (current[m].status = "recovering" /\ pc[p] \notin Recovering)

LEMMA LifeOwn ==
    ASSUME TypeOK, LockInv, LifeInv, NEW p \in Procs, frame[p].on \in Monitors, Table(p)
    PROVE  LifeOf(p)
<1> DEFINE m == frame[p].on
           c == current[m]
           b == frame[p].before
           Holding == AtWork \cup {"starting"}
<1>1. /\ history \in Seq(Events) /\ now \in Nat
      /\ c.status \in Transient \/ Agrees(c.status, history, m)
      /\ pc[p] \in Holding => b \notin Transient /\ Agrees(b, history, m)
      /\ pc[p] = "deciding" => c.status = "degraded"
  BY DEF TypeOK, Histories, LifeInv
<1>2. ASSUME pc[p] \in {"entered", "prechecking"}
      PROVE  c.status \notin Transient /\ Agrees(c.status, history, m)
  <2> SUFFICES ASSUME c.status \in Transient PROVE FALSE
    BY <1>1
  <2>1. PICK q \in Procs : frame[q].on = m /\ pc[q] \in {"checking"} \cup Recovering
    BY DEF Transient, LifeInv, TransientStatusIsLive
  <2>2. pc[p] \in InCallback /\ pc[q] \in InCallback
    BY <1>2, <2>1 DEF Recovering, InCallback, PCs
  <2>3. p = q
    BY <2>1, <2>2, Alone
  <2> QED
    BY <1>2, <2>1, <2>3 DEF Recovering
<1>3. /\ \A h : Agrees("degraded", h, m) => Agrees("failed", h, m)
      /\ \A h, s : Agrees(s, h, m) /\ Fits(s) = {} => Agrees("healthy", h, m)
  BY DEF Agrees, Fits
<1>4. ASSUME NEW from, NEW to, NEW before, NEW status, NEW results, NEW events,
             Row(p, from, to, before, status, results, events)
      PROVE  /\ pc[p] \in from /\ pc'[p] \in to
             /\ pc'[p] \in Holding => frame'[p].before = before
             /\ current'[m].status = status
             /\ (\A i \in DOMAIN events : ~Tells(events[i], m)) =>
                  \A s : Agrees(s, history, m) => Agrees(s, history', m)
             /\ /\ Len(events) \in DOMAIN events
                /\ Tells(events[Len(events)], m)
                /\ events[Len(events)].type \in Fits(status)
                => Agrees(status, history', m)
  <2>1. events \in Seq(Events) /\ history' = TrimToLimit(history \o events)
    BY <1>4 DEF Row
  <2>2. (\A i \in DOMAIN events : ~Tells(events[i], m)) =>
          \A s : Agrees(s, history, m) => Agrees(s, history', m)
    BY <1>1, <2>1, AgreesAppend
  <2>3. /\ Len(events) \in DOMAIN events
        /\ Tells(events[Len(events)], m)
        /\ events[Len(events)].type \in Fits(status)
        => Agrees(status, history', m)
    BY <1>1, <2>1, AgreesAppend
  <2> QED
    BY <1>4, <2>2, <2>3 DEF Row
<1>5. /\ \A i \in DOMAIN <<>> : ~Tells(<<>>[i], m)
      /\ \A i \in DOMAIN <<Event(m, "recovery_started")>> : ~Tells(<<Event(m, "recovery_started")>>[i], m)
  BY DEF Tells, Event
<1>6. ASSUME NEW from, NEW to, NEW before, NEW status, NEW results, NEW events, NEW type \in EventTypes,
             Row(p, from, to, before, status, results, events),
             Len(events) \in DOMAIN events, events[Len(events)] = Event(m, type),
             type # "recovery_started", type \in Fits(status),
             to \subseteq {"deciding", "releasing"}, status \notin Transient,
             "deciding" \in to => status = "degraded"
      PROVE  LifeOf(p)
  <2>1. Tells(Event(m, type), m) /\ Event(m, type).type \in Fits(status)
    BY <1>6, EventType DEF Tells, Event
  <2>2. Agrees(status, history', m) /\ pc'[p] \in to /\ current'[m].status = status
    BY <1>4, <1>6, <2>1
  <2> QED
    BY <1>6, <2>2 DEF LifeOf, Transient, AtWork, Recovering
<1>7. ASSUME NEW from, NEW to, NEW before, NEW status, NEW results, NEW events,
             Row(p, from, to, before, status, results, events),
             events = <<>> \/ events = <<Event(m, "recovery_started")>>
      PROVE  /\ pc[p] \in from /\ pc'[p] \in to
             /\ pc'[p] \in Holding => frame'[p].before = before
             /\ current'[m].status = status
             /\ \A s : Agrees(s, history, m) => Agrees(s, history', m)
  BY <1>4, <1>5, <1>7
<1>8. Holding = {"checking", "starting"} \cup Recovering /\ "checking" \notin Recovering
  BY DEF AtWork, Recovering
<1>9. CASE Row(p, {"entered"}, {"checking"}, c.status, "checking", c.results, <<>>)
  BY <1>2, <1>7, <1>9 DEF LifeOf, Transient
<1>10. CASE Row(p, {"checking"}, {"checking"}, b, c.status, c.results, <<>>)
  BY <1>1, <1>7, <1>8, <1>10 DEF LifeOf
<1>11. CASE Row(p, {"checking"} \cup Recovering, {"releasing"}, b, b, c.results, <<>>)
  BY <1>1, <1>7, <1>8, <1>11 DEF LifeOf, Transient, Recovering
<1>12. CASE Row(p, {"checking"}, {"releasing"}, b, "healthy", Full(m),
                IF ShouldRecordHealthyEvent(b) THEN <<Event(m, "check_succeeded")>> ELSE <<>>)
  <2>1. CASE ShouldRecordHealthyEvent(b)
    <3> DEFINE events == <<Event(m, "check_succeeded")>>
    <3>1. Len(events) \in DOMAIN events /\ events[Len(events)] = Event(m, "check_succeeded")
      OBVIOUS
    <3>2. Row(p, {"checking"}, {"releasing"}, b, "healthy", Full(m), events)
      BY <1>12, <2>1
    <3> HIDE DEF events
    <3> QED
      BY <1>6, <3>1, <3>2 DEF EventTypes, Fits, Transient
  <2>2. CASE ~ShouldRecordHealthyEvent(b)
    <3>1. Row(p, {"checking"}, {"releasing"}, b, "healthy", Full(m), <<>>)
      BY <1>12, <2>2
    <3>2. pc'[p] = "releasing" /\ pc[p] = "checking" /\ current'[m].status = "healthy"
          /\ \A s : Agrees(s, history, m) => Agrees(s, history', m)
      BY <1>7, <3>1
    <3>3. b = "healthy" \/ Fits(b) = {}
      BY <2>2 DEF ShouldRecordHealthyEvent, Fits
    <3>4. Agrees("healthy", history, m)
      BY <1>1, <1>3, <1>8, <3>2, <3>3
    <3> QED
      BY <1>8, <3>2, <3>4 DEF LifeOf, Recovering
  <2> QED
    BY <2>1, <2>2
<1>13. CASE \E results : Row(p, {"checking"}, {"deciding", "releasing"}, b, "degraded", results,
                              <<Event(m, "check_failed")>>)
  <2> DEFINE events == <<Event(m, "check_failed")>>
  <2>1. Len(events) \in DOMAIN events /\ events[Len(events)] = Event(m, "check_failed")
    OBVIOUS
  <2>2. PICK results : Row(p, {"checking"}, {"deciding", "releasing"}, b, "degraded", results, events)
    BY <1>13
  <2> HIDE DEF events
  <2> QED
    BY <1>6, <2>1, <2>2 DEF EventTypes, Fits, Transient
<1>14. CASE Row(p, {"deciding"}, {"releasing"}, b, "failed", c.results, <<>>)
  <2>1. pc'[p] = "releasing" /\ pc[p] = "deciding" /\ current'[m].status = "failed"
        /\ \A s : Agrees(s, history, m) => Agrees(s, history', m)
    BY <1>7, <1>14
  <2>2. Agrees("failed", history, m)
    BY <1>1, <1>3, <2>1 DEF Transient
  <2> QED
    BY <1>8, <2>1, <2>2 DEF LifeOf, Recovering
<1>15. CASE Row(p, {"deciding"}, {"releasing"}, b, "failed", c.results, <<Event(m, "recovery_exhausted")>>)
  <2> DEFINE events == <<Event(m, "recovery_exhausted")>>
  <2>1. Len(events) \in DOMAIN events /\ events[Len(events)] = Event(m, "recovery_exhausted")
    OBVIOUS
  <2>2. Row(p, {"deciding"}, {"releasing"}, b, "failed", c.results, events)
    BY <1>15
  <2> HIDE DEF events
  <2> QED
    BY <1>6, <2>1, <2>2 DEF EventTypes, Fits, Transient
<1>16. CASE Row(p, {"prechecking"}, {"starting"}, c.status, c.status, c.results, <<>>)
  BY <1>2, <1>7, <1>16 DEF LifeOf, Transient
<1>17. CASE Row(p, {"deciding"}, {"acting", "restoring"}, "degraded", "recovering", c.results,
                <<Event(m, "recovery_started")>>)
  <2>1. /\ pc'[p] \in {"acting", "restoring"} /\ pc[p] = "deciding" /\ current'[m].status = "recovering"
        /\ frame'[p].before = "degraded"
        /\ \A s : Agrees(s, history, m) => Agrees(s, history', m)
    BY <1>7, <1>8, <1>17 DEF Recovering
  <2>2. Agrees("degraded", history, m)
    BY <1>1, <2>1 DEF Transient
  <2> QED
    BY <1>8, <2>1, <2>2 DEF LifeOf, Transient, Recovering
<1>18. CASE Row(p, {"starting"}, {"acting", "restoring"}, b, "recovering", c.results,
                <<Event(m, "recovery_started")>>)
  <2>1. /\ pc'[p] \in {"acting", "restoring"} /\ pc[p] = "starting" /\ current'[m].status = "recovering"
        /\ frame'[p].before = b
        /\ \A s : Agrees(s, history, m) => Agrees(s, history', m)
    BY <1>7, <1>8, <1>18 DEF Recovering
  <2> QED
    BY <1>1, <1>8, <2>1 DEF LifeOf, Transient, Recovering
<1>19. CASE Row(p, Recovering, Recovering, b, c.status, c.results, <<>>)
  <2>1. /\ pc'[p] \in Recovering /\ pc[p] \in Recovering /\ current'[m].status = c.status
        /\ frame'[p].before = b
        /\ \A s : Agrees(s, history, m) => Agrees(s, history', m)
    BY <1>7, <1>8, <1>19
  <2> QED
    BY <1>1, <1>8, <2>1 DEF LifeOf, Recovering
<1>20. CASE Row(p, {"finishing"}, {"releasing"}, b, "healthy", Full(m), <<Event(m, "recovery_succeeded")>>)
  <2> DEFINE events == <<Event(m, "recovery_succeeded")>>
  <2>1. Len(events) \in DOMAIN events /\ events[Len(events)] = Event(m, "recovery_succeeded")
    OBVIOUS
  <2>2. Row(p, {"finishing"}, {"releasing"}, b, "healthy", Full(m), events)
    BY <1>20
  <2> HIDE DEF events
  <2> QED
    BY <1>6, <2>1, <2>2 DEF EventTypes, Fits, Transient
<1>21. CASE \E results : Row(p, {"finishing"}, {"releasing"}, b, "failed", results,
                              <<Event(m, "recovery_failed")>>)
  <2> DEFINE events == <<Event(m, "recovery_failed")>>
  <2>1. Len(events) \in DOMAIN events /\ events[Len(events)] = Event(m, "recovery_failed")
    OBVIOUS
  <2>2. PICK results : Row(p, {"finishing"}, {"releasing"}, b, "failed", results, events)
    BY <1>21
  <2> HIDE DEF events
  <2> QED
    BY <1>6, <2>1, <2>2 DEF EventTypes, Fits, Transient
<1>22. CASE \E results : Row(p, {"finishing"}, {"releasing"}, b, "failed", results,
                              <<Event(m, "recovery_failed")>> \o <<Event(m, "recovery_exhausted")>>)
  <2> DEFINE events == <<Event(m, "recovery_failed")>> \o <<Event(m, "recovery_exhausted")>>
  <2>1. Len(events) = 2 /\ events[2] = Event(m, "recovery_exhausted") /\ Len(events) \in DOMAIN events
    <3>1. events \in Seq(Events) /\ Len(events) = 2 /\ events[2] = Event(m, "recovery_exhausted")
      BY <1>1, EventsOf DEF EventTypes
    <3> HIDE DEF events
    <3> QED
      BY <3>1
  <2>2. PICK results : Row(p, {"finishing"}, {"releasing"}, b, "failed", results, events)
    BY <1>22
  <2> HIDE DEF events
  <2>3. events[Len(events)] = Event(m, "recovery_exhausted")
    BY <2>1
  <2> QED
    BY <1>6, <2>1, <2>2, <2>3 DEF EventTypes, Fits, Transient
<1>23. CASE Row(p, PCs \ AtWork, PCs \ (AtWork \cup {"starting", "deciding"}), b, c.status, c.results, <<>>)
  <2>1. /\ pc[p] \notin AtWork /\ pc'[p] \notin AtWork \cup {"starting", "deciding"}
        /\ current'[m].status = c.status
        /\ \A s : Agrees(s, history, m) => Agrees(s, history', m)
    BY <1>7, <1>23
  <2> QED
    BY <1>1, <2>1 DEF LifeOf, AtWork
<1> QED
  BY <1>9, <1>10, <1>11, <1>12, <1>13, <1>14, <1>15, <1>16, <1>17, <1>18, <1>19, <1>20, <1>21,
     <1>22, <1>23 DEF Table

LEMMA LifeStep ==
    ASSUME TypeOK, LockInv, DownInv, JobInv, FinishInv, LifeInv, NEW p \in Procs, Step(p)
    PROVE  LifeInv' /\ halts' = halts
<1> DEFINE m == frame[p].on
<1>1. m \in Monitors /\ Table(p) /\ LifeOf(p)
  BY StepBusy, BusyOn, StatusTable, LifeOwn
<1>2. daemon' # "down" /\ halts' = halts
  <2>1. pc[p] # "off"
    BY StepBusy DEF Busy
  <2>2. daemon' = daemon /\ halts' = halts
    BY StepUp, MovingSteps DEF Moves, GiveUp, Release, ghosts
  <2> QED
    BY <2>1, <2>2 DEF DownInv
<1>3. \A k \in Monitors : k # m => current'[k] = current[k]
  BY OtherMonitors
<1>4. PICK events \in Seq(Events) :
        /\ \A i \in DOMAIN events : events[i].mon = m
        /\ history' = TrimToLimit(history \o events)
  BY <1>1 DEF Table, Row
<1>5. ASSUME NEW k \in Monitors, NEW s, k # m, Agrees(s, history, k)
      PROVE  Agrees(s, history', k)
  <2>1. \A i \in DOMAIN events : ~Tells(events[i], k)
    BY <1>4, <1>5 DEF Tells
  <2> QED
    BY <1>4, <1>5, <2>1, AgreesAppend DEF TypeOK, Histories
<1>6. ASSUME NEW k \in Monitors
      PROVE  current'[k].status \in Transient \/ Agrees(current'[k].status, history', k)
  <2>1. CASE k = m
    BY <1>1, <2>1 DEF LifeOf
  <2>2. CASE k # m
    BY <1>3, <1>5, <2>2 DEF LifeInv
  <2> QED
    BY <2>1, <2>2
<1>7. ASSUME NEW q \in Procs, pc'[q] \in AtWork \cup {"starting", "deciding"}
      PROVE  /\ pc'[q] \in AtWork \cup {"starting"} =>
                  frame'[q].before \notin Transient /\ Agrees(frame'[q].before, history', frame'[q].on)
             /\ pc'[q] = "deciding" => current'[frame'[q].on].status = "degraded"
  <2>1. pc'[q] \in InCallback
    BY <1>7 DEF AtWork, Recovering, InCallback, PCs
  <2>2. CASE q = p
    BY <1>1, <2>1, <2>2, OtherFrames DEF LifeOf
  <2>3. CASE q # p
    <3>1. pc[q] \in InCallback
      BY <2>1, <2>3, OtherFrames
    <3>2. /\ pc'[q] = pc[q] /\ frame'[q] = frame[q] /\ frame[q].on \in Monitors
          /\ current'[frame[q].on] = current[frame[q].on]
      BY <2>3, <3>1, OthersKeep
    <3>3. \A s : Agrees(s, history, frame[q].on) => Agrees(s, history', frame[q].on)
      <4>1. frame[q].on # m \/ history' = history
        BY <2>3, <3>1, OthersKeep
      <4> QED
        BY <1>5, <3>2, <4>1
    <3> QED
      BY <3>2, <3>3 DEF LifeInv
  <2> QED
    BY <2>2, <2>3
<1>8. ASSUME NEW k \in Monitors, NEW places, places = {"checking"} \/ places = Recovering,
             \E q \in Procs : frame[q].on = k /\ pc[q] \in places,
             k = m /\ pc[p] \in places => pc'[p] \in places
      PROVE  \E q \in Procs : frame'[q].on = k /\ pc'[q] \in places
  <2>1. PICK q \in Procs : frame[q].on = k /\ pc[q] \in places
    BY <1>8
  <2>2. pc[q] \in InCallback /\ \A l \in places : l \in InCallback
    BY <1>8, <2>1 DEF Recovering, InCallback, PCs
  <2>3. CASE q = p
    <3>1. pc'[p] \in places
      BY <1>8, <2>1, <2>3
    <3>2. frame'[p].on = frame[p].on
      BY <2>2, <3>1, OtherFrames
    <3> QED
      BY <2>1, <2>3, <3>1, <3>2
  <2>4. CASE q # p
    BY <2>1, <2>2, <2>4, OthersKeep
  <2> QED
    BY <2>3, <2>4
<1>9. TransientStatusIsLive'
  <2> SUFFICES ASSUME NEW k \in Monitors
               PROVE  /\ current'[k].status = "checking" =>
                           \E q \in Procs : frame'[q].on = k /\ pc'[q] \in {"checking"}
                      /\ current'[k].status = "recovering" =>
                           \E q \in Procs : frame'[q].on = k /\ pc'[q] \in Recovering
    BY DEF TransientStatusIsLive
  <2>1. /\ current[k].status = "checking" =>
             \E q \in Procs : frame[q].on = k /\ pc[q] \in {"checking"}
        /\ current[k].status = "recovering" =>
             \E q \in Procs : frame[q].on = k /\ pc[q] \in Recovering
    BY DEF LifeInv, TransientStatusIsLive
  <2>2. CASE k # m
    BY <1>3, <1>8, <2>1, <2>2
  <2>3. CASE k = m
    <3>1. pc'[p] \in {"checking"} \cup Recovering => frame'[p].on = m
      BY OtherFrames DEF Recovering, InCallback, PCs
    <3>2. current'[k].status = "checking" =>
            \E q \in Procs : frame'[q].on = k /\ pc'[q] \in {"checking"}
      <4> SUFFICES ASSUME current'[k].status = "checking", pc'[p] # "checking"
                   PROVE  \E q \in Procs : frame'[q].on = k /\ pc'[q] \in {"checking"}
        BY <2>3, <3>1
      <4>1. current[k].status = "checking" /\ pc[p] \notin {"checking"}
        BY <1>1, <2>3 DEF LifeOf
      <4> QED
        BY <1>8, <2>1, <4>1
    <3>3. current'[k].status = "recovering" =>
            \E q \in Procs : frame'[q].on = k /\ pc'[q] \in Recovering
      <4> SUFFICES ASSUME current'[k].status = "recovering", pc'[p] \notin Recovering
                   PROVE  \E q \in Procs : frame'[q].on = k /\ pc'[q] \in Recovering
        BY <2>3, <3>1
      <4>1. current[k].status = "recovering" /\ pc[p] \notin Recovering
        BY <1>1, <2>3 DEF LifeOf
      <4> QED
        BY <1>8, <2>1, <4>1
    <3> QED
      BY <3>2, <3>3
  <2> QED
    BY <2>2, <2>3
<1> QED
  BY <1>2, <1>6, <1>7, <1>9 DEF LifeInv

FirstLife == halts = 0 => LifeInv

LEMMA LifeInvariance ==
    TypeOK /\ LockInv /\ DownInv /\ JobInv /\ FinishInv /\ FirstLife /\ [Next]_vars => FirstLife'
<1> SUFFICES ASSUME TypeOK, LockInv, DownInv, JobInv, FinishInv, halts = 0 => LifeInv, [Next]_vars,
                    halts' = 0
             PROVE  LifeInv'
  BY DEF FirstLife
<1>1. halts \in Nat
  BY DEF TypeOK
<1>2. CASE \E p \in Procs : Step(p)
  <2>1. PICK p \in Procs : Step(p)
    BY <1>2
  <2>2. halts' = halts
    BY <2>1, MovingSteps DEF Moves, GiveUp, Release, ghosts
  <2> QED
    BY <2>1, <2>2, LifeStep
<1>3. ASSUME UNCHANGED <<current, history, stateFile, eventsFile, halts>>,
             daemon' = "down" => daemon = "down",
             \A q \in Procs : \/ pc'[q] = pc[q] /\ frame'[q] = frame[q]
                              \/ /\ pc[q] \notin AtWork
                                 /\ pc'[q] \notin AtWork \cup {"starting", "deciding"}
      PROVE  LifeInv'
  <2>1. LifeInv
    BY <1>3
  <2>2. \A m \in Monitors : current'[m].status \in Transient \/ Agrees(current'[m].status, history', m)
    BY <1>3, <2>1 DEF LifeInv
  <2>3. ASSUME NEW p \in Procs, pc'[p] \in AtWork \cup {"starting", "deciding"}
        PROVE  /\ pc'[p] \in AtWork \cup {"starting"} =>
                    frame'[p].before \notin Transient /\ Agrees(frame'[p].before, history', frame'[p].on)
               /\ pc'[p] = "deciding" => current'[frame'[p].on].status = "degraded"
    BY <1>3, <2>1, <2>3 DEF LifeInv
  <2>4. TransientStatusIsLive'
    <3>1. \A q \in Procs : pc[q] \in {"checking"} \cup Recovering => pc'[q] = pc[q] /\ frame'[q] = frame[q]
      BY <1>3 DEF AtWork
    <3> QED
      BY <1>3, <2>1, <3>1 DEF LifeInv, TransientStatusIsLive
  <2>5. daemon' = "down" =>
          eventsFile' = <<>> /\ \A m \in Monitors : stateFile'[m].status \in {"unknown", "disabled"}
    BY <1>3, <2>1 DEF LifeInv
  <2> QED
    BY <2>2, <2>3, <2>4, <2>5 DEF LifeInv
<1>4. {"off", "idle", "locking"} \cap (AtWork \cup {"starting", "deciding"}) = {}
  BY DEF AtWork, Recovering
<1>5. CASE \E m \in Monitors : LoopTick(m) \/ LoopStop(m)
  BY <1>3, <1>4, <1>5 DEF LoopTick, LoopStop, Goto, TypeOK, memory, files, ghosts
<1>6. CASE \E r \in Requests : Expire(r)
  BY <1>3, <1>6 DEF Expire, memory, files, ghosts
<1>7. CASE \E r \in Requests, m \in Monitors, job \in {"check", "recover"} : Arrive(r, m, job)
  BY <1>3, <1>4, <1>7 DEF Arrive, Goto, TypeOK, memory, files, ghosts
<1>8. CASE Terminate \/ Tick \/ UNCHANGED vars
  BY <1>3, <1>8 DEF Terminate, Tick, vars, memory, files, ghosts
<1>9. CASE Halt
  BY <1>1, <1>9 DEF Halt
<1>10. CASE Start
  <2>1. PICK on \in SUBSET Monitors, o \in SaveOutcomes :
          /\ Persist(Loaded(on), TrimToLimit(eventsFile), TRUE, o)
          /\ current' = IF SaveFails(o, TRUE) THEN stateFile' ELSE Loaded(on)
          /\ history' = IF SaveFails(o, TRUE) THEN eventsFile' ELSE TrimToLimit(eventsFile)
          /\ pc' \in [Procs -> {"off", "idle", "locking"}]
    BY <1>10, StartFiles
  <2>2. LifeInv /\ daemon = "down"
    BY <1>10 DEF Start, ghosts
  <2>3. eventsFile = <<>> /\ TrimToLimit(<<>>) = <<>>
    <3>1. Len(<<>>) = 0
      OBVIOUS
    <3> QED
      BY <2>2, <3>1, ConfigAssumption DEF LifeInv, TrimToLimit
  <2>4. eventsFile' = <<>> /\ history' = <<>>
    <3>1. eventsFile' = eventsFile \/ eventsFile' = TrimToLimit(eventsFile)
      BY <2>1, PersistFiles
    <3> QED
      BY <2>1, <2>3, <3>1
  <2>5. \A m \in Monitors : Loaded(on)[m].status \in {"unknown", "disabled"}
    BY <2>2 DEF LifeInv, Loaded, TypeOK, MonitorState
  <2>6. stateFile' = Loaded(on) \/ stateFile' = stateFile
    BY <2>1, PersistFiles
  <2>7. current' = Loaded(on) \/ current' = stateFile
    BY <2>1, <2>6
  <2>8. \A m \in Monitors : /\ current'[m].status \in {"unknown", "disabled"}
                            /\ stateFile'[m].status \in {"unknown", "disabled"}
    BY <2>2, <2>5, <2>6, <2>7 DEF LifeInv
  <2>9. DOMAIN <<>> = {}
    OBVIOUS
  <2>10. \A m \in Monitors : \A s : Agrees(s, history', m)
    BY <2>4, <2>9 DEF Agrees
  <2>11. TransientStatusIsLive'
    BY <2>8 DEF TransientStatusIsLive
  <2>12. \A p \in Procs : pc'[p] \notin AtWork \cup {"starting", "deciding"}
    BY <1>4, <2>1
  <2> QED
    BY <2>4, <2>8, <2>10, <2>11, <2>12 DEF LifeInv
<1> QED
  BY <1>2, <1>5, <1>6, <1>7, <1>8, <1>9, <1>10 DEF Next

LEMMA LifeInit == Init => DownInv /\ FirstLife
<1> SUFFICES ASSUME Init PROVE DownInv /\ LifeInv
  BY DEF FirstLife
<1>1. DownInv
  BY BudgetInit
<1>2. DOMAIN <<>> = {}
  OBVIOUS
<1>3. /\ \A m \in Monitors : current[m].status = "unknown" /\ stateFile[m].status = "unknown"
      /\ history = <<>> /\ eventsFile = <<>> /\ \A p \in Procs : pc[p] = "off"
  BY DEF Init, NewMonitorState
<1> QED
  BY <1>1, <1>2, <1>3 DEF LifeInv, Agrees, TransientStatusIsLive, AtWork, Recovering

\* In the daemon's first life nothing is left "checking" or "recovering" by
\* any way out of an operation: a timeout, a termination or a failed save.
THEOREM TransientIsLive == Spec => [](halts = 0 => TransientStatusIsLive)
<1>1. FirstLife => (halts = 0 => TransientStatusIsLive)
  BY DEF FirstLife, LifeInv
<1> QED
  BY <1>1, InitType, TypeInvariance, LockInit, LockInvariance, DownInvariance, JobInit, JobInvariance,
     LifeInit, LifeInvariance, PTL DEF Spec

\* In the daemon's first life the last outcome in the history explains the
\* status, whatever was cut short or trimmed since.
THEOREM HistoryExplains == Spec => [](halts = 0 => HistoryAgrees)
<1>1. FirstLife => (halts = 0 => HistoryAgrees)
  <2> SUFFICES ASSUME LifeInv, NEW m \in Monitors, NEW i \in DOMAIN history, IsLatest(m, i),
                      current[m].status \notin Transient
               PROVE  /\ current[m].status = "healthy" =>
                           history[i].type \in {"check_succeeded", "recovery_succeeded"}
                      /\ current[m].status \in {"degraded", "failed"} =>
                           history[i].type \in {"check_failed", "recovery_failed", "recovery_exhausted"}
    BY DEF HistoryAgrees, Transient, FirstLife
  <2>1. Tells(history[i], m) /\ \A j \in DOMAIN history : Tells(history[j], m) => j <= i
    BY DEF IsLatest, Tells
  <2>2. history[i].type \in Fits(current[m].status)
    BY <2>1 DEF LifeInv, Agrees
  <2> QED
    BY <2>2 DEF Fits
<1> QED
  BY <1>1, InitType, TypeInvariance, LockInit, LockInvariance, DownInvariance, JobInit, JobInvariance,
     LifeInit, LifeInvariance, PTL DEF Spec

-----------------------------------------------------------------------------
(* Answers *)

\* The outcome is recorded, or the answer will be an error.
Settled(r) == frame[r].done \/ r \in expired \/ frame[r].failed

\* Inductive: an operation that leaves its slot with no outcome was cancelled,
\* or has noted that the save of its start failed.
ReplyInv ==
    \A r \in Requests :
        /\ pc[r] \in {"releasing", "restoring"} => Settled(r)
        /\ pc[r] = "deciding" => frame[r].done

LEMMA ReplyOwn ==
    ASSUME TypeOK, JobInv, ReplyInv, NEW r \in Requests, Step(r),
           pc'[r] \in {"releasing", "restoring", "deciding"}
    PROVE  /\ pc'[r] \in {"releasing", "restoring"} => Settled(r)'
           /\ pc'[r] = "deciding" => frame'[r].done
<1>1. /\ r \in Procs /\ frame \in [Procs -> Frame] /\ frame[r] \in Frame /\ pc \in [Procs -> PCs]
  BY DEF TypeOK, Procs
<1>2. expired' = expired
  BY <1>1, MovingSteps DEF Moves, GiveUp, Release, Return, Goto
<1>3. CASE RecordHealthy(r) \/ RecordFailure(r) \/ RecordRecovery(r) \/ RecordFailedRecovery(r)
  <2>1. frame' = [frame EXCEPT ![r].done = TRUE]
    BY <1>3 DEF RecordHealthy, RecordFailure, RecordRecovery, RecordFailedRecovery
  <2>2. frame'[r].done
    BY <1>1, <2>1 DEF Frame
  <2> QED
    BY <2>2 DEF Settled
<1>4. CASE /\ Cancelled(r) /\ UNCHANGED frame /\ pc'[r] # "deciding"
  BY <1>2, <1>4 DEF Cancelled, Settled
<1>5. CASE SkipCancelled(r) \/ RestoreCancelledCheck(r) \/ ReadStatusBefore(r) \/ AbandonStart(r)
           \/ InterruptRecovery(r)
  BY <1>1, <1>4, <1>5 DEF SkipCancelled, RestoreCancelledCheck, ReadStatusBefore, AbandonStart,
     InterruptRecovery, Goto
<1>6. CASE SuppressRecovery(r)
  BY <1>1, <1>6 DEF SuppressRecovery, Goto, ReplyInv, Settled
<1>7. CASE RestoreStatus(r)
  <2>1. /\ pc[r] = "restoring" \/ Cancelled(r)
        /\ frame' = frame /\ pc'[r] = "releasing"
    BY <1>1, <1>7 DEF RestoreStatus, Goto
  <2> QED
    BY <1>2, <2>1 DEF Cancelled, ReplyInv, Settled
<1>8. CASE StartRecovery(r)
  <2> DEFINE before == IF frame[r].job = "check" THEN "degraded" ELSE frame[r].before
  <2>1. PICK o \in SaveOutcomes, failed \in BOOLEAN :
          /\ frame' = [frame EXCEPT ![r] =
                [frame[r] EXCEPT !.before = before, !.step = 1, !.failed = failed]]
          /\ failed = (SaveFails(o, TRUE) /\ frame[r].job = "recover")
          /\ pc' = [pc EXCEPT ![r] = IF SaveFails(o, TRUE) THEN "restoring" ELSE "acting"]
    <3>1. \A o \in SaveOutcomes : (SaveFails(o, TRUE) /\ frame[r].job = "recover") \in BOOLEAN
      OBVIOUS
    <3> QED
      BY <1>8, <3>1 DEF StartRecovery, Goto
  <2>2. pc[r] = "starting" \/ pc[r] = "deciding"
    BY <1>8 DEF StartRecovery, AtStart
  <2>3. frame'[r].done = frame[r].done /\ frame'[r].failed = failed
    BY <1>1, <2>1 DEF Frame
  <2>4. SaveFails(o, TRUE) /\ pc'[r] = "restoring" /\ (frame[r].job = "recover" => failed)
    <3>1. pc'[r] = IF SaveFails(o, TRUE) THEN "restoring" ELSE "acting"
      BY <1>1, <2>1
    <3>2. SaveFails(o, TRUE)
      BY <3>1
    <3> QED
      BY <2>1, <3>1, <3>2
  <2>5. CASE pc[r] = "deciding"
    BY <2>3, <2>4, <2>5 DEF ReplyInv, Settled
  <2>6. CASE pc[r] = "starting"
    BY <1>1, <2>3, <2>4, <2>6 DEF JobInv, Settled
  <2> QED
    BY <2>2, <2>5, <2>6
<1>9. CASE \/ Acquire(r) \/ GiveUp(r) \/ Release(r) \/ MarkChecking(r) \/ RunCheck(r) \/ BeginForced(r)
           \/ BeginAction(r) \/ EndAction(r) \/ EndRecheck(r) \/ EndVerify(r)
  BY <1>1, <1>9 DEF Acquire, GiveUp, Release, Return, MarkChecking, RunCheck, Evaluating, BeginForced,
     BeginAction, EndAction, Advance, EndRecheck, EndVerify, Goto
<1> QED
  BY <1>3, <1>5, <1>6, <1>7, <1>8, <1>9 DEF Step

LEMMA ReplyInvariance == TypeOK /\ JobInv /\ ReplyInv /\ [Next]_vars => ReplyInv'
<1> SUFFICES ASSUME TypeOK, JobInv, ReplyInv, [Next]_vars, NEW r \in Requests,
                    pc'[r] \in {"releasing", "restoring", "deciding"}
             PROVE  /\ pc'[r] \in {"releasing", "restoring"} => Settled(r)'
                    /\ pc'[r] = "deciding" => frame'[r].done
  BY DEF ReplyInv
<1>1. ASSUME pc'[r] = pc[r], frame'[r] = frame[r], r \in expired => r \in expired'
      PROVE  /\ pc'[r] \in {"releasing", "restoring"} => Settled(r)'
             /\ pc'[r] = "deciding" => frame'[r].done
  BY <1>1 DEF ReplyInv, Settled
<1>2. r \in Procs
  BY DEF Procs
<1>3. ASSUME NEW p \in Procs, Step(p)
      PROVE  /\ pc'[r] \in {"releasing", "restoring"} => Settled(r)'
             /\ pc'[r] = "deciding" => frame'[r].done
  <2>1. CASE p = r
    BY <1>3, <2>1, ReplyOwn
  <2>2. CASE p # r
    <3>1. expired' = expired \/ expired' = expired \ {p}
      BY <1>3, MovingSteps DEF Moves, GiveUp, Release, Return
    <3> QED
      BY <1>1, <1>2, <1>3, <2>2, <3>1, OtherFrames
  <2> QED
    BY <2>1, <2>2
<1>4. CASE \E m \in Monitors : LoopTick(m) \/ LoopStop(m)
  BY <1>1, <1>2, <1>4 DEF LoopTick, LoopStop, Goto, TypeOK
<1>5. CASE \E q \in Requests : Expire(q)
  BY <1>1, <1>5 DEF Expire
<1>6. CASE \E q \in Requests, m \in Monitors, job \in {"check", "recover"} : Arrive(q, m, job)
  BY <1>1, <1>2, <1>6 DEF Arrive, Goto, TypeOK
<1>7. CASE Terminate \/ Tick \/ UNCHANGED vars
  BY <1>1, <1>7 DEF Terminate, Tick, vars
<1>8. CASE Halt
  BY <1>2, <1>8 DEF Halt
<1>9. CASE Start
  BY <1>2, <1>9, StartFiles
<1> QED
  BY <1>3, <1>4, <1>5, <1>6, <1>7, <1>8, <1>9 DEF Next

LEMMA TruthfulStep ==
    ASSUME TypeOK, ReplyInv, [Next]_vars, NEW r \in Requests, reply'[r] = "ok", reply[r] # "ok"
    PROVE  frame[r].done
<1>1. reply \in [Requests -> {"none", "ok", "error"}] /\ r \in Procs
  BY DEF TypeOK, Procs
<1>2. CASE \E p \in Procs : Step(p)
  <2>1. PICK p \in Procs : Step(p)
    BY <1>2
  <2>2. ~Moves(p)
    BY DEF Moves
  <2>3. ~GiveUp(p)
    BY <1>1 DEF GiveUp, Return
  <2>4. Release(p)
    BY <2>1, <2>2, <2>3, MovingSteps
  <2>5. p = r /\ pc[r] = "releasing" /\ Succeeded(r)
    BY <1>1, <2>4 DEF Release, Return
  <2> QED
    BY <2>5 DEF ReplyInv, Settled, Succeeded, Cancelled
<1>3. CASE \E m \in Monitors : LoopTick(m) \/ LoopStop(m)
  BY <1>3 DEF LoopTick, LoopStop
<1>4. CASE (\E q \in Requests : Expire(q)) \/ Terminate \/ Tick \/ UNCHANGED vars
  BY <1>4 DEF Expire, Terminate, Tick, vars
<1>5. CASE \E q \in Requests, m \in Monitors, job \in {"check", "recover"} : Arrive(q, m, job)
  BY <1>1, <1>5 DEF Arrive
<1>6. CASE Halt \/ Start
  BY <1>6 DEF Halt, Start
<1> QED
  BY <1>2, <1>3, <1>4, <1>5, <1>6 DEF Next

\* An answer "ok" stands for an outcome in the state, for any number of calls
\* and however their contexts, the saves and the operations of others fall.
THEOREM AnswersTruthful == Spec => RepliesAreTruthful
<1>1. Init => ReplyInv
  BY DEF Init, ReplyInv, Procs
<1>2. TypeOK /\ ReplyInv /\ [Next]_vars =>
        [\A r \in Requests : reply'[r] = "ok" /\ reply[r] # "ok" => frame[r].done]_vars
  BY TruthfulStep
<1> QED
  BY <1>1, <1>2, InitType, TypeInvariance, JobInit, JobInvariance, ReplyInvariance, PTL
  DEF Spec, RepliesAreTruthful

=============================================================================
