------------------------------- MODULE Manager -------------------------------
(***************************************************************************)
(* The engine of rpi-procmon (internal/engine/manager.go): one goroutine   *)
(* per enabled monitor and any number of control calls of the HTTP API     *)
(* check a service, count its failures and run its recovery actions.       *)
(*                                                                         *)
(* Grain.  Every block of the code that holds m.mu is one step, its save   *)
(* of the two files included.  A check, a recovery action and the test of  *)
(* a context between two of them are steps of their own, and everything    *)
(* interleaves with other goroutines, the clock, a timeout of a call, the  *)
(* end of the process and its restart.  A crash inside a save leaves the   *)
(* files as some failed save would, see SaveOutcomes.                      *)
(***************************************************************************)
EXTENDS Naturals, Sequences

CONSTANTS
    Monitors,             \* the monitor ids of the configuration
    Requests,             \* slots for control calls in flight
    NumChecks,            \* NumChecks[m] = len(monitor.Checks)
    Recovery,             \* Recovery[m]: the action types, "recheck" or "run"
    FailureThreshold,     \* per monitor
    MaxRecoveryAttempts,  \* per monitor, 0 is "no cap"
    Cooldown,             \* per monitor, in ticks
    EventsMaxEntries,
    TicksPerSecond,       \* the resolution of a timestamp against the clock
    SaveOutcomes,         \* what persistLocked may meet, see Persist
    EnabledSets,          \* the sets of enabled monitors a start may read
    MaxTime,              \* bound on the clock
    MaxHalts,             \* bound on ends of the process
    MaxFailures           \* bound on the two failure counters

ActionTypes == {"recheck", "run"}

ASSUME ProcessAssumption == Monitors \cap Requests = {}
ASSUME ConfigAssumption ==
    /\ NumChecks \in [Monitors -> Nat \ {0}]
    /\ Recovery \in [Monitors -> Seq(ActionTypes) \ {<<>>}]
    /\ FailureThreshold \in [Monitors -> Nat \ {0}]
    /\ MaxRecoveryAttempts \in [Monitors -> Nat]
    /\ Cooldown \in [Monitors -> Nat]
    /\ EventsMaxEntries \in Nat \ {0}
ASSUME EnvironmentAssumption ==
    /\ TicksPerSecond \in Nat \ {0}
    /\ SaveOutcomes \subseteq {"saved", "stateOld", "stateNew", "eventsOld", "eventsNew"}
    /\ EnabledSets \subseteq SUBSET Monitors
    /\ MaxTime \in Nat /\ MaxHalts \in Nat /\ MaxFailures \in Nat

VARIABLES
    daemon,       \* "down", "up", or "stopping" once the daemon's context is done
    enabled,      \* the monitors this run of the daemon has enabled
    current,      \* m.current.Monitors
    history,      \* m.eventHistory.Events
    dirty,        \* m.eventsDirty
    stateFile,    \* what a start would load from state.json
    eventsFile,   \* what a start would load from events.json
    lock,         \* m.monitorLocks: the contents of each one-slot channel
    pc,           \* where each goroutine is
    frame,        \* its local variables
    expired,      \* the calls whose five-minute context is done
    reply,        \* the answer each call slot gave last
    now,          \* the wall clock
    (* History variables: no action reads them. *)
    lastStart,    \* the time of the last durable recovery start, in a set
    autoFailures, \* failed automatic recovery runs of all time
    halts         \* ends of the process so far

memory == <<current, history, dirty>>
files  == <<stateFile, eventsFile>>
ghosts == <<lastStart, autoFailures, halts>>
vars   == <<daemon, enabled, memory, files, lock, pc, frame, expired, reply, now, ghosts>>

-----------------------------------------------------------------------------
(* Goroutines: a monitor's loop goes by the monitor's name.                *)
(*                                                                         *)
(* An operator called MutantX is a bug that X could have had; nothing here *)
(* uses it.  PROJECT.json names the property that each one breaks.         *)

Procs == Monitors \cup Requests

Statuses == {"unknown", "checking", "healthy", "degraded", "recovering", "failed", "disabled"}

PCs == {"off", "idle", "locking", "entered", "checking", "deciding",
        "prechecking", "starting", "acting", "running", "rechecking",
        "verifying", "restoring", "finishing", "releasing"}

NoResults == [ran |-> 0, bad |-> FALSE]

NewMonitorState ==
    [status |-> "unknown", consecutive |-> 0, recoveryFailures |-> 0,
     exhausted |-> FALSE, cooldownUntil |-> 0, results |-> NoResults]

\* on: the monitor; job: "check" or "recover"; before: the status to put back;
\* ran, bad: results so far of evaluateMonitor; step: index of the recovery
\* action; failed: executeRecovery returned an error; done: the outcome of the
\* job is recorded (read by properties only).
NewFrame(m, job) ==
    [on |-> m, job |-> job, before |-> "unknown", ran |-> 0, bad |-> FALSE,
     step |-> 1, failed |-> FALSE, done |-> FALSE]

\* A call's context times out; a loop's context is the daemon's.
Cancelled(p) == IF p \in Requests THEN p \in expired ELSE daemon = "stopping"

Goto(p, label) == pc' = [pc EXCEPT ![p] = label]

-----------------------------------------------------------------------------
(* Time, events and the two files. *)

\* Formatting with RFC3339 and parsing again drops the fraction of a second.
Format(t) == (t \div TicksPerSecond) * TicksPerSecond

CooldownEnd(m) == Format(now + Cooldown[m])

MutantCooldownActive(m) == current[m].cooldownUntil < now
CooldownActive(m) == current[m].cooldownUntil > now

Event(m, type) == [mon |-> m, type |-> type, at |-> Format(now)]

MutantTrimToLimit(h) ==
    IF Len(h) > EventsMaxEntries + 1
    THEN SubSeq(h, Len(h) - EventsMaxEntries, Len(h))
    ELSE h

TrimToLimit(h) ==
    IF Len(h) > EventsMaxEntries
    THEN SubSeq(h, Len(h) - EventsMaxEntries + 1, Len(h))
    ELSE h

\* persistLocked: first the state file, then, if there is news, the events.
\* A save fails without replacing the file ("Old") or after replacing it
\* ("New", the directory could not be flushed).
MutantSaveFails(o, news) == news /\ o \in {"eventsOld", "eventsNew"}

SaveFails(o, news) ==
    \/ o \in {"stateOld", "stateNew"}
    \/ news /\ o \in {"eventsOld", "eventsNew"}

MutantPersist(states, events, news, o) ==
    /\ eventsFile' = IF news /\ o \in {"saved", "stateOld", "stateNew"} THEN events ELSE eventsFile
    /\ stateFile' = IF o \in {"saved", "stateNew"} THEN states ELSE stateFile
    /\ dirty' = (news /\ SaveFails(o, news))

MutantDirtyPersist(states, events, news, o) ==
    /\ stateFile' = IF o = "stateOld" THEN stateFile ELSE states
    /\ eventsFile' = IF news /\ o \in {"saved", "eventsNew"} THEN events ELSE eventsFile
    /\ dirty' = FALSE

Persist(states, events, news, o) ==
    /\ stateFile' = IF o = "stateOld" THEN stateFile ELSE states
    /\ eventsFile' = IF news /\ o \in {"saved", "eventsNew"} THEN events ELSE eventsFile
    /\ dirty' = (news /\ SaveFails(o, news))

\* A block under m.mu that leaves monitor m in state s, appends events and saves.
Update(m, s, events, o) ==
    /\ o \in SaveOutcomes
    /\ current' = [current EXCEPT ![m] = s]
    /\ history' = TrimToLimit(history \o events)
    /\ Persist(current', history', dirty \/ events # <<>>, o)

-----------------------------------------------------------------------------
(* withMonitorLock *)

MutantAcquire(p) ==
    /\ pc[p] = "locking"
    /\ lock' = [lock EXCEPT ![frame[p].on] = @ \cup {p}]
    /\ Goto(p, "entered")
    /\ UNCHANGED <<daemon, enabled, memory, files, frame, expired, reply, now, ghosts>>

MutantGlobalAcquire(p) ==
    /\ pc[p] = "locking"
    /\ \A m \in Monitors : lock[m] = {}
    /\ lock' = [lock EXCEPT ![frame[p].on] = {p}]
    /\ Goto(p, "entered")
    /\ UNCHANGED <<daemon, enabled, memory, files, frame, expired, reply, now, ghosts>>

Acquire(p) ==
    /\ pc[p] = "locking"
    /\ lock[frame[p].on] = {}
    /\ lock' = [lock EXCEPT ![frame[p].on] = {p}]
    /\ Goto(p, "entered")
    /\ UNCHANGED <<daemon, enabled, memory, files, frame, expired, reply, now, ghosts>>

\* What a goroutine does when withMonitorLock has returned: a loop waits for
\* its ticker or ends, a call answers.
Return(p, ok) ==
    IF p \in Requests
    THEN /\ Goto(p, "idle")
         /\ reply' = [reply EXCEPT ![p] = IF ok THEN "ok" ELSE "error"]
         /\ expired' = expired \ {p}
    ELSE /\ Goto(p, IF Cancelled(p) THEN "off" ELSE "idle")
         /\ UNCHANGED <<reply, expired>>

MutantGiveUp(p) == FALSE

GiveUp(p) ==
    /\ pc[p] = "locking"
    /\ Cancelled(p)
    /\ Return(p, FALSE)
    /\ frame' = [frame EXCEPT ![p] = NewFrame(p, "check")]
    /\ UNCHANGED <<daemon, enabled, memory, files, lock, now, ghosts>>

MutantSucceeded(p) == ~Cancelled(p)
Succeeded(p) == ~Cancelled(p) /\ ~frame[p].failed

MutantUnlocked(p) == IF Cancelled(p) THEN lock ELSE [lock EXCEPT ![frame[p].on] = {}]
Unlocked(p) == [lock EXCEPT ![frame[p].on] = {}]

Release(p) ==
    /\ pc[p] = "releasing"
    /\ lock' = Unlocked(p)
    /\ Return(p, Succeeded(p))
    /\ frame' = [frame EXCEPT ![p] = NewFrame(p, "check")]
    /\ UNCHANGED <<daemon, enabled, memory, files, now, ghosts>>

-----------------------------------------------------------------------------
(* evaluateMonitor: checks run in turn until all have run or the context is done. *)

Evaluating == {"checking", "prechecking", "rechecking", "verifying"}

\* The bound on the two counters of failures: each where it would be raised
MayFail(p) ==
    LET s == current[frame[p].on] IN
    IF pc[p] = "checking" THEN s.consecutive < MaxFailures ELSE s.recoveryFailures < MaxFailures

RunCheck(p) ==
    LET m == frame[p].on IN
    /\ pc[p] \in Evaluating
    /\ ~Cancelled(p)
    /\ frame[p].ran < NumChecks[m]
    /\ \E success \in BOOLEAN :
        /\ success \/ MayFail(p)
        /\ frame' = [frame EXCEPT ![p] = [frame[p] EXCEPT !.ran = @ + 1, !.bad = @ \/ ~success]]
    /\ UNCHANGED <<daemon, enabled, memory, files, lock, pc, expired, reply, now, ghosts>>

Evaluated(p) == frame[p].ran = NumChecks[frame[p].on] \/ Cancelled(p)

Results(p) == [ran |-> frame[p].ran, bad |-> frame[p].bad]

-----------------------------------------------------------------------------
(* runMonitorCycle, up to the decision to recover *)

MarkChecking(p) ==
    LET m == frame[p].on IN
    /\ pc[p] = "entered" /\ frame[p].job = "check"
    /\ ~Cancelled(p)
    /\ \E o \in SaveOutcomes : Update(m, [current[m] EXCEPT !.status = "checking"], <<>>, o)
    /\ frame' = [frame EXCEPT ![p].before = current[m].status]
    /\ Goto(p, "checking")
    /\ UNCHANGED <<daemon, enabled, lock, expired, reply, now, ghosts>>

\* The context is done before the callback (either job) has started.
SkipCancelled(p) ==
    /\ pc[p] = "entered"
    /\ Cancelled(p)
    /\ Goto(p, "releasing")
    /\ UNCHANGED <<daemon, enabled, memory, files, lock, frame, expired, reply, now, ghosts>>

MutantPutBack(p) == \E o \in SaveOutcomes : Update(frame[p].on, current[frame[p].on], <<>>, o)

\* The status from before the operation is put back.
PutBack(p) ==
    LET m == frame[p].on IN
    \E o \in SaveOutcomes : Update(m, [current[m] EXCEPT !.status = frame[p].before], <<>>, o)

RestoreCancelledCheck(p) ==
    /\ pc[p] = "checking"
    /\ Cancelled(p)
    /\ PutBack(p)
    /\ Goto(p, "releasing")
    /\ UNCHANGED <<daemon, enabled, lock, frame, expired, reply, now, ghosts>>

MutantShouldRecordHealthyEvent(status) == status = "degraded"
ShouldRecordHealthyEvent(status) == status \in {"degraded", "failed", "recovering"}

MutantPassed(p) == Evaluated(p) /\ ~frame[p].bad
Passed(p) == Evaluated(p) /\ ~Cancelled(p) /\ ~frame[p].bad

RecordHealthy(p) ==
    LET m == frame[p].on
        events == IF ShouldRecordHealthyEvent(frame[p].before)
                  THEN <<Event(m, "check_succeeded")>> ELSE <<>>
    IN
    /\ pc[p] = "checking"
    /\ Passed(p)
    /\ \E o \in SaveOutcomes :
        Update(m, [current[m] EXCEPT !.status = "healthy", !.consecutive = 0,
                                     !.exhausted = FALSE, !.results = Results(p)], events, o)
    /\ frame' = [frame EXCEPT ![p].done = TRUE]
    /\ Goto(p, "releasing")
    /\ UNCHANGED <<daemon, enabled, lock, expired, reply, now, ghosts>>

MutantShouldRecover(m, failures) == failures + 1 >= FailureThreshold[m] /\ ~CooldownActive(m)
ShouldRecover(m, failures) == failures >= FailureThreshold[m] /\ ~CooldownActive(m)

RecordFailure(p) ==
    LET m == frame[p].on
        failures == current[m].consecutive + 1
    IN
    /\ pc[p] = "checking"
    /\ Evaluated(p) /\ ~Cancelled(p) /\ frame[p].bad
    /\ \E o \in SaveOutcomes :
        Update(m, [current[m] EXCEPT !.status = "degraded", !.consecutive = failures,
                                     !.results = Results(p)],
               <<Event(m, "check_failed")>>, o)
    /\ frame' = [frame EXCEPT ![p].done = TRUE]
    /\ Goto(p, IF ShouldRecover(m, failures) THEN "deciding" ELSE "releasing")
    /\ UNCHANGED <<daemon, enabled, lock, expired, reply, now, ghosts>>

-----------------------------------------------------------------------------
(* The recovery cap *)

MutantAttemptsExhausted(m, s) ==
    MaxRecoveryAttempts[m] > 0 /\ s.recoveryFailures > MaxRecoveryAttempts[m]

AttemptsExhausted(m, s) ==
    MaxRecoveryAttempts[m] > 0 /\ s.recoveryFailures >= MaxRecoveryAttempts[m]

\* appendRecoveryExhaustedEventLocked, the state it leaves
Exhaust(m, s) ==
    [s EXCEPT !.status = "failed", !.exhausted = TRUE, !.cooldownUntil = CooldownEnd(m)]

\* markRecoveryExhaustedLocked: news only the first time
SuppressRecovery(p) ==
    LET m == frame[p].on
        s == current[m]
    IN
    /\ pc[p] = "deciding"
    /\ AttemptsExhausted(m, s)
    /\ \E o \in SaveOutcomes :
        IF s.exhausted
        THEN Update(m, [s EXCEPT !.status = "failed"], <<>>, o)
        ELSE Update(m, Exhaust(m, s), <<Event(m, "recovery_exhausted")>>, o)
    /\ Goto(p, "releasing")
    /\ UNCHANGED <<daemon, enabled, lock, frame, expired, reply, now, ghosts>>

-----------------------------------------------------------------------------
(* runForcedRecovery, up to executeRecovery *)

BeginForced(p) ==
    /\ pc[p] = "entered" /\ frame[p].job = "recover"
    /\ ~Cancelled(p)
    /\ Goto(p, "prechecking")
    /\ UNCHANGED <<daemon, enabled, memory, files, lock, frame, expired, reply, now, ghosts>>

ReadStatusBefore(p) ==
    /\ pc[p] = "prechecking"
    /\ Evaluated(p)
    /\ IF Cancelled(p)
       THEN Goto(p, "releasing") /\ UNCHANGED frame
       ELSE /\ Goto(p, "starting")
            /\ frame' = [frame EXCEPT ![p].before = current[frame[p].on].status]
    /\ UNCHANGED <<daemon, enabled, memory, files, lock, expired, reply, now, ghosts>>

-----------------------------------------------------------------------------
(* executeRecovery *)

AtStart(p) ==
    \/ pc[p] = "starting"
    \/ pc[p] = "deciding" /\ ~AttemptsExhausted(frame[p].on, current[frame[p].on])

AbandonStart(p) ==
    /\ AtStart(p)
    /\ Cancelled(p)
    /\ Goto(p, "releasing")
    /\ UNCHANGED <<daemon, enabled, memory, files, lock, frame, expired, reply, now, ghosts>>

\* No action runs unless the start and its cooldown are saved.
StartRecovery(p) ==
    LET m == frame[p].on
        next == [current[m] EXCEPT !.status = "recovering", !.cooldownUntil = CooldownEnd(m)]
        before == IF frame[p].job = "check" THEN "degraded" ELSE frame[p].before
    IN
    /\ AtStart(p)
    /\ ~Cancelled(p)
    /\ \E o \in SaveOutcomes :
        LET fails == SaveFails(o, TRUE) IN
        /\ Update(m, next, <<Event(m, "recovery_started")>>, o)
        /\ Goto(p, IF fails THEN "restoring" ELSE "acting")
        /\ frame' = [frame EXCEPT ![p] =
                [frame[p] EXCEPT !.before = before, !.step = 1,
                          !.failed = fails /\ frame[p].job = "recover"]]
        /\ lastStart' = IF fails THEN lastStart ELSE [lastStart EXCEPT ![m] = {now}]
    /\ UNCHANGED <<daemon, enabled, lock, expired, reply, now, autoFailures, halts>>

\* The context is found done around an action or an evaluation.
InterruptRecovery(p) ==
    /\ pc[p] \in {"acting", "running", "rechecking", "verifying"}
    /\ Cancelled(p)
    /\ Goto(p, "restoring")
    /\ UNCHANGED <<daemon, enabled, memory, files, lock, frame, expired, reply, now, ghosts>>

BeginAction(p) ==
    /\ pc[p] = "acting"
    /\ ~Cancelled(p)
    /\ Goto(p, "running")
    /\ UNCHANGED <<daemon, enabled, memory, files, lock, frame, expired, reply, now, ghosts>>

\* The next action, or the closing evaluation after the last one.
Advance(p) ==
    IF frame[p].step < Len(Recovery[frame[p].on])
    THEN /\ Goto(p, "acting")
         /\ frame' = [frame EXCEPT ![p].step = @ + 1]
    ELSE /\ Goto(p, "verifying")
         /\ frame' = [frame EXCEPT ![p] = [frame[p] EXCEPT !.ran = 0, !.bad = FALSE]]

EndAction(p) ==
    LET m == frame[p].on IN
    /\ pc[p] = "running"
    /\ ~Cancelled(p)
    /\ \/ /\ Recovery[m][frame[p].step] = "recheck"
          /\ Goto(p, "rechecking")
          /\ frame' = [frame EXCEPT ![p] = [frame[p] EXCEPT !.ran = 0, !.bad = FALSE]]
       \/ /\ Recovery[m][frame[p].step] = "run"
          /\ Advance(p)
       \/ /\ Recovery[m][frame[p].step] = "run"
          /\ MayFail(p)
          /\ Goto(p, "finishing")
          /\ frame' = [frame EXCEPT ![p] = [frame[p] EXCEPT !.ran = 0, !.bad = TRUE]]
    /\ UNCHANGED <<daemon, enabled, memory, files, lock, expired, reply, now, ghosts>>

EndRecheck(p) ==
    /\ pc[p] = "rechecking"
    /\ Evaluated(p) /\ ~Cancelled(p)
    /\ IF frame[p].bad THEN Advance(p) ELSE Goto(p, "finishing") /\ UNCHANGED frame
    /\ UNCHANGED <<daemon, enabled, memory, files, lock, expired, reply, now, ghosts>>

EndVerify(p) ==
    /\ pc[p] = "verifying"
    /\ Evaluated(p) /\ ~Cancelled(p)
    /\ Goto(p, "finishing")
    /\ UNCHANGED <<daemon, enabled, memory, files, lock, frame, expired, reply, now, ghosts>>

\* The deferred function of executeRecovery, and the canceled branch of its
\* callers after it has returned.
RestoreStatus(p) ==
    /\ pc[p] = "restoring" \/ (pc[p] = "finishing" /\ Cancelled(p))
    /\ PutBack(p)
    /\ Goto(p, "releasing")
    /\ UNCHANGED <<daemon, enabled, lock, frame, expired, reply, now, ghosts>>

-----------------------------------------------------------------------------
(* applyRecoveryOutcomeLocked *)

PostResults(p) ==
    IF frame[p].ran > 0 THEN Results(p) ELSE current[frame[p].on].results

RecordRecovery(p) ==
    LET m == frame[p].on IN
    /\ pc[p] = "finishing"
    /\ ~Cancelled(p) /\ ~frame[p].bad
    /\ \E o \in SaveOutcomes :
        Update(m, [current[m] EXCEPT !.status = "healthy", !.consecutive = 0,
                                     !.exhausted = FALSE, !.cooldownUntil = CooldownEnd(m),
                                     !.results = PostResults(p)],
               <<Event(m, "recovery_succeeded")>>, o)
    /\ frame' = [frame EXCEPT ![p].done = TRUE]
    /\ Goto(p, "releasing")
    /\ UNCHANGED <<daemon, enabled, lock, expired, reply, now, ghosts>>

RecordFailedRecovery(p) ==
    LET m == frame[p].on
        s == [current[m] EXCEPT !.status = "failed", !.recoveryFailures = @ + 1,
                                !.cooldownUntil = CooldownEnd(m), !.results = PostResults(p)]
        failed == <<Event(m, "recovery_failed")>>
    IN
    /\ pc[p] = "finishing"
    /\ ~Cancelled(p) /\ frame[p].bad
    /\ \E o \in SaveOutcomes :
        IF AttemptsExhausted(m, s)
        THEN Update(m, Exhaust(m, s), failed \o <<Event(m, "recovery_exhausted")>>, o)
        ELSE Update(m, s, failed, o)
    /\ frame' = [frame EXCEPT ![p].done = TRUE]
    /\ autoFailures' = IF frame[p].job = "check"
                       THEN [autoFailures EXCEPT ![m] = @ + 1] ELSE autoFailures
    /\ Goto(p, "releasing")
    /\ UNCHANGED <<daemon, enabled, lock, expired, reply, now, lastStart, halts>>

-----------------------------------------------------------------------------
(* runMonitorLoop, between two cycles *)

LoopTick(m) ==
    /\ pc[m] = "idle"
    /\ Goto(m, "locking")
    /\ UNCHANGED <<daemon, enabled, memory, files, lock, frame, expired, reply, now, ghosts>>

LoopStop(m) ==
    /\ pc[m] = "idle"
    /\ Cancelled(m)
    /\ Goto(m, "off")
    /\ UNCHANGED <<daemon, enabled, memory, files, lock, frame, expired, reply, now, ghosts>>

(* serveMonitorRoute: TriggerCheck and TriggerRecovery *)

Arrive(r, m, job) ==
    /\ pc[r] = "idle"
    /\ IF m \in enabled
       THEN /\ Goto(r, "locking")
            /\ frame' = [frame EXCEPT ![r] = NewFrame(m, job)]
            /\ reply' = [reply EXCEPT ![r] = "none"]
       ELSE /\ reply' = [reply EXCEPT ![r] = "error"]
            /\ UNCHANGED <<pc, frame>>
    /\ UNCHANGED <<daemon, enabled, memory, files, lock, expired, now, ghosts>>

Expire(r) ==
    /\ pc[r] \notin {"off", "idle"}
    /\ r \notin expired
    /\ expired' = expired \cup {r}
    /\ UNCHANGED <<daemon, enabled, memory, files, lock, pc, frame, reply, now, ghosts>>

-----------------------------------------------------------------------------
(* main.go and NewManager *)

\* A loop is always on its own monitor, a call slot is on none between two calls.
NoFrames == [p \in Procs |-> NewFrame(p, "check")]

\* A signal, or the API server failing: the daemon's context is done.
Terminate ==
    /\ daemon = "up"
    /\ daemon' = "stopping"
    /\ UNCHANGED <<enabled, memory, files, lock, pc, frame, expired, reply, now, ghosts>>

\* The process ends, with main's return or in a crash, wherever its goroutines
\* are: nothing waits for the monitor loops.  Memory is gone; what it holds
\* while the daemon is down has no meaning and is what a start will load.
Halt ==
    /\ daemon # "down" /\ halts < MaxHalts
    /\ daemon' = "down"
    /\ halts' = halts + 1
    /\ current' = stateFile /\ history' = eventsFile /\ dirty' = FALSE
    /\ lock' = [m \in Monitors |-> {}]
    /\ pc' = [p \in Procs |-> "off"]
    /\ frame' = NoFrames
    /\ expired' = {}
    /\ reply' = [r \in Requests |-> "none"]
    /\ UNCHANGED <<enabled, files, now, lastStart, autoFailures>>

\* NewManager and Start.  Statuses are taken over from the file, except that a
\* monitor that is not enabled is "disabled".  A save that fails ends the start.
Start ==
    /\ daemon = "down"
    /\ \E on \in EnabledSets, o \in SaveOutcomes :
        LET fails == SaveFails(o, TRUE)
            loaded == [m \in Monitors |->
                         [stateFile[m] EXCEPT !.status = IF m \in on THEN @ ELSE "disabled"]]
        IN
        /\ Persist(loaded, TrimToLimit(eventsFile), TRUE, o)
        /\ current' = IF fails THEN stateFile' ELSE loaded
        /\ history' = IF fails THEN eventsFile' ELSE TrimToLimit(eventsFile)
        /\ daemon' = IF fails THEN "down" ELSE "up"
        /\ enabled' = on
        /\ pc' = [p \in Procs |-> IF fails \/ p \notin Requests \cup on THEN "off"
                                 ELSE IF p \in Requests THEN "idle" ELSE "locking"]
    /\ UNCHANGED <<lock, frame, expired, reply, now, ghosts>>

Tick ==
    /\ now < MaxTime
    /\ now' = now + 1
    /\ UNCHANGED <<daemon, enabled, memory, files, lock, pc, frame, expired, reply, ghosts>>

-----------------------------------------------------------------------------

Init ==
    /\ daemon = "down"
    /\ enabled = {}
    /\ current = [m \in Monitors |-> NewMonitorState]
    /\ history = <<>>
    /\ dirty = FALSE
    /\ stateFile = [m \in Monitors |-> NewMonitorState]
    /\ eventsFile = <<>>
    /\ lock = [m \in Monitors |-> {}]
    /\ pc = [p \in Procs |-> "off"]
    /\ frame = NoFrames
    /\ expired = {}
    /\ reply = [r \in Requests |-> "none"]
    /\ now = 0
    /\ lastStart = [m \in Monitors |-> {}]
    /\ autoFailures = [m \in Monitors |-> 0]
    /\ halts = 0

\* The steps of a goroutine inside withMonitorLock
Step(p) ==
    \/ Acquire(p) \/ GiveUp(p) \/ SkipCancelled(p) \/ Release(p)
    \/ MarkChecking(p) \/ RunCheck(p) \/ RestoreCancelledCheck(p)
    \/ RecordHealthy(p) \/ RecordFailure(p) \/ SuppressRecovery(p)
    \/ BeginForced(p) \/ ReadStatusBefore(p)
    \/ AbandonStart(p) \/ StartRecovery(p) \/ InterruptRecovery(p)
    \/ BeginAction(p) \/ EndAction(p) \/ EndRecheck(p) \/ EndVerify(p)
    \/ RestoreStatus(p) \/ RecordRecovery(p) \/ RecordFailedRecovery(p)

Next ==
    \/ \E p \in Procs : Step(p)
    \/ \E m \in Monitors : LoopTick(m) \/ LoopStop(m)
    \/ \E r \in Requests : Expire(r)
    \/ \E r \in Requests, m \in Monitors, job \in {"check", "recover"} : Arrive(r, m, job)
    \/ Terminate
    \/ Halt
    \/ Start
    \/ Tick

Spec == Init /\ [][Next]_vars

=============================================================================
