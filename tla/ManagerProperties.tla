-------------------------- MODULE ManagerProperties --------------------------
(***************************************************************************)
(* What the engine promises, for the users of its API and for an operator  *)
(* who reads its two files after a restart.                                *)
(***************************************************************************)
EXTENDS Manager

EventTypes == {"check_succeeded", "check_failed", "recovery_started",
               "recovery_succeeded", "recovery_failed", "recovery_exhausted"}

EvaluationResults == [ran : Nat, bad : BOOLEAN]

MonitorState ==
    [status : Statuses, consecutive : Nat, recoveryFailures : Nat,
     exhausted : BOOLEAN, cooldownUntil : Nat, results : EvaluationResults]

Frame ==
    [on : Procs, job : {"check", "recover"}, before : Statuses, ran : Nat,
     bad : BOOLEAN, step : Nat, failed : BOOLEAN, done : BOOLEAN]

Events == [mon : Monitors, type : EventTypes, at : Nat]

Histories == {h \in Seq(Events) : Len(h) <= EventsMaxEntries}

Busy(p) == pc[p] \notin {"off", "idle"}

\* Every variable keeps its type.  A loop is on its own monitor, a call slot
\* with a call in it is on some monitor, and the history never exceeds
\* EventsMaxEntries, in memory or on disk (appendEventLocked, trimToLimit).
TypeOK ==
    /\ daemon \in {"down", "up", "stopping"}
    /\ enabled \in SUBSET Monitors
    /\ current \in [Monitors -> MonitorState]
    /\ history \in Histories
    /\ dirty \in BOOLEAN
    /\ stateFile \in [Monitors -> MonitorState]
    /\ eventsFile \in Histories
    /\ lock \in [Monitors -> SUBSET Procs]
    /\ pc \in [Procs -> PCs]
    /\ frame \in [Procs -> Frame]
    /\ \A m \in Monitors : frame[m].on = m
    /\ \A r \in Requests : Busy(r) => frame[r].on \in Monitors
    /\ expired \in SUBSET Requests
    /\ reply \in [Requests -> {"none", "ok", "error"}]
    /\ now \in Nat
    /\ lastStart \in [Monitors -> SUBSET Nat]
    /\ autoFailures \in [Monitors -> Nat]
    /\ halts \in Nat

-----------------------------------------------------------------------------
(* Interleavings *)

InCallback == PCs \ {"off", "idle", "locking"}

\* Whoever is inside withMonitorLock's callback holds the monitor's one slot,
\* so a scheduled check, a manual check and a manual recovery of one monitor
\* never overlap; different monitors are free of each other.
OneOperationPerMonitor ==
    \A p, q \in Procs :
        pc[p] \in InCallback /\ pc[q] \in InCallback /\ frame[p].on = frame[q].on => p = q

\* The slot of a monitor is taken exactly by whoever is inside the callback on
\* it: no early return, timeout or failed save keeps it (withMonitorLock's
\* deferred receive), and nobody gives away a slot that is not theirs.
SlotIsReturned ==
    \A m \in Monitors : lock[m] = {p \in Procs : pc[p] \in InCallback /\ frame[p].on = m}

Recovering == {"acting", "running", "rechecking", "verifying", "restoring", "finishing"}

\* While this process lives, a monitor shows "checking" or "recovering" only as
\* long as somebody is at it: every way out of an operation, a timeout and a
\* failed save included, leaves a lasting status behind.  (A process that dies
\* leaves such a status in the file; that is why this is stated for a first
\* life of the daemon only.)
TransientStatusIsLive ==
    \A m \in Monitors :
        /\ current[m].status = "checking" =>
             \E p \in Procs : frame[p].on = m /\ pc[p] = "checking"
        /\ current[m].status = "recovering" =>
             \E p \in Procs : frame[p].on = m /\ pc[p] \in Recovering

\* A status that tells of work nobody does any more, shown or about to be put back
Stranded(m) ==
    \/ /\ current[m].status = "checking"
       /\ ~ \E p \in Procs : frame[p].on = m /\ pc[p] = "checking"
    \/ /\ current[m].status = "recovering"
       /\ ~ \E p \in Procs : frame[p].on = m /\ pc[p] \in Recovering
    \/ \E p \in Procs :
         /\ frame[p].on = m /\ frame[p].before \in {"checking", "recovering"}
         /\ pc[p] \in {"checking", "starting"} \cup Recovering

\* Only an end of the process strands a monitor, whose "checking" or "recovering"
\* the next start then finds in the file: no timeout, failed save or other way
\* out of an operation does (runMonitorCycle, executeRecovery).  And the first
\* operation that runs to its end puts it right.
OnlyAnEndStrands ==
    [][/\ \A m \in Monitors : Stranded(m)' => Stranded(m) \/ halts' # halts
       /\ \A p \in Procs :
            frame'[p].done /\ ~frame[p].done => ~Stranded(frame[p].on)']_vars

\* How far an operation is
Stage(label) ==
    CASE label = "entered" -> 0
      [] label \in {"checking", "prechecking"} -> 1
      [] label \in {"deciding", "starting"} -> 2
      [] label \in {"acting", "running", "rechecking"} -> 3
      [] label = "verifying" -> 4
      [] label = "finishing" -> 5
      [] label = "restoring" -> 6
      [] label = "releasing" -> 7

\* A later stage, the next action, a later part of one action, or one more check
\* of an evaluation
Forward(p) ==
    LET m == frame[p].on IN
    \/ Stage(pc[p]) < Stage(pc'[p])
    \/ /\ Stage(pc[p]) = 3 /\ Stage(pc'[p]) = 3
       /\ frame'[p].step \in (frame[p].step + 1)..Len(Recovery[m])
    \/ /\ <<pc[p], pc'[p]>> \in {<<"acting", "running">>, <<"running", "rechecking">>}
       /\ frame'[p].step = frame[p].step
    \/ /\ pc'[p] = pc[p] /\ frame'[p].step = frame[p].step
       /\ frame'[p].ran \in (frame[p].ran + 1)..NumChecks[m]

\* An operation never goes round in a circle: whatever its checks and actions
\* answer, when its context ends and which saves fail, each of its steps takes it
\* forward, so that it has a bounded number of them and then returns the slot.
\* (A "recheck" that fails goes on with the next action, never with the same.)
OperationsAreBounded ==
    [][\A p \in Procs :
         (/\ pc[p] \in InCallback /\ pc'[p] \in InCallback
          /\ pc'[p] # pc[p] \/ frame'[p] # frame[p])
             => Forward(p)]_vars

\* "healthy", in memory or on disk, rests on an evaluation in which every
\* configured check ran and passed: an evaluation cut short by a timeout has
\* no failure reason either, and is never taken for a success.
HealthyIsEvidenced ==
    \A m \in Monitors : \A s \in {current[m], stateFile[m]} :
        s.status = "healthy" => s.results = [ran |-> NumChecks[m], bad |-> FALSE]

\* A control call is answered "ok" only when its operation ran to its end: a
\* check or a recovery whose outcome is in the state.
RepliesAreTruthful ==
    [][\A r \in Requests : reply'[r] = "ok" /\ reply[r] # "ok" => frame[r].done]_vars

-----------------------------------------------------------------------------
(* The two files, crashes and failed saves *)

\* The last event of m that h still has, if any, is the start of a recovery.
LastIsStart(h, m) ==
    \A i \in DOMAIN h :
        h[i].mon = m /\ (\A j \in DOMAIN h : h[j].mon = m => j <= i)
            => h[i].type = "recovery_started"

\* The recovery is under way, from the durable record of its start on.
Acting == Recovering \ {"restoring"}

\* No recovery action has an effect on the system before the files tell of it:
\* from the first action to the recording of the outcome, state.json holds the
\* monitor as memory does, "recovering" and with its cooldown, and the last
\* event of the monitor that events.json still has is this start.
ActionsAreDurable ==
    \A p \in Procs : pc[p] \in Acting =>
        /\ stateFile[frame[p].on] = current[frame[p].on]
        /\ current[frame[p].on].status = "recovering"
        /\ LastIsStart(eventsFile, frame[p].on)

\* While the daemon runs, a history that differs from events.json is marked
\* dirty, so that the next save writes it, whatever failed before.
UnsavedHistoryIsDirty == daemon # "down" /\ ~dirty => eventsFile = history

\* The events are never ahead of the state: a start of a recovery that
\* events.json tells of has its cooldown in state.json, up to the second that
\* a timestamp drops.  A crash between the two saves loses the event, never
\* the cooldown.
EventsNeverAheadOfState ==
    \A i \in DOMAIN eventsFile :
        LET e == eventsFile[i] IN
        e.type = "recovery_started" =>
            stateFile[e.mon].cooldownUntil + TicksPerSecond > e.at + Cooldown[e.mon]

\* h[i] is the last event before h[j] about the same monitor.
DirectlyBefore(h, i, j) ==
    /\ i < j /\ h[i].mon = h[j].mon
    /\ \A k \in DOMAIN h : i < k /\ k < j => h[k].mon # h[j].mon

Chronological(h) ==
    \A i, j \in DOMAIN h : i <= j /\ h[i].mon = h[j].mon => h[i].at <= h[j].at

MayFollow(type, next) ==
    /\ next \in {"recovery_succeeded", "recovery_failed"} => type = "recovery_started"
    /\ next = "recovery_exhausted" => type \in {"check_failed", "recovery_failed"}

OutcomesFollow(h) ==
    \A i, j \in DOMAIN h : DirectlyBefore(h, i, j) => MayFollow(h[i].type, h[j].type)

\* What GET /events answers of a monitor and what the file tells of it after any
\* crash and any failed saves: its events are in the order of their timestamps,
\* every outcome of a recovery comes right after its start (unless the limit has
\* cut that off), and recovery is given up right after the failure that was one
\* too many.  (Not so between monitors: a check reads the clock before it waits
\* for m.mu, and the event of another monitor may come first.)
HistoryTellsInOrder ==
    \A h \in {history, eventsFile} : Chronological(h) /\ OutcomesFollow(h)

-----------------------------------------------------------------------------
(* The recovery policy *)

\* An automatic recovery begins only when the cooldown since the last recovery
\* of the monitor, automatic or forced, has passed (less the fraction of a
\* second that the timestamp drops), whatever restarts and failed saves lie
\* between the two.
CooldownRespected ==
    [][\A p \in Procs :
         pc[p] = "deciding" /\ pc'[p] = "acting" =>
             \A t \in lastStart[frame[p].on] :
                 now + TicksPerSecond > t + Cooldown[frame[p].on]]_vars

\* max_recovery_attempts caps the automatic recoveries that fail, over all
\* restarts: an end of the process can hide at most one failed run from the
\* counter, because the next run begins only after the counter is on disk.
RecoveryBudget ==
    \A m \in Monitors :
        MaxRecoveryAttempts[m] > 0 => autoFailures[m] <= MaxRecoveryAttempts[m] + halts

\* history[i] is the last finished check or recovery of m that is remembered.
IsLatest(m, i) ==
    LET Tells(j) == history[j].mon = m /\ history[j].type # "recovery_started"
    IN  Tells(i) /\ \A j \in DOMAIN history : Tells(j) => j <= i

\* In one life of the daemon the history explains the status (recordings in
\* runMonitorCycle and applyRecoveryOutcomeLocked; ARCHITECTURE.md:19): the last
\* finished check or recovery of m that it still has is a success if m is
\* healthy, a failure if m is degraded or failed.
HistoryAgrees ==
    \A m \in Monitors : \A i \in DOMAIN history :
        IsLatest(m, i) =>
            /\ current[m].status = "healthy" =>
                 history[i].type \in {"check_succeeded", "recovery_succeeded"}
            /\ current[m].status \in {"degraded", "failed"} =>
                 history[i].type \in {"check_failed", "recovery_failed", "recovery_exhausted"}

\* RecoveryPolicy's view of the engine: who is inside the callback on m and at
\* which job; the monitors that have a recovery under way whose start is on disk;
\* and the counts of failures
WorkingOn(m) == {p \in Procs : pc[p] \in InCallback /\ frame[p].on = m}

Work == [m \in Monitors |-> {<<p, frame[p].job>> : p \in WorkingOn(m)}]

UnderRecovery == {m \in Monitors : \E p \in WorkingOn(m) : pc[p] \in Acting}

FailuresInRow == [m \in Monitors |-> current[m].consecutive]

SavedFailures == [m \in Monitors |-> stateFile[m].consecutive]

Policy == INSTANCE RecoveryPolicy WITH
    Callers <- Procs,
    working <- Work, acting <- UnderRecovery,
    row <- FailuresInRow, saved <- SavedFailures,
    last <- lastStart, spent <- autoFailures, lives <- halts

\* Whatever the goroutines, timeouts, failed saves and restarts do, the engine
\* runs recovery actions only as RecoveryPolicy says: for one caller at a time;
\* on its own account only after failure_threshold failures in a row (a restart
\* may go back to an older count, never invent one), outside the cooldown, and
\* below the cap; and no interrupted recovery counts for anything.
KeepsPolicy == Policy!Spec

-----------------------------------------------------------------------------
(* What GET /health makes of it *)

\* What Snapshot and serveHealth answer, see module Snapshot
HealthOK == \A m \in Monitors : current[m].status \notin {"failed", "degraded", "unknown"}

\* README.md:181: GET /health answers 200 "while the daemon is healthy or actively
\* recovering"; so a monitor whose last evaluation failed is being recovered.
HealthyAnswerIsEarned ==
    daemon # "down" /\ HealthOK =>
        \A m \in enabled : current[m].results.bad => current[m].status = "recovering"

-----------------------------------------------------------------------------
(* Liveness *)

\* What is assumed of monitor m alone.  Its checks and actions end (every
\* command, request and dial has a timeout) and its ticker ticks.  Its loop gets
\* its turn at a contended slot, since the senders of a Go channel wait in a
\* queue.  Of a call, wherever it is, only that its context ends after five
\* minutes and that its select notices.  Any other goroutine may hang for ever.
FairFor(m) ==
    /\ SF_vars(Acquire(m)) /\ WF_vars(LoopTick(m) \/ Step(m))
    /\ \A r \in Requests :
         WF_vars(Expire(r)) /\ WF_vars((frame[r].on = m \/ pc[r] = "locking") /\ Step(r))

\* As long as the daemon runs, m is checked again and again if it is enabled:
\* no timeout, failed save or control call takes its slot away for good.
Watched(m) == daemon = "up" /\ m \in enabled ~> pc[m] = "checking" \/ daemon # "up"

\* A control call on m is answered, unless the process ends; and no call waits
\* for ever for the slot of any monitor, not even of one that hangs.
Answered(m) ==
    \A r \in Requests :
        /\ Busy(r) /\ frame[r].on = m ~> ~Busy(r)
        /\ pc[r] = "locking" ~> pc[r] # "locking"

=============================================================================
