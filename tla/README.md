# A verification project for rpi-procmon

TLA+ models of rpi-procmon, a daemon that watches the services of a Raspberry
Pi, model-checked with TLC and proved about with TLAPS.  Paths are relative to
the repository.

## 1. The system

One process (`main.go`) loads a configuration, opens a log, builds the engine
from two files, starts an HTTP server and one goroutine per enabled monitor, and
ends on a signal or when the server fails.  systemd starts it again.

| component | state | operations | interacts with |
|---|---|---|---|
| engine, `internal/engine/manager.go` | runtime state and event history in memory, the flag that the history has unsaved events, a one-slot channel per monitor, the mutex `mu` | the loop and check cycle of a monitor, recovery automatic or forced, snapshots | everything below |
| control API, `internal/api/server.go` | a five-minute context per call | check, recover; status, events, health | calls the engine, concurrently with the loops |
| state store, event store, `internal/state`, `internal/events` | `state.json`, `events.json` | load at start, save after every block under `mu` | the atomic files |
| atomic files, `internal/persistence/json.go` | temporary files, the directory | Save: write, flush, rename, flush the directory; Load: quarantine what is corrupt | the file system |
| configuration, `internal/config` | the configuration file | defaults, validation, dropping duplicates, rewriting the file | read once, at start |
| checks, actions, command runner, `internal/checks`, `internal/actions`, `internal/command` | a process group per command; the passes over a log; what of `/proc` has been read | HTTP, load, docker, systemd, open files; local or over SSH with fallback hosts | called by the engine without a lock |
| web UI, `internal/api/ui/index.html` | the page's last answers | polls, posts control calls | the API |
| logging, `internal/logging` | - | append a line | everyone writes to it |
| scripts and unit, `scripts/`, `systemd/` | files of the host | install, bootstrap, uninstall; Restart=always | run by the operator, and by systemd |

What is hard here, with the properties that make a component correct:

* **Engine, concurrency.**  A monitor's scheduled cycle, manual checks and
  manual recoveries run on the same record, which is unlocked for minutes while
  a check or an action runs.  They must never overlap on one monitor, must never
  hold up another, and must leave no "checking" or "recovering" behind when they
  are cut short.
* **Engine, cancellation.**  A context may be done between any two steps.  An
  evaluation that stops because of it has no failure reason, just as one that
  succeeds: it must change nothing that counts.
* **Engine, crashes and failed saves.**  Memory goes first, then `state.json`,
  then `events.json`; each save may fail with or without having replaced the
  file.  No action may run before its start and its cooldown are on disk; no
  restart may shorten a cooldown or hand out more than the allowed attempts.
* **Files.**  A crash leaves the old contents or the new ones, after success
  only the new.
* **Read side.**  The overall status must not depend on the order of monitors;
  a query for events must miss nothing it was asked for.
* **Commands.**  Success only for a command that ended with success in time
  and within the output limit; a fallback host only after a connection failure.
* **Checks.**  A check passes only if what it ran or read says so: a log whose
  lines are out of order, a process that ends while `/proc` is read, an exit code
  that is not the command's own must not turn the verdict round.
* **Configuration.**  The daemon writes the file that it has just read.  What it
  writes, and what a crash leaves of it, must be what the operator wrote; and what
  it accepts, the engine must be able to run.

`PROJECT.json` lists every component with its status, and under `hazards` what
in this code a test would hardly reach, line by line, with the properties that
would notice it.

## 2. Modules

| module | models | beside it |
|---|---|---|
| `Manager` | the engine with its control calls, its two files, crashes and restarts | `ManagerProperties` (what it promises), `RecoveryPolicy` (the abstract promise), `MCManager` (instances), `ManagerProofs`, `StatusProofs`, `PolicyProofs` |
| `AtomicFile` | `persistence/json.go`, one file | `Register` (the abstract promise), `AtomicFileProofs` |
| `Snapshot` | `Manager.Snapshot` and `GET /health` | `QueryProofs` |
| `EventQuery` | `Manager.EventsSnapshot` and `GET /events` | `QueryProofs`; `MCQueries` has both readers |
| `ConfigLoad` | `config.Load`: the file, its duplicates, the environment, defaults, `Normalize` | `MCConfig`, `ConfigProofs` |
| `ShellRunner` | `ShellRunner.Run`, one local command and the processes it leaves | `CommandProofs` |
| `HostFallback` | the script for a remote target, over its hosts | `CommandProofs` |
| `LogPattern` | the three passes of `docker_log_pattern` over a log | `CheckProofs` |
| `OpenFiles` | `io_paths`: the walk through `/proc` | `CheckProofs` |
| `Checks` | one check or action, composed of the four before it, and its verdict | `MCChecks`, `CheckProofs` |

An operator called `MutantX` is a bug that operator `X` could have had; no
specification uses it.  `PROJECT.json` names, for each property of each passing
run, the mutant that breaks it.

### 2.1 Manager

*Goroutines.*  A monitor's loop has the monitor's name, a control call is one of
the slots `Requests`; both run the same code inside `withMonitorLock`, with
`pc[p]` for the place and `frame[p]` for the local variables.  `lock[m]` is the
content of the one-slot channel of monitor `m`.

*Grain.*  A block of code that holds `m.mu` is one step, with its save.  A check,
a recovery action, and each reading of a context between two blocks are steps of
their own.  Everything interleaves: other goroutines, the clock, `Expire` (a
call's five minutes), `Terminate` (the daemon's context), `Halt` (the process
ends, at any step), `Start`.

| state | code |
|---|---|
| `current`, `history`, `dirty` | `m.current.Monitors`, `m.eventHistory.Events`, `m.eventsDirty` |
| `stateFile`, `eventsFile` | what the next start would load |
| `enabled` | the monitors this process runs a loop for |
| `expired`, `reply` | the contexts of the calls and their answers |
| `now` | `time.Now`, in ticks; `TicksPerSecond` ticks are what RFC3339 keeps |
| `lastStart`, `autoFailures`, `halts` | history variables, no action reads them |

| actions | code |
|---|---|
| `Acquire`, `GiveUp`, `SkipCancelled`, `Release` | `withMonitorLock` |
| `MarkChecking`, `RunCheck`, `RestoreCancelledCheck`, `RecordHealthy`, `RecordFailure`, `SuppressRecovery` | `runMonitorCycle`, `evaluateMonitor`, `markRecoveryExhaustedLocked` |
| `BeginForced`, `ReadStatusBefore` | `runForcedRecovery` |
| `AbandonStart`, `StartRecovery`, `InterruptRecovery`, `BeginAction`, `EndAction`, `EndRecheck`, `EndVerify`, `RestoreStatus` | `executeRecovery` |
| `RecordRecovery`, `RecordFailedRecovery` | `applyRecoveryOutcomeLocked` |
| `LoopTick`, `LoopStop`; `Arrive`, `Expire` | `runMonitorLoop`; `serveMonitorRoute`, `TriggerCheck`, `TriggerRecovery` |
| `Start`, `Terminate`, `Halt` | `NewManager`, `Start`, `main` |

*Saves.*  `Persist` writes `state.json`, then `events.json` if there is news.  A
save fails before the rename ("Old") or in the flush of the directory after it
("New"), and `SaveOutcomes` says which of these an instance has.  "Old" and
"New" are the two results that `Register!Settle` allows a save that does not
succeed; which of the two a restart finds is decided at once in `Manager`, and
at the latest by a loss of power in `AtomicFile`.  A crash inside a save leaves
what some failed save followed by `Halt` leaves.

*Abstractions.*  Checks and actions succeed or fail nondeterministically.  A
check's settings, the wording of reasons, the counters for display
(`CheckRunCount`, `SuccessCount`, `FailureCount`, `RecoveryCount`), `LastError`
and the timestamps that no decision reads are left out.  Looking up a monitor
and the time happens at the block that uses them (a check reads the clock just before
it waits for `m.mu`, so nothing is claimed of the order of timestamps of different
monitors); the test of the context after
the callback and the return of the slot are one step.  The configuration is the
same after a restart, except for which monitors are enabled.  The clock does not
go back.  `results` keeps of the check results how many ran and whether one
failed.

*Policy.*  `RecoveryPolicy` is what an operator of the service sees of all this: at
most one caller works on a monitor, checks make or break a row of failures, recovery
actions begin on a row that is long enough, outside the cooldown and below the cap,
or because a call asks for it, and they succeed, fail, or are broken off.  It has no
labels, contexts, histories or statuses, and of the files only the row that a restart
would find.  In `KeepsPolicy` it is instantiated with `Manager`'s state: `Work` is who
is inside `withMonitorLock`'s callback and at which job, `UnderRecovery` the monitors
at which somebody is at one of the labels `Acting`, the rows are
`ConsecutiveFailures` in memory and in the file, the rest are the history variables.

### 2.2 AtomicFile and Register

`Save` and `Load` call by call; each call may fail (`Fail`), the process may end
(`Die`), and `LosePower` takes the directory back to any state since its last
flush (`onDisk`), where a file that was not flushed may hold garbage.  That
directories come back as they were at some moment is the one assumption about
the file system.  `Damage` makes garbage of a good file, for the quarantine to
have work besides.  The temporary file matters for its contents only; whether
it is removed does not (see the hazards).

`Register` is what the engine counts on: a successful save is final, one that is
not leaves the old value or the new.  `AtomicFile` implements it under
the mapping that makes `candidates` the values a load may still return.  Corrupt contents
count as `Absent`, because that is what a load makes of them.

### 2.3 Snapshot and EventQuery

Both walk a structure that the engine's operations change, in one critical
section under the read lock.  The loops are modelled iteration by iteration and
the writers only wait because their guard says so: the mutants that drop this
guard show what the lock is for.  Statuses change freely, the event history
grows and is trimmed as `appendEventLocked` does it.

### 2.4 ConfigLoad

One action for each call of the file system (`ReadConfig`, `WriteTemp`,
`RenameTemp`; any of them may fail, `FailLoad`), one for each iteration over the
monitors (`DedupeMonitor`, `NormalizeMonitor`), one for the environment and the
defaults together, which nothing can come between.  The process may end anywhere
(`EndProcess`), the power may be lost (`LosePower`), and the next start loads what
is left.  As nothing is flushed, after a rename the disk holds the old contents, the
new ones, or a torn file (`onDisk`), until the kernel writes it out (`Flush`); a
torn file never parses.

`document` and `env` are what the operator wants.  The operator edits the file or
the environment only while no load is under way, and the edit is on the disk at
once; an edit between the read and the rename would be lost (see the hazards).  What
is left of the temporary file after a crash is overwritten before anyone reads it.

A string is kept as far as the code tells strings apart: blank, known, a duration
and of which sign, a pattern that compiles or not.  Ids are model values, `Trim` is
a constant function, and a generated id is the pair of its name and its place.
`ReadHeaderTimeout` is defaulted and never looked at by `Normalize`, neither in the
code nor here.

### 2.5 Checks and their parts

`ShellRunner` has the goroutines of one `Run` - the caller, the one that watches
the context and calls `cmd.Cancel`, the one that copies the output - and, as
external actions, what the shell and its children may do: start children (which
inherit the group and the output, also after the shell has ended), write, redirect,
leave the process group, end.  `os/exec` is external too and modelled
as `Run` relies on it: which error wins, and that it stops waiting for the
output after `WaitDelay`.  Output is counted in units, not kept.  The context
may end at any step, before the command starts included; a caller's deadline and
the five minutes are the same event.

`HostFallback` builds the list of hosts (`targetHosts`) and runs the script of
`buildRemoteCommand`, one ssh per step.  An ssh cannot connect, loses its
connection while the command runs, or brings the command's exit code, which may
be 255 as well.  `configured` holds trimmed hosts, none of them blank, which is
what validation lets through.  Quoting is left out.

`LogPattern` reads a log line by line, three times.  A line is what the passes ask
of it: its time (0 without one), which patterns match the whole line and which the
text behind the time, the value of the capture group, and whether it is too long for
the scanner, which then stops for good and reports nothing.

`OpenFiles` has the processes of the machine as external actions - they begin with
the files that they inherit, open and close the path, move it to another descriptor,
execute other programs with or without it, end, become zombies, and are waited for,
after which their number is free - between any two readings of `/proc`: the list,
`fd`, each link, `cmdline`, `comm`.  `steady`, `guests` and `changed` are history
variables.  A path stands for the file that it resolves to; that somebody changes a
symbolic link of it during the scan is left out.  Descriptors have no numbers:
`Renumber` only ends the claim to have held the path as one descriptor.

`Checks` is one call of `checks.Run` or `actions.Run`: a handler starts a command
with `Run`, whose shell is a local one or the script, and judges what comes back;
or it looks at paths, or sleeps.  The steps of the command do not depend on what the
handler will make of it, so that is decided only at the end (`Decide`); it saves the
product of kinds.  The output limit of `Run` is `MaxOutput`; that patterns are matched
after the output has been cut to 2048 bytes is `Places`.

## 3. Runs

| run | question | bounds, and why they are enough |
|---|---|---|
| `ops` | all interleavings of loop and control call on one monitor, in one life | two checks (an evaluation can be cut short between them), a recheck and an action (every branch of `executeRecovery`), a cap of 1, a history of 2 (a failed recovery that exhausts the cap appends two events), saves that fail before they replace a file |
| `crash` | does the engine recover only as the policy says; what the files hold after any failed save or crash; the cap across restarts; does a stranded status recover? | a threshold of 2, so that a row can be lost, kept or go on after a crash; every outcome of a save ("stateNew" leaves what "eventsOld" or a success leaves), one end of the process, a cap of 1 and room for two failures in a row and two failed recoveries, a history of 1 (every event pushes one out) |
| `cooldown` | is the cooldown on disk, and respected, across a restart? | a cooldown of one second in half-second ticks: the smallest with a fraction to lose; a save works or leaves the old state file |
| `live` | is every call answered, does the loop go on? | one loop and one call compete for the slot; checks, actions and the first save fail, the monitor may be disabled |
| `two` | do monitors depend on each other? | two monitors, of which one may be disabled, share the files, a history of 1 and the calls; fairness for the other one only; nothing fails, because the product would be too large (failures are the matter of `live`) |
| `file` | does Save/Load implement the register? | two values and two kinds of garbage; crashes, failures and losses of power unbounded |
| `queries` | the fold in every order of statuses; can a query miss an event? | three monitors: two that could mask each other and one beside them; a history of 3, a limit of at most 2, asked for 0, 1 and 3; two readers do not interact, so a behaviour has requests of one kind |
| `config` | which configuration does the daemon run with, and which file does it leave? | lists of up to three monitors of two ids, one of them written in two ways, two definitions of one that differ; one monitor that differs from a good one in one respect, for every respect that `Normalize` looks at, alone and before a second definition; two changes of the environment; failures, kills, losses of power and edits unbounded |
| `checks` | is a verdict earned, and is there one? | two children, of which one may leave the group; an output limit of 3 and 4 units written, so that a write can end at the limit, pass it, and pass it in its middle; exits by signal, with 0, 1 and 255; targets with up to three hosts, some repeated; logs of up to three lines in any order of times; two processes on one path, which may be configured twice |
| `health`, `group`, `fallback` | three sentences of the documentation | the first is the smallest instance with a counterexample, the others that of `checks` |

`MaxTime` bounds the clock, `MaxHalts` the ends of the process, `MaxFailures`
the two failure counters (by forbidding further failures where they are raised,
`MayFail`); all three
are guards in the specification, and the theorems hold for every value of them.
`MaxWritten` bounds what processes write in `checks` in the same way.  Deadlock
is checked in all runs but `checks`, `group` and `fallback`, where a check really
ends.  The same module is checked in several
instances because the product of all features is out of reach, and each property
runs where its own difficulty is present: crash properties with crashes,
interleaving properties without.  No symmetry is used.

*Fairness* (`FairFor(m)`).  Weak for the steps of the goroutines on one monitor:
every command, dial and request of the code has a timeout, so a check and an
action end.  Strong for its loop's `Acquire`: goroutines that send on a Go channel
wait in a queue, so a loop is not passed over for ever.  Weak for its ticker, for
the five-minute context of a call, and for a call's noticing it.  Nothing is
assumed of arrivals, crashes and restarts.  In `two` this is assumed of `m2` only:
whatever is at work on `m1` may hang for ever.
In `Checks` weak fairness is assumed of the handler with `Run` and `os/exec`
(`Proceed`) and of the context's timer, and none of the processes: a shell, a child
or a host may hang, and `CheckEnds` holds nevertheless.

### What the runs show

The passing runs: the engine refines the recovery policy; operations on one monitor
exclude each other; only an end of the process leaves a transient status behind, and
the next operation that is not cut short puts it right; "healthy" rests on a complete evaluation, the history tells
the same story as the status during one life, answers are truthful; actions run
only after both files tell of them; an unsaved history is marked; the events are
never ahead of the state; cooldown and cap survive crashes, the cap up to one
run per crash; calls are answered and monitors stay watched; a command's success
is complete and its exit code its own; a command is repeated on another host
only after a 255, and never twice on one; a check that passes has earned it, and
every check ends; the daemon runs with the last definition of every monitor and
today's settings, whatever was killed before, and accepts nothing that it cannot
run.

Three runs show where the code differs from its documentation:

* `health`: README.md:181 promises 200 only for a daemon that is healthy or
  actively recovering; a failed service that is merely being checked is reported
  with 200, because its status is overwritten for the time of the check.
* `group`: README.md:311 says that cancellation terminates the process group; it
  does not if the shell has ended already and only a child holds the output.
* `fallback`: README.md:256 and CHANGELOG.md:37 promise fallback hosts for every
  SSH-backed monitor; `docker_container` compares the whole output with "true", and
  what ssh says about the first host is part of it, so the check of a running
  container fails exactly when a fallback is needed.

More were met while modelling and have no run of their own:

* runner.go:187 takes every 255 for a failed transport (README.md:256), so that a
  command that itself ends with 255 is run again on the next host;
* manager.go:576 counts failed manual recoveries into the cap that README.md:248
  describes as one on automatic runs, and no success takes anything from the
  counter, so the cap is one on all failed recoveries there ever were;
* a process that ends during a check leaves "checking" in `state.json`, so that a
  recovery which the next process's first check sees is not an event (manager.go:316,
  ARCHITECTURE.md:19), and a check cut short puts "checking" back as a status;
* README.md:283 says that invalid durations fail fast at startup; an invalid
  `read_header_timeout` is not validated, and server.go:88 takes five seconds instead;
* a shell that fails with a code of its own while a child holds the output is
  reported by that code alone: `os/exec` keeps its `ErrWaitDelay` to itself
  (runner.go:68), and the child is not killed.  It is not killed either if the output
  is too long (runner.go:66) or, the case of `group`, if the context is done too late
  for a cancellation (runner.go:64); no document speaks of the first two;
* `io_paths` may accuse the wrong process: one that executes another program, or ends
  and leaves its number, between the reading of its descriptors (checks.go:535) and
  that of its command line (checks.go:548).  `AccusedHadItOpen` says exactly when;
* an empty path is accepted in an `io_paths` check;
* a process killed between the creation of a temporary file and its rename leaves
  the file behind for ever (persistence/json.go:54).

## 4. Proofs

TLAPS checks every theorem for all values of the constants, under the named
assumptions next to them: `ProcessAssumption`, `ConfigAssumption` (of `Manager`: what
`config.Load` guarantees of a configuration), `EnvironmentAssumption`,
`FileAssumption`, `OrderAssumption`, `QueryAssumption`, `RunnerAssumption`,
`HostAssumption`, `LogAssumption`, `FilesAssumption`, `CheckAssumption`, and
`ConfigAssumption` of `ConfigLoad`.  No theorem uses the bounds of TLC's instances.
Every safety property of the passing runs is a theorem, and some are theorems only,
because they need no instance of their own: `SlotReturned`, `OperationsBounded`,
`HistoryInOrder`, `TransientIsLive` (their definitions are in `ManagerProperties`)
and `CheckIsComposed`.

`ManagerProofs`:

* `TypeCorrect`.  The steps are split into those that save (`SavingSteps`, all
  through `UpdateType`) and those that only move a goroutine (`MovingSteps`).
* `Exclusive`, by `LockInv`: who is inside the callback is the content of the slot.
* `UnsavedIsDirty` needs only that `Persist` marks whatever it has not written.
* `CooldownCorrect`, by `CooldownInv`: memory *and* file both carry a cooldown
  that covers the last durable start, since a crash makes memory of the file;
  a goroutine that has decided to recover keeps the slot, so nobody starts
  another recovery before it does.
* `BudgetCorrect`, by `BudgetInv` and `DownInv`: memory is at most one failure
  ahead of the file, and a run that is under way has found room below the cap
  with the two in agreement (`DurableInv`), so an end of the process costs one.
* `DurableCorrect`, by `DurableInv` and `EventInv`: nobody else touches the
  monitor during a recovery, and saves for other monitors carry the same state
  of this one.  The history may be trimmed meanwhile, which is why it says
  "if an event of the monitor is left, the last one is the start"
  (`TrimLast`, `AppendLast`).

`StatusProofs`, on top of these:

* `EventsBehindState`, by `CoverInv`: every start that memory's history or the events
  file tells of has its cooldown in memory, and every one in the events file has it
  in the state file as well.  The pair in the middle - events file against memory - is
  what makes it inductive, for a save may write `state.json` alone.
* `StatusTable` says once, for each action, from where to where it goes and what
  it does to the status, to the status that is to be put back, to the results and to
  the history.  The invariants below follow from that table.
* `HealthyHasEvidence`, by `EvidenceInv`: a status that is put back may be "healthy",
  so whoever holds one needs its evidence still to be in the results.
* `TransientIsLive` and `HistoryExplains`, by `LifeInv`: the status to put back is a
  lasting one that the history agrees with.  Both are stated for `halts = 0`: after
  an end of the process they do not hold (see above).  Trimming the history takes
  away its oldest events only, so the last that tells of a monitor stays the last, or
  goes with all the others (`AgreesTrim`, `AgreesAppend`).
* `AnswersTruthful`, by `ReplyInv`: whoever leaves the slot without an outcome was
  cancelled or has noted that the save of its start failed.

`PolicyProofs`, on top of both:

* `PolicyKept`: `Spec` implies `Policy!Spec`, step by step.  A step of a goroutine is
  one of the rows of `RowSteps`; each row is an action of the policy or a stutter, with
  `SavedFailures` following or not (`PolicyStep`).  What the policy asks for when
  actions begin is read in an earlier block of the code and carried over to the start:
  the length of the row by `DecidedInv`, the end of the cooldown by `CooldownInv`, the
  cap by `BudgetInv`; the slot keeps everybody else away, and time only helps.  `WorkStep` turns the slots into
  "one at a time".
* `OnlyEndsStrand`: for each monitor, whether its status tells of work nobody does
  (`Stranded`) before and after each action.  The status that is to be put back counts as
  shown: otherwise a cancelled check would strand a monitor that was put right before.
* `HistoryInOrder`, by `OrderInv`: no event is of the future, and whoever decides on a
  recovery has told of the failed check last.  With `EventInv` (an outcome is recorded
  where the start is the last event) appending keeps the order (`AppendInOrder`), and
  trimming keeps any end of a history in order (`TrimInOrder`).
* `SlotReturned`: with `LockInv` its converse, `HolderInv`: who is in a slot is in the
  callback.
* `OperationsBounded`: `Forward` is a lexicographic order of stages, actions, parts of
  an action, and checks, each bounded by the configuration; no invariant but the types
  is needed.  It is the part of the liveness runs that can be proved: an operation that
  goes on ends.

`AtomicFileProofs`: `FileInv` ties each place in the code to what the temporary
file, the directory and its possible states on disk hold there; from it
`FileTypeCorrect`, `CorruptPreserved`, and step by step `FileImplementsRegister`.

`QueryProofs`: for `Snapshot` the loop invariant is that the overall status is the worst of
the monitors visited (`VisitIsWorst`), and a counter is positive exactly if one
of them goes into it; for `EventQuery`, what has been scanned is in the
result, sorted, if it matches (`ScanLoop`).

`ConfigProofs`: whatever of the file is on disk is torn, the operator's document, or
its reduction to the last definitions.  A reduced list is its own reduction, so a
second start, after a kill or a loss of power at any place, comes to the same
configuration; the loop keeps `LastDefinitions` of the monitors visited.  For
`EngineCanRun` the generated ids matter: they are tested after they are given.

`CommandProofs`: the invariant of the runner says for each place of `Run` what of the
group, the output and the error is settled there - no error so far means that the
shell has ended with 0 and nobody has cancelled.  `NobodyLeftBehind` is inductive: a
cancellation empties the group, and with the shell gone only a member could start one.  For the fallback, the hosts before the current one account for every
connection lost and every end seen, and no host from the current one on has been
asked (`ScriptInv`); as the list has no host twice (`HostsInv`), none is asked twice.

`CheckProofs`: `CheckIsComposed` shows that every behaviour of a check is one of each
of its four parts, so that what is proved of `RunnerSpec`, `ScriptSpec`, `LogSpec` and
`FilesSpec` holds in it.  `LogVerdictCorrect`: each pass knows the count, the values
or the latest times of the lines before the current one.  `OffenderFound`: whoever
has held the path since `/proc` was listed is still to be looked at, is being looked
at, or has been found as something that it was at the time.  `AccusationsHold`: who is
reported has the number of a process that held the path; he held it himself, under
the command reported, unless that process has ended or has executed something else
without the path (`changed`), so this bounds false accusations and does not exclude them.
`PassEarned` links the parts: the shell's code is the script's, and the output that
was judged is all that was written.

Only model-checked: liveness (`RequestsAnswered`, `MonitorsStayWatched`,
`HungMonitorIsIsolated`, `CheckEnds`), which is out of the prover's reach; the
three violations are counterexamples and need no proof.

## 5. Not modelled

* Logging: no decision depends on it.  Scripts and unit: sequential calls of system
  tools; the unit's `Restart=always` is why a restart is possible at any time.
* The web UI: its refreshes overlap, but a late answer only shows an older state
  until the next one, and nothing depends on it.
* Authentication, routing, CORS and JSON of the API.
* `http_json`, `load`, `memory` and `io_pressure`: each is one reading and one
  comparison, with no step in between, and their thresholds no states.  In `Manager`
  any check may succeed or fail.
* Monitors that the operator removes from or adds to the configuration between two
  lives of the daemon: in `Manager` they can only be disabled and enabled.  The
  state of a removed one stays in the file and in memory (see the hazards).
* A clock that goes back.
* `Checks` does not run inside `Manager`: what an operation needs of a check - that it
  ends, with a verdict - is `CheckEnds`, and is the fairness of `RunCheck` there.

Where code outside a model matters to it, it is an assumption: the
file system of `AtomicFile` and `ConfigLoad`, the configuration of `Manager` (what it
asks for is `EngineCanRun`), the ends of checks and actions in `FairFor`.

## 6. Plan

Done in this order: the engine, its proofs, the files, the read side, the command
runner, the configuration, the checks, and the proofs about all of them.  Worth
adding next:

1. `Manager` with a configuration that changes between two lives, with the state of
   removed monitors.
2. A clock that is wrong for a while after a start without a clock chip, and what of
   the cooldown can be promised then.
3. For `Checks` what `OperationsBounded` is for `Manager`: the steps of `Proceed` that
   one check can take.
4. An abstract configuration that `ConfigLoad` refines.
