----------------------------- MODULE ShellRunner -----------------------------
(***************************************************************************)
(* ShellRunner.Run (internal/command/runner.go): one local command, with   *)
(* a time limit, bounded output, and whatever the shell leaves behind.     *)
(*                                                                         *)
(* The processes are external, and so is os/exec: Start, the goroutine     *)
(* that watches the context, the one that copies the output, and Wait,     *)
(* which lets go of the output WaitDelay after the shell has ended.        *)
(* Data are counted, not kept: only how much of it arrives matters.        *)
(***************************************************************************)
EXTENDS Integers, FiniteSets

CONSTANTS
    Children,       \* background processes of the shell
    ExitCodes,      \* of the shell, -1 for the end by a signal
    MaxOutput,      \* maxOutputBytes
    MaxWritten      \* bound on what the processes write

ASSUME RunnerAssumption ==
    /\ ExitCodes \subseteq Int
    /\ MaxOutput \in Nat /\ MaxWritten \in Nat

VARIABLES
    pc,          \* where Run is
    ctxDone,     \* the context is done: the caller's, or the five minutes
    cancelled,   \* cmd.Cancel has run
    shellUp, exitCode,
    group,       \* children in the shell's process group
    escapees,    \* children that have left it
    holders,     \* children that have the output open
    written, pipe, captured, overflow,   \* the output, and how far it has come
    waitErr,     \* the error of cmd.Run
    result       \* what Run returns

processes == <<shellUp, exitCode, group, escapees, holders>>
output    == <<written, pipe, captured, overflow>>
runnerVars == <<pc, ctxDone, cancelled, processes, output, waitErr, result>>

PCs == {"new", "waiting", "reaped", "draining", "returning", "returned"}

Errors == {"none", "start", "exit", "ctx", "waitdelay", "overflow"}

RunnerInit ==
    /\ pc = "new"
    /\ ctxDone = FALSE /\ cancelled = FALSE
    /\ shellUp = FALSE /\ exitCode = 0
    /\ group = {} /\ escapees = {} /\ holders = {}
    /\ written = 0 /\ pipe = 0 /\ captured = 0 /\ overflow = FALSE
    /\ waitErr = "none"
    /\ result = [err |-> "none", code |-> 0]

-----------------------------------------------------------------------------
(* The processes, which are free to do or not to do anything *)

\* The shell starts a child.
Spawn(c) ==
    /\ shellUp
    /\ c \notin group \cup escapees
    /\ group' = group \cup {c} /\ holders' = holders \cup {c}
    /\ UNCHANGED <<pc, ctxDone, cancelled, shellUp, exitCode, escapees, output, waitErr, result>>

\* A child d starts one, which inherits its group and its output.
Inherit(d, set, c) == IF d \in set THEN set \cup {c} ELSE set

SpawnFrom(d, c) ==
    /\ d \in group \cup escapees /\ c \notin group \cup escapees
    /\ group' = Inherit(d, group, c) /\ escapees' = Inherit(d, escapees, c)
    /\ holders' = Inherit(d, holders, c)
    /\ UNCHANGED <<pc, ctxDone, cancelled, shellUp, exitCode, output, waitErr, result>>

\* A child redirects its output.
CloseOutput(c) ==
    /\ c \in holders
    /\ holders' = holders \ {c}
    /\ UNCHANGED <<pc, ctxDone, cancelled, shellUp, exitCode, group, escapees, output, waitErr, result>>

\* setsid
Escape(c) ==
    /\ c \in group
    /\ group' = group \ {c} /\ escapees' = escapees \cup {c}
    /\ UNCHANGED <<pc, ctxDone, cancelled, shellUp, exitCode, holders, output, waitErr, result>>

ChildExit(c) ==
    /\ c \in group \cup escapees
    /\ group' = group \ {c} /\ escapees' = escapees \ {c} /\ holders' = holders \ {c}
    /\ UNCHANGED <<pc, ctxDone, cancelled, shellUp, exitCode, output, waitErr, result>>

ShellExit(code) ==
    /\ shellUp
    /\ shellUp' = FALSE /\ exitCode' = code
    /\ UNCHANGED <<pc, ctxDone, cancelled, group, escapees, holders, output, waitErr, result>>

Reading == pc \in {"waiting", "reaped", "draining"}

Write ==
    /\ shellUp \/ holders # {}
    /\ Reading /\ written < MaxWritten
    /\ written' = written + 1 /\ pipe' = pipe + 1
    /\ UNCHANGED <<pc, ctxDone, cancelled, processes, captured, overflow, waitErr, result>>

-----------------------------------------------------------------------------
(* cmd.Run *)

Start ==
    /\ pc = "new"
    /\ \/ ~ctxDone /\ pc' = "waiting" /\ shellUp' = TRUE /\ UNCHANGED waitErr
       \/ pc' = "returning" /\ waitErr' = (IF ctxDone THEN "ctx" ELSE "start") /\ UNCHANGED shellUp
    /\ UNCHANGED <<ctxDone, cancelled, exitCode, group, escapees, holders, output, result>>

\* boundedOutput.Write, with the next n bytes of the pipe
MutantCopy(n) ==
    /\ Reading /\ n <= pipe
    /\ pipe' = pipe - n
    /\ captured' = captured + n
    /\ overflow' = (overflow \/ n > MaxOutput - captured)
    /\ UNCHANGED <<pc, ctxDone, cancelled, processes, written, waitErr, result>>

Copy(n) ==
    /\ Reading /\ n <= pipe
    /\ pipe' = pipe - n
    /\ LET remaining == MaxOutput - captured IN
        /\ captured' = captured + (IF n > remaining THEN remaining ELSE n)
        /\ overflow' = (overflow \/ n > remaining)
    /\ UNCHANGED <<pc, ctxDone, cancelled, processes, written, waitErr, result>>

Timeout ==
    /\ pc # "returned" /\ ~ctxDone
    /\ ctxDone' = TRUE
    /\ UNCHANGED <<pc, cancelled, processes, output, waitErr, result>>

KillGroup ==
    /\ shellUp' = FALSE
    /\ exitCode' = IF shellUp THEN -1 ELSE exitCode
    /\ group' = {} /\ holders' = holders \ group
    /\ UNCHANGED escapees

MutantCancel ==
    /\ pc \in {"waiting", "reaped"} /\ ctxDone /\ ~cancelled
    /\ cancelled' = TRUE
    /\ shellUp' = FALSE
    /\ exitCode' = IF shellUp THEN -1 ELSE exitCode
    /\ UNCHANGED <<pc, ctxDone, group, escapees, holders, output, waitErr, result>>

\* The watching goroutine calls cmd.Cancel, possibly just after the shell has
\* been waited for.
Cancel ==
    /\ pc \in {"waiting", "reaped"} /\ ctxDone /\ ~cancelled
    /\ cancelled' = TRUE
    /\ KillGroup
    /\ UNCHANGED <<pc, ctxDone, output, waitErr, result>>

Reap ==
    /\ pc = "waiting" /\ ~shellUp
    /\ pc' = "reaped"
    /\ waitErr' = IF exitCode = 0 THEN "none" ELSE "exit"
    /\ UNCHANGED <<ctxDone, cancelled, processes, output, result>>

\* The watching goroutine ends, without looking at the context if it had no reason to.
Handover ==
    /\ pc = "reaped"
    /\ pc' = "draining"
    /\ waitErr' = IF waitErr = "none" /\ cancelled THEN "ctx" ELSE waitErr
    /\ UNCHANGED <<ctxDone, cancelled, processes, output, result>>

MutantEndOfOutput ==
    /\ pc = "draining"
    /\ pc' = "returning"
    /\ UNCHANGED <<ctxDone, cancelled, processes, output, waitErr, result>>

EndOfOutput ==
    /\ pc = "draining" /\ holders = {} /\ pipe = 0
    /\ pc' = "returning"
    /\ UNCHANGED <<ctxDone, cancelled, processes, output, waitErr, result>>

MutantDelayPasses == FALSE

\* WaitDelay is over: the output is closed, whoever still holds it.
DelayPasses ==
    /\ pc = "draining"
    /\ pc' = "returning"
    /\ waitErr' = IF waitErr = "none" THEN "waitdelay" ELSE waitErr
    /\ UNCHANGED <<ctxDone, cancelled, processes, output, result>>

-----------------------------------------------------------------------------
(* The rest of ShellRunner.Run *)

RunError == IF ctxDone THEN "ctx" ELSE IF overflow THEN "overflow" ELSE waitErr

MutantOutcomeCode(err) == exitCode
OutcomeCode(err) == IF err # "none" /\ exitCode = 0 THEN -1 ELSE exitCode

Return ==
    /\ pc = "returning"
    /\ pc' = "returned"
    /\ result' = [err |-> RunError, code |-> OutcomeCode(RunError)]
    /\ IF RunError = "waitdelay" THEN KillGroup ELSE UNCHANGED processes
    /\ UNCHANGED <<ctxDone, cancelled, output, waitErr>>

-----------------------------------------------------------------------------

Run == Start \/ Cancel \/ Reap \/ Handover \/ EndOfOutput \/ DelayPasses \/ Return

RunnerNext ==
    \/ Run
    \/ \E n \in 1 .. pipe : Copy(n)
    \/ Timeout
    \/ \E c \in Children : Spawn(c) \/ CloseOutput(c) \/ Escape(c) \/ ChildExit(c)
    \/ \E d, c \in Children : SpawnFrom(d, c)
    \/ \E code \in ExitCodes : ShellExit(code)
    \/ Write

RunnerSpec == RunnerInit /\ [][RunnerNext]_runnerVars

-----------------------------------------------------------------------------
(* Correctness *)

\* Every variable keeps its type, and the captured output its limit
\* (README.md:311, "Captured output is limited to 8 MiB").
RunnerTypeOK ==
    /\ pc \in PCs
    /\ ctxDone \in BOOLEAN /\ cancelled \in BOOLEAN
    /\ shellUp \in BOOLEAN /\ exitCode \in Int
    /\ group \in SUBSET Children /\ escapees \in SUBSET Children
    /\ holders \in SUBSET (group \cup escapees)
    /\ written \in Nat /\ pipe \in Nat
    /\ captured \in 0 .. MaxOutput /\ overflow \in BOOLEAN
    /\ waitErr \in Errors
    /\ result \in [err : Errors, code : Int]

\* A command that Run reports as a success ended by itself with 0, nobody is
\* left that could add to its output, and every byte of it has been captured.
SuccessIsComplete ==
    pc = "returned" /\ result.err = "none" =>
        exitCode = 0 /\ ~cancelled /\ holders = {} /\ captured = written

\* A check compares the exit code with the one it expects and forgives no error
\* but a non-zero exit (checks.go, runCommand and runDockerExec).  So such a
\* code must be the shell's own, and 0 must never come with an error.
ExitCodeIsHonest ==
    pc = "returned" =>
        /\ result.err \in {"none", "exit"} => result.code = exitCode /\ ~cancelled /\ ~overflow
        /\ result.code = 0 => result.err = "none"

\* Once Run has cancelled a command nobody is left in its process group, and nobody
\* gets into it any more: whether the shell was still there or had ended and the
\* group was only its children's, and whatever those who left it start later.
\* (Without a cancellation Run may leave the group to itself: see CancellationEndsGroup.)
NobodyLeftBehind == cancelled => ~shellUp /\ group = {}

\* README.md:311: shell commands "terminate their local process group on
\* cancellation", at least those in it who hold the command's output.
CancellationEndsGroup ==
    pc = "returned" /\ result.err = "ctx" => group \cap holders = {}

=============================================================================
