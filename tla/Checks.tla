-------------------------------- MODULE Checks --------------------------------
(***************************************************************************)
(* One check of a monitor, or one recovery action, from the call of its    *)
(* handler to what checks.Run or actions.Run makes of it.  Most handlers   *)
(* run a command with ShellRunner.Run, which for a remote target is the    *)
(* script of HostFallback; io_paths looks at the processes instead.        *)
(*                                                                         *)
(* The steps of a command do not depend on the handler that waits for it,  *)
(* so which one it is comes up only when it judges the outcome.            *)
(***************************************************************************)
EXTENDS ShellRunner, HostFallback, LogPattern, OpenFiles

CONSTANTS
    Expected,   \* check.ExpectedExitCode
    Outputs     \* what the output patterns of a check meet in the output

\* Where in the output the text is that a check expects or forbids, if it does
\* either: limitString keeps the first 2048 bytes only.
Places == {"unset", "kept", "cut", "nowhere"}

\* A shell ends with what its last ssh ended with.
ASSUME CheckAssumption ==
    /\ Codes \cup {255} \subseteq ExitCodes
    /\ Expected \subseteq Int
    /\ Outputs \subseteq [expected : Places, forbidden : Places]

VARIABLES
    handler,    \* what the handler does
    verdict     \* what it returns, with what the properties ask about it

checksVars == <<handler, verdict, runnerVars, scriptVars, logVars, filesVars>>

Kinds == {"none", "exec", "service", "container", "logs", "action", "paths", "sleep"}

Verdict(kind, passed) == [kind |-> kind, passed |-> passed, expected |-> 0, running |-> FALSE]

\* It runs a command of the configuration, runs one that it builds around docker
\* or systemctl, looks at paths, or sleeps.
Handlers == {"text", "built", "paths", "sleep"}

RunsCommand == handler \in {"text", "built"}

Pending == verdict.kind = "none"

ChecksInit ==
    /\ RunnerInit /\ ScriptInit /\ LogInit /\ FilesInit
    /\ handler \in Handlers
    /\ handler # "built" => configured = <<>>
    /\ verdict = Verdict("none", FALSE)

-----------------------------------------------------------------------------
(* The command and its shell *)

\* runner.Run, once the command is built
StartCommand ==
    /\ Start
    /\ j \notin DOMAIN configured
    /\ IF shellUp' THEN BeginScript ELSE UNCHANGED scriptVars

\* SIGKILL for the group ends the shell and the ssh that it runs.
CancelCommand ==
    /\ Cancel
    /\ IF script = "trying" THEN KillScript ELSE UNCHANGED scriptVars

RunCommand ==
    \/ StartCommand \/ CancelCommand
    \/ (Reap \/ Handover \/ EndOfOutput \/ DelayPasses \/ Return) /\ UNCHANGED scriptVars

\* Only a command of the configuration may leave something in the background.
LocalShell ==
    /\ script = "local"
    /\ \/ handler = "text"
          /\ \/ \E c \in Children : Spawn(c) \/ CloseOutput(c) \/ Escape(c) \/ ChildExit(c)
             \/ \E d, c \in Children : SpawnFrom(d, c)
       \/ \E code \in ExitCodes : ShellExit(code)
    /\ UNCHANGED scriptVars

RemoteShell ==
    \/ shellUp /\ UNCHANGED runnerVars
       /\ (Unreachable \/ Broken \/ \E code \in Codes : Remote(code))
    \/ script = "exited" /\ ShellExit(rc) /\ UNCHANGED scriptVars

Apart == UNCHANGED <<handler, verdict, logVars, filesVars>>

\* buildRemoteCommand and ShellRunner.Run
HandlerStep ==
    /\ RunsCommand /\ Apart
    /\ \/ pc = "new" /\ AppendHost /\ UNCHANGED runnerVars
       \/ RunCommand

ShellStep ==
    /\ RunsCommand /\ Apart
    /\ \/ LocalShell \/ RemoteShell
       \/ (Write \/ \E m \in 1 .. pipe : Copy(m)) /\ UNCHANGED scriptVars

-----------------------------------------------------------------------------
(* The handlers *)

Judge(v) ==
    /\ Pending
    /\ verdict' = v
    /\ UNCHANGED <<handler, runnerVars, scriptVars, logVars, filesVars>>

OutputAccepted(o) == o.expected \in {"unset", "kept"} /\ o.forbidden # "kept"

MutantExecPasses(expected, o) ==
    /\ result.code = expected
    /\ OutputAccepted(o)

\* Of the errors, an exit code other than 0 (exec.ExitError) is the only one forgiven.
ExecPasses(expected, o) ==
    /\ result.code = expected
    /\ result.err \in {"none", "exit"}
    /\ OutputAccepted(o)

\* runDockerExec and runCommand, whose command is never remote
JudgeExec(expected, o) ==
    /\ pc = "returned"
    /\ Judge([Verdict("exec", ExecPasses(expected, o)) EXCEPT !.expected = expected])

\* runSystemdService
JudgeService ==
    /\ pc = "returned"
    /\ Judge(Verdict("service", result.err = "none" /\ result.code = 0))

\* runDockerContainer.  What ssh says of hosts that it cannot reach is in the
\* same output as the answer.
JudgeContainer(running) ==
    /\ pc = "returned"
    /\ LET output_is_true == running /\ broken = 0 IN
        Judge([Verdict("container", result.err = "none" /\ output_is_true) EXCEPT !.running = running])

\* The actions that run a command
JudgeAction ==
    /\ pc = "returned"
    /\ Judge(Verdict("action", result.err = "none"))

JudgeFailedLogs ==
    /\ pc = "returned" /\ result.err # "none" /\ pass = "waiting"
    /\ Judge(Verdict("logs", FALSE))

\* The unit of the output is a line here.
BeginLogs ==
    /\ pc = "returned" /\ Pending /\ result.err = "none"
    /\ \E r \in Rules, t \in {l \in Logs : Len(l) = captured} : ReadLog(r, t)
    /\ UNCHANGED <<handler, verdict, runnerVars, scriptVars, filesVars>>

ContinueLogs ==
    /\ ScanLog
    /\ UNCHANGED <<handler, verdict, runnerVars, scriptVars, filesVars>>

JudgeLogs ==
    /\ pass = "over"
    /\ Judge(Verdict("logs", LogPasses))

JudgePaths ==
    /\ step \in {"refused", "busy", "passed"}
    /\ Judge(Verdict("paths", step = "passed"))

PathsStep ==
    /\ handler = "paths" /\ CheckPaths
    /\ UNCHANGED <<handler, verdict, runnerVars, scriptVars, logVars>>

ProcessStep ==
    /\ handler = "paths" /\ Pending /\ Live
    /\ UNCHANGED <<handler, verdict, runnerVars, scriptVars, logVars>>

\* runSleep: the timer, or the context if it is done
EndSleep ==
    /\ handler = "sleep"
    /\ \/ Judge(Verdict("sleep", TRUE))
       \/ ctxDone /\ Judge(Verdict("sleep", FALSE))

GiveUpWaiting ==
    /\ handler # "paths" /\ Pending /\ Timeout
    /\ UNCHANGED <<handler, verdict, scriptVars, logVars, filesVars>>

Decide ==
    \/ /\ RunsCommand /\ pass = "waiting"
       /\ (\E expected \in Expected, o \in Outputs : JudgeExec(expected, o)) \/ JudgeAction
    \/ /\ handler = "built" /\ pass = "waiting"
       /\ \/ \E running \in BOOLEAN : JudgeContainer(running)
          \/ JudgeService \/ JudgeFailedLogs \/ BeginLogs
    \/ ContinueLogs \/ JudgeLogs \/ JudgePaths \/ EndSleep

Proceed == HandlerStep \/ PathsStep \/ Decide

ChecksNext == Proceed \/ GiveUpWaiting \/ ShellStep \/ ProcessStep

ChecksSpec == ChecksInit /\ [][ChecksNext]_checksVars

\* The handler and the goroutines of os/exec go on, their timers and the
\* context's go off, and SIGKILL ends a process.  Nothing is assumed of the
\* processes, local or remote.
FairChecks == ChecksSpec /\ WF_checksVars(Proceed) /\ WF_checksVars(GiveUpWaiting)

-----------------------------------------------------------------------------
(* Correctness *)

\* Every variable keeps its type: the captured output its limit (README.md:311,
\* "Captured output is limited to 8 MiB"), files are open in live processes.
ChecksTypeOK ==
    /\ RunnerTypeOK /\ ScriptTypeOK /\ LogTypeOK /\ FilesTypeOK
    /\ handler \in Handlers
    /\ verdict \in [kind : Kinds, passed : BOOLEAN, expected : Int, running : BOOLEAN]

\* The exit code that a command must have to pass
Wanted == verdict.expected

\* A check or an action that passes after a command has earned it: nobody has
\* cancelled the command, it ended by itself with the code that was wanted,
\* behind ssh too, and none of the output of a success is missing.  (255 over
\* ssh may be the end of ssh.)
PassIsEarned ==
    verdict.passed /\ verdict.kind \in {"exec", "service", "container", "logs", "action"} =>
        /\ ~cancelled /\ ~overflow
        /\ exitCode = Wanted
        /\ Wanted = 0 => captured = written /\ holders = {}
        /\ configured # <<>> /\ Wanted # 255 => ended # <<>> /\ ended[Len(ended)] = Wanted

\* Every check and every action comes to an end, whatever the processes do: a
\* shell that never ends, a child that holds the output for ever, in the
\* process group or out of it, a host that does not answer.
CheckEnds == <>(~Pending)

\* README.md:256: fallback hosts are "tried in order after `host` if SSH
\* transport fails": a container that runs where the command ended well is
\* reported as running, whichever host that was.
RunningContainerPasses ==
    verdict.kind = "container" /\ verdict.running /\ result.err = "none" => verdict.passed

=============================================================================
