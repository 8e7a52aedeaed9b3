----------------------------- MODULE HostFallback -----------------------------
(***************************************************************************)
(* A command for a remote target (internal/command/runner.go): the script  *)
(* that buildRemoteCommand writes tries the host and its fallbacks in turn *)
(* over ssh until one of them gives another exit code than 255.  Without   *)
(* hosts (transport "local") it is the command itself.                     *)
(*                                                                         *)
(* External: sh, ssh and the remote command.  An ssh that cannot connect,  *)
(* or whose connection breaks, gives 255 (broken while the command ran on  *)
(* the host), and otherwise the code of the remote command, 255 included.  *)
(***************************************************************************)
EXTENDS Integers, Sequences

CONSTANTS
    Hosts,
    Configurations,   \* target.Host, then target.FallbackHosts; <<>> if local
    Codes             \* exit codes of the remote command

\* What validateTarget guarantees: no blank host.  Hosts may repeat.
ASSUME HostAssumption ==
    /\ Configurations \subseteq Seq(Hosts)
    /\ Codes \subseteq Nat

VARIABLES
    configured,  \* the hosts of the target
    j,           \* the loop of targetHosts
    hosts,       \* its result
    i,           \* the host the script is at, 0 before it starts
    rc,          \* $rc
    script,          \* "building", "local", "trying", "exited" or "killed"
    (* History variables *)
    runs,        \* how often the remote command has begun on each host
    ended,       \* the codes with which it has ended, in order
    broken       \* connections that have failed

scriptVars == <<configured, j, hosts, i, rc, script, runs, ended, broken>>

ScriptInit ==
    /\ configured \in Configurations
    /\ j = 1 /\ hosts = <<>>
    /\ i = 0 /\ rc = 255
    /\ script = "building"
    /\ runs = [h \in Hosts |-> 0] /\ ended = <<>> /\ broken = 0

-----------------------------------------------------------------------------
(* targetHosts *)

MutantSeen(h) == FALSE
Seen(h) == \E k \in DOMAIN hosts : hosts[k] = h

AppendHost ==
    /\ script = "building" /\ j \in DOMAIN configured
    /\ hosts' = IF Seen(configured[j]) THEN hosts ELSE Append(hosts, configured[j])
    /\ j' = j + 1
    /\ UNCHANGED <<configured, i, rc, script, runs, ended, broken>>

BeginScript ==
    /\ script = "building" /\ j \notin DOMAIN configured
    /\ \/ hosts = <<>> /\ script' = "local" /\ UNCHANGED i
       \/ hosts # <<>> /\ script' = "trying" /\ i' = 1
    /\ UNCHANGED <<configured, j, hosts, rc, runs, ended, broken>>

-----------------------------------------------------------------------------
(* The script: each ssh, and what follows it *)

\* "&& exit 0; rc=$?; if [ "$rc" -ne 255 ]; then exit "$rc"; fi", and at the
\* end "exit "$rc"".  With one host the script is its ssh alone, with the same result.
MutantAfter(code) ==
    /\ rc' = code
    /\ \/ code # 0 /\ i < Len(hosts) /\ i' = i + 1 /\ UNCHANGED script
       \/ (code = 0 \/ i = Len(hosts)) /\ script' = "exited" /\ UNCHANGED i

MutantAfterLast(code) ==
    /\ rc' = code
    /\ \/ code = 255 /\ i < Len(hosts) - 1 /\ i' = i + 1 /\ UNCHANGED script
       \/ (code # 255 \/ i >= Len(hosts) - 1) /\ script' = "exited" /\ UNCHANGED i

After(code) ==
    /\ rc' = code
    /\ \/ code = 255 /\ i < Len(hosts) /\ i' = i + 1 /\ UNCHANGED script
       \/ (code # 255 \/ i = Len(hosts)) /\ script' = "exited" /\ UNCHANGED i

Ran == runs' = [runs EXCEPT ![hosts[i]] = @ + 1]

Unreachable ==
    /\ script = "trying"
    /\ After(255)
    /\ broken' = broken + 1
    /\ UNCHANGED <<configured, j, hosts, runs, ended>>

Broken ==
    /\ script = "trying"
    /\ After(255)
    /\ Ran /\ broken' = broken + 1
    /\ UNCHANGED <<configured, j, hosts, ended>>

Remote(code) ==
    /\ script = "trying"
    /\ After(code)
    /\ Ran /\ ended' = Append(ended, code)
    /\ UNCHANGED <<configured, j, hosts, broken>>

\* The process group is killed; what runs on the host goes on.
KillScript ==
    /\ script = "trying"
    /\ script' = "killed" /\ rc' = -1
    /\ \/ Ran
       \/ UNCHANGED runs
    /\ UNCHANGED <<configured, j, hosts, i, ended, broken>>

ScriptNext ==
    \/ AppendHost \/ BeginScript
    \/ Unreachable \/ Broken \/ (\E code \in Codes : Remote(code))
    \/ KillScript

ScriptSpec == ScriptInit /\ [][ScriptNext]_scriptVars

-----------------------------------------------------------------------------
(* Correctness *)

\* Every variable keeps its type.
ScriptTypeOK ==
    /\ configured \in Configurations
    /\ j \in 1 .. Len(configured) + 1
    /\ hosts \in Seq(Hosts)
    /\ i \in 0 .. Len(hosts) /\ rc \in Int
    /\ script \in {"building", "local", "trying", "exited", "killed"}
    /\ runs \in [Hosts -> Nat]
    /\ ended \in Seq(Nat) /\ broken \in Nat

\* No host is asked twice to run the command, however often it is configured.
OncePerHost == \A h \in Hosts : runs[h] <= 1

\* The remote command is repeated on another host only if its end could not be
\* told from a broken connection: an ordinary end, with success or with a
\* failure of its own, is the last thing that happens.
RepeatedOnlyAfter255 ==
    /\ \A k \in DOMAIN ended : ended[k] # 255 => k = Len(ended)
    /\ script = "trying" => \A k \in DOMAIN ended : ended[k] = 255

\* The exit code of the script is that of the command where it came to its end,
\* and 255 only after every configured host has been tried.
ExitCodeIsRemote ==
    script = "exited" =>
        /\ rc # 255 => ended # <<>> /\ ended[Len(ended)] = rc
        /\ rc = 255 => /\ broken + Len(ended) = Len(hosts)
                       /\ \A k \in DOMAIN configured : \E l \in DOMAIN hosts : hosts[l] = configured[k]

=============================================================================
