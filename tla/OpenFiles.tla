------------------------------ MODULE OpenFiles ------------------------------
(***************************************************************************)
(* An io_paths check (internal/checks/checks.go): for each path, is it     *)
(* accessible, and do only allowed processes have it open?  The check      *)
(* walks through /proc while the processes it looks at go on, end, and     *)
(* leave their number to others.                                           *)
(*                                                                         *)
(* External: the processes.  They inherit, open and close files, and what  *)
(* they run may change (execve), with or without closing its files.  One   *)
(* that has ended is a zombie until its parent waits for it: without files *)
(* or a command line, but with a name.                                     *)
(***************************************************************************)
EXTENDS Naturals, Sequences

CONSTANTS
    Pids, Files,
    PathLists,     \* check.Paths
    AllowLists,    \* check.AllowProcesses: the commands that it matches
    Commands,      \* command lines
    Name,          \* what /proc/<pid>/comm has of a command
    Nothing        \* no process, or no command line to be read

\* What validateCheck guarantees: there is a path.
ASSUME FilesAssumption ==
    /\ PathLists \subseteq Seq(Files) \ {<<>>}
    /\ AllowLists \subseteq SUBSET Commands
    /\ Name \in [Commands -> Commands]
    /\ Nothing \notin Commands \cup Pids

VARIABLES
    proc,       \* the process behind each number
    paths, allowed,   \* of the check
    n,          \* the path it is at
    step,       \* where it is
    listed,     \* processes still to look at
    cur,        \* the one it looks at
    found,      \* findOpenProcesses' result
    accused,    \* those that it finds fault with
    (* History variables, since /proc was listed *)
    steady,     \* processes that have held the path all the time, as one descriptor
    guests,     \* processes, with their commands, that have held it at some time
    changed     \* numbers whose process has ended, or runs something else without it

checkVars   == <<paths, allowed, n, step, listed, cur, found, accused>>
historyVars == <<steady, guests, changed>>
filesVars   == <<proc, checkVars, historyVars>>

Free == [state |-> "none", cmd |-> Nothing, open |-> {}]

Alive(p) == proc[p].state = "alive"

Opener(p, c) == [pid |-> p, cmd |-> c]

FilesInit ==
    /\ paths = <<>> /\ allowed = {}
    /\ proc = [p \in Pids |-> Free]
    /\ n = 1 /\ step = "idle"
    /\ listed = {} /\ cur = Nothing /\ found = {} /\ accused = {}
    /\ steady = {} /\ guests = {} /\ changed = {}

-----------------------------------------------------------------------------
(* The processes *)

PathIn(files) == n \in DOMAIN paths /\ paths[n] \in files

Hosting(p, c, files) == IF PathIn(files) THEN guests \cup {Opener(p, c)} ELSE guests

\* A process begins, with the files that it inherits.
Fork(p, c, files) ==
    /\ proc[p] = Free
    /\ proc' = [proc EXCEPT ![p] = [state |-> "alive", cmd |-> c, open |-> files]]
    /\ guests' = Hosting(p, c, files)
    /\ UNCHANGED <<checkVars, steady, changed>>

\* It executes a program, with the files that are not closed by that.
Exec(p, c, files) ==
    /\ Alive(p) /\ files \subseteq proc[p].open
    /\ proc' = [proc EXCEPT ![p] = [state |-> "alive", cmd |-> c, open |-> files]]
    /\ guests' = Hosting(p, c, files)
    /\ steady' = IF PathIn(files) THEN steady ELSE steady \ {p}
    /\ changed' = IF PathIn(files) THEN changed ELSE changed \cup {p}
    /\ UNCHANGED checkVars

Open(p, f) ==
    /\ Alive(p) /\ f \notin proc[p].open
    /\ proc' = [proc EXCEPT ![p].open = @ \cup {f}]
    /\ guests' = Hosting(p, proc[p].cmd, {f})
    /\ UNCHANGED <<checkVars, steady, changed>>

\* It has the file as another descriptor (dup, or a second open) and closes the first.
Renumber(p, f) ==
    /\ f \in proc[p].open
    /\ steady' = IF PathIn({f}) THEN steady \ {p} ELSE steady
    /\ UNCHANGED <<proc, checkVars, guests, changed>>

Close(p, f) ==
    /\ f \in proc[p].open
    /\ proc' = [proc EXCEPT ![p].open = @ \ {f}]
    /\ steady' = IF PathIn({f}) THEN steady \ {p} ELSE steady
    /\ UNCHANGED <<checkVars, guests, changed>>

Exit(p) ==
    /\ Alive(p)
    /\ proc' = [proc EXCEPT ![p] = [state |-> "zombie", cmd |-> @.cmd, open |-> {}]]
    /\ steady' = steady \ {p} /\ changed' = changed \cup {p}
    /\ UNCHANGED <<checkVars, guests>>

Wait(p) ==
    /\ proc[p].state = "zombie"
    /\ proc' = [proc EXCEPT ![p] = Free]
    /\ UNCHANGED <<checkVars, historyVars>>

-----------------------------------------------------------------------------
(* The check *)

BeginPaths(ps, a) ==
    /\ step = "idle"
    /\ step' = "access" /\ paths' = ps /\ allowed' = a
    /\ UNCHANGED <<proc, n, listed, cur, found, accused, historyVars>>

NextPath ==
    /\ n' = n + 1
    /\ step' = IF n = Len(paths) THEN "passed" ELSE "access"

\* checkRWAccess, which may fail for reasons of its own
CheckAccess ==
    /\ step = "access"
    /\ \/ step' = "refused" /\ UNCHANGED n
       \/ allowed = {} /\ NextPath
       \/ allowed # {} /\ step' = "list" /\ UNCHANGED n
    /\ UNCHANGED <<proc, paths, allowed, listed, cur, found, accused, historyVars>>

\* A path stands for the file that it resolves to.
Holds(p) == paths[n] \in proc[p].open

\* os.ReadDir("/proc"), without which the path passes
ListProc ==
    /\ step = "list"
    /\ \/ NextPath /\ UNCHANGED <<listed, found, historyVars>>
       \/ /\ step' = "look" /\ UNCHANGED n
          /\ listed' = {p \in Pids : proc[p] # Free}
          /\ found' = {}
          /\ steady' = {p \in Pids : Holds(p)}
          /\ guests' = {Opener(p, proc[p].cmd) : p \in steady'}
          /\ changed' = {}
    /\ UNCHANGED <<proc, paths, allowed, cur, accused>>

MutantLook(p) ==
    /\ step = "look" /\ p \in listed
    /\ cur' = p
    /\ IF Alive(p)
       THEN step' = "follow" /\ listed' = listed \ {p}
       ELSE step' = "look" /\ listed' = {}
    /\ UNCHANGED <<proc, paths, allowed, n, found, accused, historyVars>>

\* os.ReadDir of the process' descriptors, which a process that has ended has not
Look(p) ==
    /\ step = "look" /\ p \in listed
    /\ cur' = p /\ listed' = listed \ {p}
    /\ step' = IF Alive(p) THEN "follow" ELSE "look"
    /\ UNCHANGED <<proc, paths, allowed, n, found, accused, historyVars>>

MutantFollow ==
    /\ step = "follow"
    /\ step' = "cmdline"
    /\ UNCHANGED <<proc, paths, allowed, n, listed, cur, found, accused, historyVars>>

\* os.Readlink of each descriptor that was listed.  A file that was opened
\* later is seen only if it got the number of another that has been closed.
Follow ==
    /\ step = "follow"
    /\ \/ Holds(cur) /\ step' = "cmdline"
       \/ cur \notin steady /\ step' = "look"
    /\ UNCHANGED <<proc, paths, allowed, n, listed, cur, found, accused, historyVars>>

Report(c) ==
    /\ found' = found \cup {Opener(cur, c)}
    /\ step' = "look"

\* readProcCmd
ReadCmdline ==
    /\ step = "cmdline"
    /\ \/ Alive(cur) /\ Report(proc[cur].cmd)
       \/ ~Alive(cur) /\ step' = "comm" /\ UNCHANGED found
    /\ UNCHANGED <<proc, paths, allowed, n, listed, cur, accused, historyVars>>

ReadComm ==
    /\ step = "comm"
    /\ Report(IF proc[cur] = Free THEN Nothing ELSE Name[proc[cur].cmd])
    /\ UNCHANGED <<proc, paths, allowed, n, listed, cur, accused, historyVars>>

Disallowed == {o \in found : o.cmd \notin allowed}

Scanned == step = "look" /\ listed = {}

JudgePath ==
    /\ Scanned
    /\ accused' = Disallowed
    /\ \/ Disallowed # {} /\ step' = "busy" /\ UNCHANGED n
       \/ Disallowed = {} /\ NextPath
    /\ UNCHANGED <<proc, paths, allowed, listed, cur, found, historyVars>>

CheckPaths ==
    \/ \E ps \in PathLists, a \in AllowLists : BeginPaths(ps, a)
    \/ CheckAccess \/ ListProc
    \/ \E p \in Pids : Look(p)
    \/ Follow \/ ReadCmdline \/ ReadComm \/ JudgePath

Live ==
    \/ \E p \in Pids, c \in Commands, files \in SUBSET Files : Fork(p, c, files) \/ Exec(p, c, files)
    \/ \E p \in Pids, f \in Files : Open(p, f) \/ Renumber(p, f) \/ Close(p, f)
    \/ \E p \in Pids : Exit(p) \/ Wait(p)

FilesNext == CheckPaths \/ Live

FilesSpec == FilesInit /\ [][FilesNext]_filesVars

-----------------------------------------------------------------------------
(* Correctness *)

Openers == [pid : Pids, cmd : Commands \cup {Nothing}]

\* Every variable keeps its type, and files are open in live processes only.
FilesTypeOK ==
    /\ proc \in [Pids -> [state : {"none", "alive", "zombie"},
                          cmd : Commands \cup {Nothing}, open : SUBSET Files]]
    /\ \A p \in Pids : /\ proc[p].state = "none" <=> proc[p].cmd = Nothing
                       /\ Alive(p) \/ proc[p].open = {}
    /\ paths \in PathLists \cup {<<>>} /\ allowed \in SUBSET Commands
    /\ n \in 1 .. Len(paths) + 1
    /\ step \in {"idle", "access", "list", "look", "follow", "cmdline", "comm", "refused", "busy", "passed"}
    /\ listed \in SUBSET Pids /\ cur \in Pids \cup {Nothing}
    /\ found \in SUBSET Openers /\ accused \in SUBSET Openers
    /\ steady \in SUBSET Pids /\ guests \in SUBSET Openers /\ changed \in SUBSET Pids

\* A process that has had the path open as one descriptor from the beginning to
\* the end of the scan, and has run nothing that is allowed to, is found as
\* something that it was, whatever it executes and whatever the others do.
SteadyOffenderIsFound ==
    Scanned =>
        \A p \in steady :
            (\A g \in guests : g.pid = p => g.cmd \notin allowed) =>
                \E o \in Disallowed \cap guests : o.pid = p

\* Everyone who is reported has the number of a process that has had the path open
\* during the scan.  He may be the wrong one, and never have had it open under the
\* command that is reported, but only if that process has ended meanwhile, or has
\* executed something else that was not given the path.
AccusedHadItOpen ==
    step = "busy" =>
        \A o \in accused :
            /\ \E g \in guests : g.pid = o.pid
            /\ o \in guests \/ o.pid \in changed

=============================================================================
