------------------------------ MODULE ConfigLoad ------------------------------
(***************************************************************************)
(* config.Load: the file is read, monitors that share an id are reduced to *)
(* the last of them and the file is then written back; the environment     *)
(* overrides it, defaults fill it up, and Normalize accepts it or not.     *)
(* systemd starts the daemon again whatever ends it, so a load meets what  *)
(* an earlier one, broken off anywhere, has left.                          *)
(*                                                                         *)
(* A string is kept as far as the code tells strings apart: blank or not,  *)
(* one of the names it knows or not, a duration or not.                    *)
(***************************************************************************)
EXTENDS Integers, Sequences

CONSTANTS
    Ids,          \* monitor ids as written, with the space around them
    Trim,         \* strings.TrimSpace on them
    Blank,        \* a string without content, and a setting that is not there
    CheckIds,     \* ids of checks
    Texts,        \* contents of the other settings
    Documents,    \* what the operator may write
    Environments, \* PROC_LOG_FILE and the others
    Torn          \* contents that do not parse

\* What applyDefaults gives a value to, and the rest
Defaulted == {"log_file", "state_file", "events_file", "listen_address", "read_header_timeout"}
Settings == Defaulted \cup {"cors_origin", "admin_token"}

Durations == {"blank", "positive", "zero", "negative", "unparsed"}

CheckRequires ==
    [http_json |-> {"url"}, load |-> {}, memory |-> {}, io_pressure |-> {}, io_paths |-> {"paths"},
     docker_container |-> {"container"}, docker_log_pattern |-> {"container", "patterns"},
     docker_exec |-> {"container", "docker_command"}, command |-> {"command"},
     systemd_service |-> {"service"}]

ActionRequires ==
    [command |-> {"command"}, docker_exec |-> {"container", "command"}, sleep |-> {},
     recheck |-> {}, restart_docker_container |-> {"container"},
     restart_systemd_service |-> {"service"}]

Fields == {"url", "paths", "container", "docker_command", "patterns", "command", "service"}

MutantGenerated(j) == <<"check", j - 1>>

\* The id that a check gets if it has none, by its place; it may be written too.
Generated(j) == <<"check", j>>

\* given: the fields with content; duration: timeout, since or duration, by the
\* type; count: the lower of the two thresholds
Checks == [id : CheckIds \cup ({"check"} \X (Nat \ {0})) \cup {Blank}, type : STRING,
           given : SUBSET Fields, regexps : {"compile", "malformed"},
           duration : Durations, count : Int]

Actions == [type : STRING, given : SUBSET Fields, duration : Durations]

HostNames == {"name", "blank"}

\* others: the contents of fallback_hosts
Targets == [transport : {"blank", "local", "ssh", "unknown"}, host : HostNames,
            others : SUBSET HostNames, port : Int]

Monitors == [id : Ids, interval : Durations, cooldown : Durations, threshold : Int, attempts : Int,
             target : Targets, checks : Seq(Checks), recovery : Seq(Actions)]

Configs == [settings : [Settings -> Texts \cup {Blank}], events_max : Int, monitors : Seq(Monitors)]

ASSUME ConfigAssumption ==
    /\ Blank \in Ids /\ Trim \in [Ids -> Ids]
    /\ \A s \in Ids : Trim[Trim[s]] = Trim[s]
    /\ Documents \subseteq Configs /\ Torn \notin Configs
    /\ Environments \subseteq [settings : [Settings -> Texts \cup {Blank}], events_max : Int \cup {Blank}]
    /\ "default" \in Texts

VARIABLES
    document, env,     \* what the operator wants
    file,              \* the configuration file as the processes see it
    onDisk,            \* what a loss of power may leave of it
    temp,              \* the file beside it, .tmp
    pc, cfg,           \* the daemon and its configuration
    next, deduped,     \* the index of the loop and the monitors that it keeps
    again              \* duplicateIDs is not empty

configVars == <<document, env, file, onDisk, temp, pc, cfg, next, deduped, again>>

Loading == {"deduping", "writing", "renaming", "overriding", "normalizing"}
Ended == {"loaded", "rejected", "failed"}

NoConfig == [settings |-> [s \in Settings |-> Blank], events_max |-> 0, monitors |-> <<>>]

ConfigInit ==
    /\ document \in Documents /\ env \in Environments
    /\ file = document /\ onDisk = {file} /\ temp = Torn
    /\ pc = "down" /\ cfg = NoConfig
    /\ next = 1 /\ deduped = <<>> /\ again = FALSE

Unloaded == UNCHANGED <<document, env, file, onDisk, temp>>

-----------------------------------------------------------------------------
(* Duplicates *)

ReadConfig ==
    /\ pc = "down"
    /\ IF file = Torn THEN pc' = "failed" /\ UNCHANGED cfg ELSE pc' = "deduping" /\ cfg' = file
    /\ next' = 1 /\ deduped' = <<>> /\ again' = FALSE
    /\ Unloaded

IdsOf(monitors) == {monitors[j].id : j \in DOMAIN monitors}

MutantPut(monitors, m) == IF m.id \in IdsOf(monitors) THEN monitors ELSE Append(monitors, m)

Put(monitors, m) ==
    IF m.id \in IdsOf(monitors)
    THEN [j \in DOMAIN monitors |-> IF monitors[j].id = m.id THEN m ELSE monitors[j]]
    ELSE Append(monitors, m)

Trimmed(m) == [m EXCEPT !.id = Trim[m.id]]

DedupeMonitor ==
    /\ pc = "deduping" /\ next \in DOMAIN cfg.monitors
    /\ LET m == Trimmed(cfg.monitors[next]) IN
        \/ m.id = Blank /\ pc' = "rejected" /\ UNCHANGED <<next, deduped, again>>
        \/ /\ m.id # Blank
           /\ deduped' = Put(deduped, m)
           /\ again' = (again \/ m.id \in IdsOf(deduped))
           /\ next' = next + 1 /\ UNCHANGED pc
    /\ UNCHANGED cfg /\ Unloaded

EndDedupe ==
    /\ pc = "deduping" /\ next \notin DOMAIN cfg.monitors
    /\ cfg' = [cfg EXCEPT !.monitors = deduped]
    /\ pc' = IF again THEN "writing" ELSE "overriding"
    /\ UNCHANGED <<next, deduped, again>> /\ Unloaded

-----------------------------------------------------------------------------
(* The environment and the defaults *)

Overridden(c, e) ==
    [c EXCEPT !.settings = [s \in Settings |-> IF e.settings[s] # Blank THEN e.settings[s] ELSE @[s]],
              !.events_max = IF e.events_max # Blank THEN e.events_max ELSE @]

Filled(c) ==
    [c EXCEPT !.settings = [s \in Settings |-> IF @[s] = Blank /\ s \in Defaulted THEN "default" ELSE @[s]],
              !.events_max = IF @ <= 0 THEN 1000 ELSE @]

\* applyEnvOverrides and applyDefaults
Settle ==
    /\ pc = "overriding"
    /\ cfg' = Filled(Overridden(cfg, env))
    /\ next' = 1
    /\ pc' = IF cfg.monitors = <<>> THEN "rejected" ELSE "normalizing"
    /\ UNCHANGED <<deduped, again>> /\ Unloaded

-----------------------------------------------------------------------------
(* The way back into the file *)

MutantToFile(c) == Overridden(c, env)
ToFile(c) == c

WriteTemp ==
    /\ pc = "writing"
    /\ temp' = ToFile(cfg)
    /\ pc' = "renaming"
    /\ UNCHANGED <<document, env, file, onDisk, cfg, next, deduped, again>>

\* Neither the file nor its directory is flushed.
RenameTemp ==
    /\ pc = "renaming"
    /\ file' = temp /\ onDisk' = onDisk \cup {temp, Torn} /\ temp' = Torn
    /\ pc' = "overriding"
    /\ UNCHANGED <<document, env, cfg, next, deduped, again>>

\* A call of the file system fails.
FailLoad ==
    /\ pc \in {"down", "writing", "renaming"}
    /\ pc' = "failed"
    /\ UNCHANGED <<cfg, next, deduped, again>> /\ Unloaded

-----------------------------------------------------------------------------
(* Normalize *)

Else(value, default) == IF value = "blank" THEN default ELSE value

Named(c, j) == [c EXCEPT !.id = IF @ = Blank THEN Generated(j) ELSE @]

Completed(m) ==
    [m EXCEPT !.interval = Else(@, "positive"), !.cooldown = Else(@, "positive"),
              !.threshold = IF @ <= 0 THEN 1 ELSE @,
              !.target.transport = Else(@, "local"),
              !.checks = [j \in DOMAIN @ |-> Named(@[j], j)]]

MaxPort == 65535

ValidTarget(t) ==
    \/ t.transport = "local"
    \/ t.transport = "ssh" /\ t.host # "blank" /\ "blank" \notin t.others /\ t.port \in 0 .. MaxPort

MutantValidCheck(c) ==
    /\ c.type \in DOMAIN CheckRequires
    /\ CheckRequires[c.type] \subseteq c.given
    /\ c.type \in {"http_json", "docker_log_pattern"} => c.duration \in {"blank", "positive", "zero"}
    /\ c.type = "docker_log_pattern" => c.count >= 0

ValidCheck(c) ==
    /\ c.type \in DOMAIN CheckRequires
    /\ c.regexps = "compile"
    /\ CheckRequires[c.type] \subseteq c.given
    /\ c.type \in {"http_json", "docker_log_pattern"} => c.duration \in {"blank", "positive"}
    /\ c.type = "docker_log_pattern" => c.count >= 0

ValidAction(a) ==
    /\ a.type \in DOMAIN ActionRequires
    /\ ActionRequires[a.type] \subseteq a.given
    /\ a.type = "sleep" => a.duration \in {"positive", "zero"}

Valid(m) ==
    /\ m.attempts >= 0
    /\ m.interval = "positive" /\ m.cooldown \in {"positive", "zero"}
    /\ ValidTarget(m.target)
    /\ m.checks # <<>> /\ \A j \in DOMAIN m.checks : ValidCheck(m.checks[j])
    /\ \A j, k \in DOMAIN m.checks : j < k => m.checks[j].id # m.checks[k].id
    /\ m.recovery # <<>> /\ \A j \in DOMAIN m.recovery : ValidAction(m.recovery[j])

\* The ids are trimmed, have content and differ already.
NormalizeMonitor ==
    /\ pc = "normalizing" /\ next \in DOMAIN cfg.monitors
    /\ LET m == Completed(cfg.monitors[next]) IN
        \/ Valid(m) /\ cfg' = [cfg EXCEPT !.monitors[next] = m] /\ next' = next + 1 /\ UNCHANGED pc
        \/ ~Valid(m) /\ pc' = "rejected" /\ UNCHANGED <<cfg, next>>
    /\ UNCHANGED <<deduped, again>> /\ Unloaded

EndNormalize ==
    /\ pc = "normalizing" /\ next \notin DOMAIN cfg.monitors
    /\ pc' = "loaded"
    /\ UNCHANGED <<cfg, next, deduped, again>> /\ Unloaded

-----------------------------------------------------------------------------
(* The rest of the machine *)

\* What is left of the temporary file is never read: the next load overwrites it.
Stop ==
    /\ pc' = "down" /\ temp' = Torn
    /\ cfg' = NoConfig /\ next' = 1 /\ deduped' = <<>> /\ again' = FALSE
    /\ UNCHANGED <<document, env>>

\* The process ends, or is killed.
EndProcess == pc # "down" /\ Stop /\ UNCHANGED <<file, onDisk>>

LosePower == Stop /\ \E c \in onDisk : file' = c /\ onDisk' = {c}

\* The kernel writes the file out.
Flush ==
    /\ onDisk # {file}
    /\ onDisk' = {file}
    /\ UNCHANGED <<document, env, file, temp, pc, cfg, next, deduped, again>>

\* The operator changes the file or the environment, while no load is under way.
Edit ==
    /\ pc = "down"
    /\ \/ \E d \in Documents : document' = d /\ file' = d /\ onDisk' = {d} /\ UNCHANGED env
       \/ \E e \in Environments : env' = e /\ UNCHANGED <<document, file, onDisk>>
    /\ UNCHANGED <<temp, pc, cfg, next, deduped, again>>

Load ==
    \/ ReadConfig \/ DedupeMonitor \/ EndDedupe \/ WriteTemp \/ RenameTemp \/ Settle
    \/ NormalizeMonitor \/ EndNormalize \/ FailLoad

ConfigNext == Load \/ EndProcess \/ LosePower \/ Flush \/ Edit

ConfigSpec == ConfigInit /\ [][ConfigNext]_configVars

-----------------------------------------------------------------------------
(* Correctness *)

\* Every variable keeps its type.
ConfigTypeOK ==
    /\ document \in Documents /\ env \in Environments
    /\ file \in Configs \cup {Torn} /\ file \in onDisk /\ onDisk \subseteq Configs \cup {Torn}
    /\ temp \in Configs \cup {Torn}
    /\ pc \in Loading \cup Ended \cup {"down"}
    /\ cfg \in Configs /\ deduped \in Seq(Monitors)
    /\ next \in Nat \ {0} /\ again \in BOOLEAN

\* s has the last definition of each monitor among the first n, in the order in
\* which their ids come first.
LastDefinitions(s, monitors, n) ==
    /\ \A j, k \in DOMAIN s : s[j].id = s[k].id => j = k
    /\ \A j \in DOMAIN s : \E k \in 1 .. n :
         /\ s[j] = Trimmed(monitors[k])
         /\ \A l \in k + 1 .. n : Trim[monitors[l].id] # s[j].id
    /\ \A k \in 1 .. n : \E j \in DOMAIN s : s[j].id = Trim[monitors[k].id]
    /\ \A j, k \in DOMAIN s : j < k =>
         \E l \in 1 .. n : /\ Trim[monitors[l].id] = s[j].id
                           /\ \A o \in 1 .. l : Trim[monitors[o].id] # s[k].id

\* The daemon runs with every monitor of the operator, in the last definition
\* that the file had of it: also if an earlier load wrote the file back, was
\* killed while it did so or lost the power after it.
LastDefinitionWins ==
    pc = "loaded" =>
        /\ LastDefinitions(deduped, document.monitors, Len(document.monitors))
        /\ cfg.monitors = [j \in DOMAIN deduped |-> Completed(deduped[j])]

Current ==
    /\ cfg.settings = [s \in Settings |->
         IF env.settings[s] # Blank THEN env.settings[s]
         ELSE IF document.settings[s] # Blank THEN document.settings[s]
         ELSE IF s \in Defaulted THEN "default" ELSE Blank]
    /\ LET max == IF env.events_max # Blank THEN env.events_max ELSE document.events_max IN
         cfg.events_max = IF max > 0 THEN max ELSE 1000

\* The settings are those of today's environment, then of the operator's file,
\* then the defaults: no override of an earlier start has got into the file that
\* the daemon itself writes.
SettingsAreCurrent == pc = "loaded" => Current

RunnableCheck(c) ==
    /\ c.regexps = "compile"
    /\ c.type \in {"docker_container", "docker_log_pattern", "docker_exec"} => "container" \in c.given
    /\ c.type = "docker_exec" => "docker_command" \in c.given
    /\ c.type = "command" => "command" \in c.given
    /\ c.type = "systemd_service" => "service" \in c.given
    /\ c.type = "http_json" => c.duration \in {"blank", "positive"}

RunnableAction(a) ==
    /\ a.type = "sleep" => a.duration \in {"positive", "zero"}
    /\ a.type \in {"docker_exec", "restart_docker_container"} => "container" \in a.given
    /\ a.type = "restart_systemd_service" => "service" \in a.given
    /\ a.type \in {"command", "docker_exec"} => "command" \in a.given

Runnable(m) ==
    /\ m.id # Blank /\ m.interval = "positive" /\ m.threshold > 0
    /\ m.target.transport # "local" => m.target.host # "blank"
    /\ \A c \in DOMAIN m.checks : RunnableCheck(m.checks[c])
    /\ \A c, d \in DOMAIN m.checks : m.checks[c].id = m.checks[d].id => c = d
    /\ \A a \in DOMAIN m.recovery : RunnableAction(m.recovery[a])

\* What the rest of the program takes for granted: a ticker panics if its
\* interval is not positive (manager.go:258), a command for a remote target
\* without a host runs on the Pi itself (runner.go:176), a pattern that does not
\* compile fails in every check, a field that a handler misses too (checks.go:247,
\* 267, 342, 388, 427, actions.go:53, 65, 96, 109), and two monitors with one id
\* or two checks with one id share their state.
EngineCanRun ==
    pc = "loaded" =>
        /\ cfg.monitors # <<>>
        /\ \A j \in DOMAIN cfg.monitors : Runnable(cfg.monitors[j])
        /\ \A j, k \in DOMAIN cfg.monitors : cfg.monitors[j].id = cfg.monitors[k].id => j = k

=============================================================================
