------------------------------- MODULE MCConfig -------------------------------
(***************************************************************************)
(* Files with up to three monitors of two names, one of them also written  *)
(* with spaces, and with one monitor that differs from a good one in any   *)
(* single respect, alone or before its correction.                         *)
(***************************************************************************)
EXTENDS ConfigLoad

CONSTANTS a, spaced, b, k   \* model values: ids of monitors, ids of checks

RawIds == {a, spaced, b, Blank}
TrimSpace == [s \in RawIds |-> IF s = spaced THEN a ELSE s]

Check(type, given) ==
    [id |-> Blank, type |-> type, given |-> given, regexps |-> "compile", duration |-> "blank", count |-> 0]

Action(type, given) == [type |-> type, given |-> given, duration |-> "blank"]

Local == [transport |-> "blank", host |-> "blank", others |-> {}, port |-> 0]
Remote == [transport |-> "ssh", host |-> "name", others |-> {"name"}, port |-> 22]

Good(id) ==
    [id |-> id, interval |-> "blank", cooldown |-> "zero", threshold |-> 0, attempts |-> 0,
     target |-> Local, checks |-> <<Check("load", {})>>, recovery |-> <<Action("recheck", {})>>]

\* The fields of a check of any type, and those without one that it needs
WithChecks ==
    {<<Check(t, g)>> : t \in DOMAIN CheckRequires, g \in {Fields} \cup {Fields \ {f} : f \in Fields}}
    \cup {<<Check("unheard of", Fields)>>, <<>>}
    \cup {<<[Check(t, Fields) EXCEPT !.duration = d]>> : t \in {"http_json", "docker_log_pattern"}, d \in Durations}
    \cup {<<[Check("command", Fields) EXCEPT !.regexps = "malformed"]>>,
          <<[Check("docker_log_pattern", Fields) EXCEPT !.count = -1]>>}
    \cup {<<[Check("load", {}) EXCEPT !.id = i], Check("load", {})>> : i \in {Blank, k, <<"check", 1>>, <<"check", 2>>}}

WithRecovery ==
    {<<Action(t, g)>> : t \in DOMAIN ActionRequires, g \in {Fields} \cup {Fields \ {f} : f \in Fields}}
    \cup {<<>>} \cup {<<[Action("sleep", {}) EXCEPT !.duration = d]>> : d \in Durations}

WithTarget ==
    {[Local EXCEPT !.transport = "unknown"], Remote, [Remote EXCEPT !.host = "blank"],
     [Remote EXCEPT !.others = {"name", "blank"}], [Remote EXCEPT !.port = 65536], [Remote EXCEPT !.port = -1]}

Variants ==
    {[Good(a) EXCEPT !.interval = d] : d \in Durations} \cup {[Good(a) EXCEPT !.cooldown = d] : d \in Durations}
    \cup {[Good(a) EXCEPT !.attempts = -1], [Good(a) EXCEPT !.threshold = 2]}
    \cup {[Good(a) EXCEPT !.checks = c] : c \in WithChecks}
    \cup {[Good(a) EXCEPT !.recovery = r] : r \in WithRecovery}
    \cup {[Good(a) EXCEPT !.target = t] : t \in WithTarget}

\* Of the same monitor there are two definitions that differ.
Some == {Good(a), Good(b), Good(Blank), [Good(spaced) EXCEPT !.threshold = 2]}

Lists ==
    UNION {[1 .. n -> Some] : n \in 0 .. 3} \cup {<<v>> : v \in Variants}
    \cup {<<v, Good(spaced)>> : v \in Variants}

Blanks == [s \in Settings |-> Blank]

Files ==
    {[settings |-> Blanks, events_max |-> 0, monitors |-> l] : l \in Lists}
    \cup {[settings |-> [Blanks EXCEPT !.admin_token = "own", !.log_file = "own"], events_max |-> m,
           monitors |-> l] : m \in {-1, 5}, l \in {<<Good(a)>>, <<Good(a), Good(a)>>}}

Variables ==
    {[settings |-> Blanks, events_max |-> Blank],
     [settings |-> [Blanks EXCEPT !.admin_token = "set", !.state_file = "set"], events_max |-> 7],
     [settings |-> Blanks, events_max |-> 0]}

=============================================================================
