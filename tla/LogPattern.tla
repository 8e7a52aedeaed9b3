------------------------------ MODULE LogPattern ------------------------------
(***************************************************************************)
(* A docker_log_pattern check (internal/checks/checks.go): what it makes   *)
(* of the text of "docker logs --timestamps", which it reads once to count *)
(* the failure lines, once for the captured values, and, if there are      *)
(* success patterns, once for the times of the latest matches.             *)
(*                                                                         *)
(* A line is what these passes ask of it.  The first and the second look   *)
(* at the whole line, the third at what follows its timestamp.  A          *)
(* bufio.Scanner stops for good at a line of more than 64 KiB.             *)
(***************************************************************************)
EXTENDS Naturals, Sequences, FiniteSets

CONSTANTS
    Logs,       \* sequences of lines
    Values,     \* values of the first capture group
    NoValue,    \* no pattern has matched with a group, or its value is blank
    Rules       \* check.MatchCountThreshold and the rest of the configuration

\* A time of 0 is Go's zero time, kept for a line without a timestamp.
Lines ==
    [at : Nat, long : BOOLEAN, value : Values \cup {NoValue},
     failure : SUBSET {"line", "message"}, success : SUBSET {"line", "message"}]

\* What validateCheck guarantees: no threshold is negative.
ASSUME LogAssumption ==
    /\ Logs \subseteq Seq(Lines)
    /\ Rules \subseteq [count : Nat, distinct : Nat, success : BOOLEAN]
    /\ NoValue \notin Values

VARIABLES
    rules,         \* of the check
    log,           \* logText
    pass, k,       \* the pass and the line that it is at
    count,         \* lines with a failure
    distinct,      \* distinctSet
    lastFailure, lastSuccess

logVars == <<rules, log, pass, k, count, distinct, lastFailure, lastSuccess>>

Passes == {"waiting", "count", "distinct", "timeline", "over"}

NoRules == [count |-> 0, distinct |-> 0, success |-> FALSE]

LogInit ==
    /\ rules = NoRules /\ log = <<>>
    /\ pass = "waiting" /\ k = 1
    /\ count = 0 /\ distinct = {}
    /\ lastFailure = 0 /\ lastSuccess = 0

-----------------------------------------------------------------------------

\* The command has given the text t to a check with the thresholds r.
ReadLog(r, t) ==
    /\ pass = "waiting"
    /\ pass' = "count" /\ rules' = r /\ log' = t
    /\ UNCHANGED <<k, count, distinct, lastFailure, lastSuccess>>

\* scanner.Scan
AtLine == k \in DOMAIN log /\ ~log[k].long

\* countPatternMatches: a line counts once, however many patterns it matches.
CountLine ==
    /\ pass = "count" /\ AtLine
    /\ count' = count + IF "line" \in log[k].failure THEN 1 ELSE 0
    /\ k' = k + 1
    /\ UNCHANGED <<rules, log, pass, distinct, lastFailure, lastSuccess>>

\* distinctPatternCaptureGroups
CollectValue ==
    /\ pass = "distinct" /\ AtLine
    /\ distinct' = distinct \cup ({log[k].value} \ {NoValue})
    /\ k' = k + 1
    /\ UNCHANGED <<rules, log, pass, count, lastFailure, lastSuccess>>

Later(matches, last) == IF "message" \in matches /\ log[k].at > last THEN log[k].at ELSE last

\* findLatestPatternTimestamps, which skips a line without a timestamp
DateLine ==
    /\ pass = "timeline" /\ AtLine
    /\ lastFailure' = Later(log[k].failure, lastFailure)
    /\ lastSuccess' = Later(log[k].success, lastSuccess)
    /\ k' = k + 1
    /\ UNCHANGED <<rules, log, pass, count, distinct>>

\* The lines with a success are counted as well, but nothing depends on it.
NextPass ==
    /\ pass \notin {"waiting", "over"} /\ ~AtLine
    /\ k' = 1
    /\ pass' = IF pass = "count" THEN "distinct"
               ELSE IF pass = "distinct" /\ rules.success THEN "timeline" ELSE "over"
    /\ UNCHANGED <<rules, log, count, distinct, lastFailure, lastSuccess>>

ScanLog == CountLine \/ CollectValue \/ DateLine \/ NextPass

LogNext == ScanLog \/ \E r \in Rules, t \in Logs : ReadLog(r, t)

LogSpec == LogInit /\ [][LogNext]_logVars

Threshold == IF rules.count = 0 THEN 1 ELSE rules.count

MutantLogPasses ==
    \/ count < Threshold
    \/ lastSuccess # 0 /\ lastSuccess >= lastFailure
    \/ rules.distinct > 0 /\ Cardinality(distinct) < rules.distinct

\* What runDockerLogPattern returns
LogPasses ==
    \/ count < Threshold
    \/ lastSuccess # 0 /\ lastSuccess > lastFailure
    \/ rules.distinct > 0 /\ Cardinality(distinct) < rules.distinct

-----------------------------------------------------------------------------
(* Correctness *)

\* Every variable keeps its type.
LogTypeOK ==
    /\ rules \in Rules \cup {NoRules} /\ log \in Logs \cup {<<>>}
    /\ pass \in Passes /\ k \in 1 .. Len(log) + 1
    /\ count \in 0 .. Len(log) /\ distinct \in SUBSET Values
    /\ lastFailure \in Nat /\ lastSuccess \in Nat

\* The lines before the first that is too long for the scanner
Readable == {n \in DOMAIN log : \A m \in 1 .. n : ~log[m].long}

Failures == {n \in Readable : "line" \in log[n].failure}

Captured == {log[n].value : n \in Readable} \ {NoValue}

\* A success marker that is later than every failure (CHANGELOG.md:36, "treat
\* later success markers as overriding earlier failure lines")
Overridden ==
    /\ rules.success
    /\ \E n \in Readable :
         /\ "message" \in log[n].success /\ log[n].at > 0
         /\ \A m \in Readable : "message" \in log[m].failure => log[m].at < log[n].at

\* The check fails exactly if enough lines show a failure, no later success
\* overrides all of them, and they tell of enough distinct things; whatever the
\* order in which the two streams of the container were merged, whatever lines
\* lack a timestamp, and as far as the scanner reads.
LogVerdictIsRight ==
    pass = "over" =>
        (~LogPasses <=>
            /\ Cardinality(Failures) >= Threshold
            /\ ~Overridden
            /\ rules.distinct > 0 => Cardinality(Captured) >= rules.distinct)

=============================================================================
