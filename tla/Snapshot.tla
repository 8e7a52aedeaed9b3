------------------------------- MODULE Snapshot -------------------------------
(***************************************************************************)
(* The overall status of the daemon: Manager.Snapshot folds the statuses   *)
(* of the configured monitors under the read lock of m.mu, and serveHealth *)
(* turns the result into a status code for whoever supervises the Pi.      *)
(***************************************************************************)
EXTENDS Naturals, Sequences

CONSTANT Configured   \* the ids of cfg.Monitors, in its order

Watched == {Configured[i] : i \in DOMAIN Configured}

ASSUME OrderAssumption == Configured \in Seq(Watched)

VARIABLES
    status,     \* the statuses in m.current.Monitors
    next,       \* the next monitor of the loop, 0 while nobody holds the lock
    overall,    \* statusValue
    count,      \* the counters, by what they count
    code        \* the last answer of GET /health, 0 before the first

healthVars == <<status, next, overall, count, code>>

Statuses == {"unknown", "checking", "healthy", "degraded", "recovering", "failed", "disabled"}

Counted == {"healthy", "degraded", "recovering", "failed", "disabled"}

Overalls == {"healthy", "recovering", "unknown", "degraded", "failed"}

HealthInit ==
    /\ status \in [Watched -> Statuses]
    /\ next = 0
    /\ overall = "healthy"
    /\ count = [c \in Counted |-> 0]
    /\ code = 0

\* Some operation of the engine, under the write lock of m.mu
MutantSetStatus(m, s) ==
    /\ status' = [status EXCEPT ![m] = s]
    /\ UNCHANGED <<next, overall, count, code>>

SetStatus(m, s) ==
    /\ next = 0
    /\ status' = [status EXCEPT ![m] = s]
    /\ UNCHANGED <<next, overall, count, code>>

-----------------------------------------------------------------------------

BeginHealth ==
    /\ next = 0
    /\ next' = 1
    /\ overall' = "healthy"
    /\ count' = [c \in Counted |-> 0]
    /\ UNCHANGED <<status, code>>

\* The counter that a status goes into, if any
MutantCountedAs(s) == s
CountedAs(s) == IF s = "checking" THEN "recovering" ELSE s

MutantWorsen(o, s) ==
    IF s \in {"recovering", "checking"} /\ o # "failed" THEN "recovering"
    ELSE IF s \in {"degraded", "failed"} THEN s
    ELSE IF s = "unknown" /\ o \in {"healthy", "recovering"} THEN "unknown"
    ELSE o

MutantWorsenRaw(o, s) ==
    IF s \in {"recovering", "checking"} /\ o = "healthy" THEN s
    ELSE IF s = "failed" \/ (s = "degraded" /\ o # "failed") THEN s
    ELSE IF s = "unknown" /\ o \in {"healthy", "recovering"} THEN s
    ELSE o

Worsen(o, s) ==
    IF s \in {"recovering", "checking"} /\ o = "healthy" THEN "recovering"
    ELSE IF s = "degraded" /\ o # "failed" THEN "degraded"
    ELSE IF s = "failed" THEN "failed"
    ELSE IF s = "unknown" /\ o \in {"healthy", "recovering"} THEN "unknown"
    ELSE o

Visit ==
    /\ next \in DOMAIN Configured
    /\ LET s == status[Configured[next]] IN
        /\ overall' = Worsen(overall, s)
        /\ count' = [c \in Counted |-> count[c] + IF c = CountedAs(s) THEN 1 ELSE 0]
    /\ next' = next + 1
    /\ UNCHANGED <<status, code>>

OverallStatusHealthy(o) == o \in {"healthy", "recovering"}

AnswerHealth ==
    /\ next = Len(Configured) + 1
    /\ code' = IF OverallStatusHealthy(overall) THEN 200 ELSE 503
    /\ next' = 0
    /\ UNCHANGED <<status, overall, count>>

HealthNext ==
    \/ \E m \in Watched, s \in Statuses : SetStatus(m, s)
    \/ BeginHealth \/ Visit \/ AnswerHealth

HealthSpec == HealthInit /\ [][HealthNext]_healthVars

-----------------------------------------------------------------------------
(* Correctness *)

\* Every variable keeps its type.
HealthTypeOK ==
    /\ status \in [Watched -> Statuses]
    /\ next \in 0 .. Len(Configured) + 1
    /\ overall \in Overalls
    /\ count \in [Counted -> Nat]
    /\ code \in {0, 200, 503}

Severity == [healthy |-> 0, recovering |-> 1, unknown |-> 2, degraded |-> 3, failed |-> 4]

\* A monitor that is being checked counts as recovering, one that is disabled
\* does not count.
Seen(s) ==
    IF s = "disabled" THEN "healthy" ELSE IF s = "checking" THEN "recovering" ELSE s

Statused(i) == status[Configured[i]]

IsWorst(o, n) ==
    /\ \A i \in 1 .. n : Severity[Seen(Statused(i))] <= Severity[o]
    /\ o = "healthy" \/ \E i \in 1 .. n : Seen(Statused(i)) = o

Finished == next = Len(Configured) + 1

\* The overall status is the worst of the monitors at one moment, in whichever
\* order they are configured (CHANGELOG.md:11, "independent of monitor
\* ordering"): no monitor hides a worse one before or after it.
OverallIsWorst == Finished => IsWorst(overall, Len(Configured))

\* The numbers beside the overall status do not contradict it.
CountsAgree ==
    Finished =>
        /\ overall = "failed" <=> count["failed"] > 0
        /\ overall = "degraded" <=> count["failed"] = 0 /\ count["degraded"] > 0
        /\ overall = "recovering" => count["recovering"] > 0
        /\ overall = "healthy" => count["recovering"] = 0

\* GET /health says 503 exactly if, while it looked, a monitor was failed,
\* degraded or of unknown status.
HealthIsHonest ==
    [][next' = 0 /\ next # 0 =>
         (code' = 503 <=>
            \E m \in Watched : status[m] \in {"failed", "degraded", "unknown"})]_healthVars

=============================================================================
