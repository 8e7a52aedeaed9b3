---------------------------- MODULE RecoveryPolicy ----------------------------
(***************************************************************************)
(* What the engine does to a service, seen from outside: when it may run a *)
(* monitor's recovery actions.  There are no goroutines, labels, contexts  *)
(* or histories here, and of the two files only the number of failures in  *)
(* a row that a restart would find.                                        *)
(***************************************************************************)
EXTENDS Naturals

CONSTANTS
    Monitors,
    Callers,               \* whoever works on a monitor: its loop, control calls
    FailureThreshold, MaxRecoveryAttempts, Cooldown, TicksPerSecond

VARIABLES
    working,   \* working[m]: who works on m and at which job, in a set
    acting,    \* the monitors whose recovery actions may be running
    row,       \* failed checks in a row
    saved,     \* the row that a restart would find
    last,      \* the time of the last recovery's start, in a set
    spent,     \* failed automatic recoveries of all time
    lives,     \* ends of the process so far
    now

vars == <<working, acting, row, saved, last, spent, lives, now>>

Job(m, job) == \E p \in Callers : working[m] = {<<p, job>>}

\* Any step may save the rows as it leaves them, all or none of them.
Saves == saved' = saved \/ saved' = row'

-----------------------------------------------------------------------------

\* One at a time
Enter(m, p, job) ==
    /\ working[m] = {}
    /\ working' = [working EXCEPT ![m] = {<<p, job>>}]
    /\ UNCHANGED <<acting, row, saved, last, spent, lives, now>>

Leave(m) ==
    /\ working[m] # {} /\ m \notin acting
    /\ working' = [working EXCEPT ![m] = {}]
    /\ UNCHANGED <<acting, row, saved, last, spent, lives, now>>

\* A check that is not cut short ends; others leave no trace.
Check(m) ==
    /\ Job(m, "check") /\ m \notin acting
    /\ \E failures \in {0, row[m] + 1} : row' = [row EXCEPT ![m] = failures]
    /\ Saves
    /\ UNCHANGED <<working, acting, last, spent, lives, now>>

\* The cooldown is over, up to the fraction of a second that the file drops.
Rested(m) == \A t \in last[m] : now + TicksPerSecond > t + Cooldown[m]

WithinCap(m) == MaxRecoveryAttempts[m] > 0 => spent[m] < MaxRecoveryAttempts[m] + lives

\* Actions begin, on the daemon's decision or the operator's, and only after
\* what they follow from is saved.
Begin(m) ==
    /\ m \notin acting
    /\ \/ Job(m, "check") /\ row[m] >= FailureThreshold[m] /\ Rested(m) /\ WithinCap(m)
       \/ Job(m, "recover")
    /\ acting' = acting \cup {m}
    /\ last' = [last EXCEPT ![m] = {now}]
    /\ saved' = row
    /\ UNCHANGED <<working, row, spent, lives, now>>

Succeed(m) ==
    /\ m \in acting
    /\ acting' = acting \ {m}
    /\ row' = [row EXCEPT ![m] = 0]
    /\ Saves
    /\ UNCHANGED <<working, last, spent, lives, now>>

Fail(m) ==
    /\ m \in acting
    /\ acting' = acting \ {m}
    /\ spent' = IF Job(m, "check") THEN [spent EXCEPT ![m] = @ + 1] ELSE spent
    /\ Saves
    /\ UNCHANGED <<working, row, last, lives, now>>

\* A recovery is cut short: it counts neither as a success nor as a failure.
BreakOff(m) ==
    /\ m \in acting
    /\ acting' = acting \ {m}
    /\ Saves
    /\ UNCHANGED <<working, row, last, spent, lives, now>>

\* A save may fail as well.
Save ==
    /\ Saves
    /\ UNCHANGED <<working, acting, row, last, spent, lives, now>>

\* The process ends, wherever it is; nobody works until the next one has started.
End ==
    /\ working' = [m \in Monitors |-> {}]
    /\ acting' = {}
    /\ row' = saved
    /\ lives' = lives + 1
    /\ UNCHANGED <<saved, last, spent, now>>

Tick ==
    /\ now' = now + 1
    /\ UNCHANGED <<working, acting, row, saved, last, spent, lives>>

-----------------------------------------------------------------------------

Init ==
    /\ working = [m \in Monitors |-> {}]
    /\ acting = {}
    /\ row = [m \in Monitors |-> 0] /\ saved = row
    /\ last = [m \in Monitors |-> {}]
    /\ spent = [m \in Monitors |-> 0]
    /\ lives = 0 /\ now = 0

Next ==
    \/ Save \/ End \/ Tick
    \/ \E m \in Monitors :
         \/ \E p \in Callers, job \in {"check", "recover"} : Enter(m, p, job)
         \/ Leave(m) \/ Check(m) \/ Begin(m) \/ Succeed(m) \/ Fail(m) \/ BreakOff(m)

Spec == Init /\ [][Next]_vars

=============================================================================
