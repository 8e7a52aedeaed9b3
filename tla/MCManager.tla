------------------------------ MODULE MCManager ------------------------------
(* Small instances of the engine for TLC. *)
EXTENDS ManagerProperties

CONSTANTS m1, m2, r1, r2   \* model values

CONSTANTS Checks, Threshold, Cap, CooldownTicks   \* the same for every monitor

EachChecks    == [m \in Monitors |-> Checks]
EachThreshold == [m \in Monitors |-> Threshold]
EachCap       == [m \in Monitors |-> Cap]
EachCooldown  == [m \in Monitors |-> CooldownTicks]

RunThenRecheck == [m \in Monitors |-> <<"run", "recheck">>]
RecheckThenRun == [m \in Monitors |-> <<"recheck", "run">>]
RunOnly        == [m \in Monitors |-> <<"run">>]

AllOn      == {Monitors}
SomeOn     == {Monitors, Monitors \ {m1}}

-----------------------------------------------------------------------------

LiveSpec == Spec /\ FairFor(m1)

\* The loop of a monitor goes on checking whatever fails or is cut short: no
\* timeout, failed save or control call takes the slot away for good.
MonitorsStayWatched == Watched(m1)

\* Every call is answered, however busy the monitor and however many saves fail.
RequestsAnswered == Answered(m1)

\* Two monitors, where anything on m1 may hang: its loop or a call in a check
\* or in a recovery action that never returns.
IsolatedSpec == Spec /\ FairFor(m2)

\* A hanging monitor holds up only itself: the other one is checked again and
\* again, calls on it are answered, and a call that waits for the slot of the
\* hanging one gives up (withMonitorLock).
HungMonitorIsIsolated == Watched(m2) /\ Answered(m2)

=============================================================================
