------------------------------- MODULE MCQueries -------------------------------
(***************************************************************************)
(* The two readers of the engine's state that walk over it.  They share    *)
(* nothing but the read lock, and do not wait for each other: a behaviour  *)
(* has requests of one kind.  There are three monitors, any two of them in *)
(* either order and one more beside them, and a history of three events.   *)
(***************************************************************************)
EXTENDS Snapshot, EventQuery

CONSTANTS m1, m2, m3   \* model values

VARIABLE path   \* what the clients ask for

InOrder == <<m1, m2, m3>>

\* The statuses that GET /events does not look at are left alone.
QueriesInit ==
    /\ HealthInit /\ QueryInit
    /\ \/ path = "/health"
       \/ path = "/events" /\ \A m \in Watched : status[m] = "unknown"

QueriesNext ==
    /\ \/ path = "/health" /\ HealthNext /\ UNCHANGED queryVars
       \/ path = "/events" /\ QueryNext /\ UNCHANGED healthVars
    /\ UNCHANGED path

QueriesSpec == QueriesInit /\ [][QueriesNext]_<<path, healthVars, queryVars>>

=============================================================================
