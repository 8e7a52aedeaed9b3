------------------------------ MODULE EventQuery ------------------------------
(***************************************************************************)
(* GET /events: Manager.EventsSnapshot walks the history from the newest   *)
(* event to the oldest, under the read lock of m.mu, until it has as many  *)
(* matches as were asked for.  A match is kept here as its position.       *)
(***************************************************************************)
EXTENDS Naturals, Sequences

CONSTANTS
    Monitors, EventTypes,
    Times,              \* timestamps, in seconds
    Unparsed,           \* a timestamp in the events file that is none
    Any,                \* a filter that is not set
    Limits,             \* what a client may ask for, 0 for nothing or less
    DefaultLimit, MaxLimit,
    EventsMaxEntries

ASSUME QueryAssumption ==
    /\ Times \subseteq Nat /\ Unparsed \notin Times
    /\ Limits \subseteq Nat
    /\ DefaultLimit \in Nat \ {0} /\ MaxLimit \in Nat \ {0}
    /\ DefaultLimit <= MaxLimit
    /\ EventsMaxEntries \in Nat \ {0}

VARIABLES
    history,   \* m.eventHistory.Events
    reading,   \* a query holds the read lock
    filter,    \* its filter
    index,         \* the loop's index, one more than the code's
    result     \* positions in the history of the events to return

queryVars == <<history, reading, filter, index, result>>

Events == [mon : Monitors, type : EventTypes, at : Times \cup {Unparsed}]

Filters ==
    [mon : Monitors \cup {Any}, type : EventTypes \cup {Any},
     since : Times \cup {Any}, limit : Limits]

NoFilter == [mon |-> Any, type |-> Any, since |-> Any, limit |-> 0]

QueryInit ==
    /\ history = <<>>
    /\ reading = FALSE
    /\ filter = NoFilter /\ index = 0 /\ result = <<>>

TrimToLimit(h) ==
    IF Len(h) > EventsMaxEntries
    THEN SubSeq(h, Len(h) - EventsMaxEntries + 1, Len(h))
    ELSE h

\* appendEventLocked, in some operation that holds m.mu
MutantAppendEvent(e) ==
    /\ history' = TrimToLimit(Append(history, e))
    /\ UNCHANGED <<reading, filter, index, result>>

AppendEvent(e) ==
    /\ ~reading
    /\ history' = TrimToLimit(Append(history, e))
    /\ UNCHANGED <<reading, filter, index, result>>

-----------------------------------------------------------------------------

NormalizeEventLimit(limit) ==
    IF limit = 0 THEN DefaultLimit ELSE IF limit > MaxLimit THEN MaxLimit ELSE limit

Matches(e, f) ==
    /\ f.mon \in {Any, e.mon}
    /\ f.type \in {Any, e.type}
    /\ f.since # Any => e.at # Unparsed /\ e.at >= f.since

BeginQuery(f) ==
    /\ ~reading
    /\ reading' = TRUE
    /\ filter' = f /\ index' = Len(history) /\ result' = <<>>
    /\ UNCHANGED history

MutantFull == Len(result) > NormalizeEventLimit(filter.limit)
Full == Len(result) >= NormalizeEventLimit(filter.limit)

Scan ==
    /\ reading /\ index > 0 /\ ~Full
    /\ result' = IF Matches(history[index], filter) THEN Append(result, index) ELSE result
    /\ index' = index - 1
    /\ UNCHANGED <<history, reading, filter>>

Done == reading /\ (index = 0 \/ Full)

AnswerQuery ==
    /\ Done
    /\ reading' = FALSE
    /\ filter' = NoFilter /\ index' = 0 /\ result' = <<>>
    /\ UNCHANGED history

QueryNext ==
    \/ \E e \in Events : AppendEvent(e)
    \/ \E f \in Filters : BeginQuery(f)
    \/ Scan \/ AnswerQuery

QuerySpec == QueryInit /\ [][QueryNext]_queryVars

-----------------------------------------------------------------------------
(* Correctness *)

\* Every variable keeps its type, and no answer exceeds the limit.
QueryTypeOK ==
    /\ history \in Seq(Events)
    /\ reading \in BOOLEAN
    /\ filter \in Filters \cup {NoFilter}
    /\ index \in 0 .. Len(history)
    /\ result \in Seq(1 .. Len(history))
    /\ Len(result) <= NormalizeEventLimit(filter.limit)
    /\ reading \/ (index = 0 /\ result = <<>>)

Returned == {result[k] : k \in DOMAIN result}

Matching == {j \in DOMAIN history : Matches(history[j], filter)}

\* An answer is sorted, newest event first, has nothing but matches, and skips
\* none: a match that it lacks is older than all that it has, and it has as many
\* as were asked for.  No operation that appends and trims gets in between.
AnswerIsExact ==
    Done =>
        /\ \A k, l \in DOMAIN result : k < l => result[k] > result[l]
        /\ Returned \subseteq Matching
        /\ \A j \in Matching \ Returned :
             /\ Len(result) = NormalizeEventLimit(filter.limit)
             /\ \A r \in Returned : j < r

=============================================================================
