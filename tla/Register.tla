------------------------------- MODULE Register -------------------------------
(***************************************************************************)
(* What the engine may expect of one of its two files: a register that a   *)
(* successful save sets for good, whatever ends the process or the power,  *)
(* and that a save that does not succeed leaves as it was or sets.         *)
(***************************************************************************)
CONSTANTS Values, Absent

VARIABLES
    candidates,   \* the values that a load may return from now on
    saving,       \* the value of a save under way, or Absent
    answer        \* what the last operation returned, "none" if it was cut short

Answers == Values \cup {Absent, "saved", "failed", "none"}

Init == candidates = {Absent} /\ saving = Absent /\ answer = "none"

Begin(v) ==
    /\ saving = Absent
    /\ saving' = v
    /\ candidates' = candidates \cup {v}
    /\ UNCHANGED answer

Succeed ==
    /\ saving # Absent
    /\ candidates' = {saving}
    /\ saving' = Absent
    /\ answer' = "saved"

\* A save fails, or the process or the power ends: fewer values may be left,
\* but one of them is.
Settle ==
    /\ candidates' \in (SUBSET candidates) \ {{}}
    /\ saving' = Absent
    /\ answer' \in {"failed", "none"}

Load ==
    /\ saving = Absent
    /\ answer' \in candidates
    /\ UNCHANGED <<candidates, saving>>

\* The file is damaged from outside: it is found empty.
Damage ==
    /\ candidates' = {Absent}
    /\ UNCHANGED <<saving, answer>>

Next == (\E v \in Values : Begin(v)) \/ Succeed \/ Settle \/ Load \/ Damage

Spec == Init /\ [][Next]_<<candidates, saving, answer>>

=============================================================================
