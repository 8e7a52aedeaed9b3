------------------------------ MODULE AtomicFile ------------------------------
(***************************************************************************)
(* internal/persistence/json.go: state.json or events.json, saved through  *)
(* a temporary file and loaded with a quarantine for what does not parse.  *)
(*                                                                         *)
(* The file system (external): a call takes effect for every process at    *)
(* once, but a loss of power takes the directory back to any of the states *)
(* it had since it was flushed last, and a file that was not flushed may   *)
(* then hold anything.  Every call may fail.  The temporary file has no    *)
(* name that anyone reads, so only its contents are kept.                  *)
(***************************************************************************)
CONSTANTS
    Values,    \* what the daemon saves
    Garbage,   \* contents that do not parse, "null" included
    Absent     \* no file, and the empty value that is loaded then

ASSUME FileAssumption ==
    /\ Values \cap Garbage = {}
    /\ Absent \notin Values \cup Garbage
    /\ {"saved", "failed", "none"} \cap (Values \cup {Absent}) = {}

VARIABLES
    dir,        \* the directory as the processes see it
    onDisk,     \* the directories that a loss of power may leave
    temp,       \* the temporary file
    pc, value,  \* the operation under way and the value it saves
    answer,     \* what the last operation returned
    discarded   \* history variable: garbage that a load took away

vars == <<dir, onDisk, temp, pc, value, answer, discarded>>

File(v, flushed) == [value |-> v, flushed |-> flushed]

NoFile == File(Absent, TRUE)

Saving == {"writing", "syncing", "renaming", "flushing"}
PCs    == Saving \cup {"down", "moving", "keeping", "idle"}

-----------------------------------------------------------------------------
(* Save *)

BeginSave(v) ==
    /\ pc = "idle"
    /\ pc' = "writing" /\ value' = v
    /\ UNCHANGED <<dir, onDisk, temp, answer, discarded>>

WriteTemp ==
    /\ pc = "writing"
    /\ temp' = File(value, FALSE)
    /\ pc' = "syncing"
    /\ UNCHANGED <<dir, onDisk, value, answer, discarded>>

MutantSyncTemp ==
    /\ pc = "syncing"
    /\ pc' = "renaming"
    /\ UNCHANGED <<dir, onDisk, temp, value, answer, discarded>>

SyncTemp ==
    /\ pc = "syncing"
    /\ temp' = File(temp.value, TRUE)
    /\ pc' = "renaming"
    /\ UNCHANGED <<dir, onDisk, value, answer, discarded>>

RenameTemp ==
    /\ pc = "renaming"
    /\ dir' = [dir EXCEPT !.file = temp]
    /\ onDisk' = onDisk \cup {dir'}
    /\ pc' = "flushing"
    /\ UNCHANGED <<temp, value, answer, discarded>>

FlushDir ==
    /\ pc = "flushing"
    /\ onDisk' = {dir}
    /\ pc' = "idle" /\ answer' = "saved"
    /\ UNCHANGED <<dir, temp, value, discarded>>

-----------------------------------------------------------------------------
(* Load, the first thing a process does with the file *)

MutantRead ==
    /\ pc = "down"
    /\ pc' = "idle" /\ answer' = dir.file.value
    /\ UNCHANGED <<dir, onDisk, temp, value, discarded>>

Read ==
    /\ pc = "down"
    /\ IF dir.file.value \in Garbage
       THEN pc' = "moving" /\ UNCHANGED answer
       ELSE pc' = "idle" /\ answer' = dir.file.value
    /\ UNCHANGED <<dir, onDisk, temp, value, discarded>>

MutantMoveAway ==
    /\ pc = "moving"
    /\ pc' = "keeping" /\ discarded' = discarded \cup {dir.file.value}
    /\ UNCHANGED <<dir, onDisk, temp, value, answer>>

MoveAway ==
    /\ pc = "moving"
    /\ dir' = [file |-> NoFile, kept |-> dir.kept \cup {dir.file.value}]
    /\ onDisk' = onDisk \cup {dir'}
    /\ pc' = "keeping" /\ discarded' = discarded \cup {dir.file.value}
    /\ UNCHANGED <<temp, value, answer>>

KeepBackup ==
    /\ pc = "keeping"
    /\ onDisk' = {dir}
    /\ pc' = "idle" /\ answer' = Absent
    /\ UNCHANGED <<dir, temp, value, discarded>>

\* A call fails and the operation returns the error.  Without its data the
\* daemon does not start; without a save it goes on.
Fail ==
    /\ pc # "idle"
    /\ pc' = IF pc \in Saving THEN "idle" ELSE "down"
    /\ answer' = "failed"
    /\ UNCHANGED <<dir, onDisk, temp, value, discarded>>

-----------------------------------------------------------------------------
(* The environment *)

Die ==
    /\ pc' = "down" /\ answer' = "none"
    /\ UNCHANGED <<dir, onDisk, temp, value, discarded>>

\* What a loss of power may make of a file
Survivors(f) == IF f.flushed THEN {f} ELSE {File(v, TRUE) : v \in Garbage \cup {f.value}}

LosePower ==
    /\ \E d \in onDisk : \E f \in Survivors(d.file) : dir' = [d EXCEPT !.file = f]
    /\ onDisk' = {dir'}
    /\ pc' = "down" /\ answer' = "none"
    /\ UNCHANGED <<temp, value, discarded>>

\* A good file at rest is damaged, by its medium or by hand.
Damage(g) ==
    /\ pc \in {"down", "idle"} /\ onDisk = {dir} /\ dir.file.value \in Values
    /\ dir' = [dir EXCEPT !.file = File(g, TRUE)]
    /\ onDisk' = {dir'}
    /\ UNCHANGED <<temp, pc, value, answer, discarded>>

-----------------------------------------------------------------------------

Init ==
    /\ dir = [file |-> NoFile, kept |-> {}]
    /\ onDisk = {dir}
    /\ temp = NoFile
    /\ pc = "down" /\ value = Absent
    /\ answer = "none"
    /\ discarded = {}

Next ==
    \/ \E v \in Values : BeginSave(v)
    \/ WriteTemp \/ SyncTemp \/ RenameTemp \/ FlushDir
    \/ Read \/ MoveAway \/ KeepBackup
    \/ Fail \/ Die \/ LosePower
    \/ \E g \in Garbage : Damage(g)

Spec == Init /\ [][Next]_vars

-----------------------------------------------------------------------------
(* Correctness *)

Files == [value : Values \cup Garbage \cup {Absent}, flushed : BOOLEAN]

Directories == [file : Files, kept : SUBSET Garbage]

\* Every variable keeps its type: what processes see is one of the states that
\* the disk may have, and no operation answers with something that did not parse.
TypeOK ==
    /\ dir \in onDisk
    /\ onDisk \in SUBSET Directories
    /\ temp \in Files
    /\ pc \in PCs
    /\ value \in Values \cup {Absent}
    /\ answer \in Values \cup {Absent, "saved", "failed", "none"}
    /\ discarded \in SUBSET Garbage

\* What does not parse is never lost: a file that a load took away (the rename
\* to ".corrupt-...") survives every later save and every loss of power, in
\* the backup or, until the directory is flushed, under its own name.
CorruptIsPreserved ==
    \A g \in discarded, d \in onDisk : g \in d.kept \/ g = d.file.value

\* The value that a load of a file returns
Loadable(f) == IF f.value \in Garbage THEN Absent ELSE f.value

LoadableValues == {Loadable(d.file) : d \in onDisk}

Candidates == IF pc \in Saving THEN LoadableValues \cup {value} ELSE LoadableValues

Unfinished == IF pc \in Saving THEN value ELSE Absent

Abstract == INSTANCE Register WITH candidates <- Candidates, saving <- Unfinished

\* Save and Load implement a register (json.go: "Save flushes both file
\* contents and the rename before reporting success"): after success a load
\* returns what was saved, whatever ends the process or the power; before, the
\* old value or the new one, and never an empty or a torn file.
ImplementsRegister == Abstract!Spec

=============================================================================
