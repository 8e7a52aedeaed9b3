--------------------------- MODULE AtomicFileProofs ---------------------------
(***************************************************************************)
(* Proofs for AtomicFile, for any sets of values and of garbage: the type  *)
(* invariant, the preservation of what does not parse, and that saves and  *)
(* loads implement the abstract Register.                                  *)
(***************************************************************************)
EXTENDS AtomicFile, TLAPS

-----------------------------------------------------------------------------
(* The inductive invariant *)

\* No name ever refers to contents that are not flushed, and each step of an
\* operation knows what the one before it did.
Progress ==
    /\ \A d \in onDisk : d.file.flushed
    /\ pc \in Saving => value \in Values
    /\ pc \in {"syncing", "renaming"} => temp.value = value
    /\ pc = "renaming" => temp.flushed
    /\ pc = "flushing" => dir.file.value = value
    /\ pc = "moving" => dir.file.value \in Garbage
    /\ pc = "keeping" => dir.file.value = Absent

\* While a load finds garbage, nothing else could have been found.
NothingElse ==
    /\ dir.file.value \in Garbage => onDisk = {dir}
    /\ pc = "keeping" => \A d \in onDisk : Loadable(d.file) = Absent

\* A process saves only after a load, so it replaces nothing that was taken
\* away but is back under its own name after a loss of power.
Preserved ==
    /\ CorruptIsPreserved
    /\ pc \in Saving \cup {"idle", "keeping"} => discarded \subseteq dir.kept

FileInv == TypeOK /\ Progress /\ NothingElse /\ Preserved

-----------------------------------------------------------------------------

LEMMA FileInvInit == Init => FileInv
  BY FileAssumption
  DEF Init, FileInv, TypeOK, Progress, NothingElse, Preserved, CorruptIsPreserved,
      Directories, Files, File, NoFile, PCs, Saving, Loadable

LEMMA FileInvStep == FileInv /\ [Next]_vars => FileInv'
<1> SUFFICES ASSUME FileInv, [Next]_vars PROVE FileInv'
  OBVIOUS
<1> USE FileAssumption DEF FileInv, TypeOK, Progress, NothingElse, Preserved,
        CorruptIsPreserved, Directories, Files, File, PCs, Saving, Loadable
<1>1. CASE \E v \in Values : BeginSave(v)
  BY <1>1 DEF BeginSave
<1>2. CASE WriteTemp
  BY <1>2 DEF WriteTemp
<1>3. CASE SyncTemp
  BY <1>3 DEF SyncTemp
<1>4. CASE RenameTemp
  BY <1>4 DEF RenameTemp
<1>5. CASE FlushDir
  BY <1>5 DEF FlushDir
<1>6. CASE Read
  BY <1>6 DEF Read
<1>7. CASE MoveAway
  <2>1. onDisk = {dir} /\ dir.file.value \in Garbage
    BY <1>7 DEF MoveAway
  <2>2. /\ dir'.file.value = Absent /\ dir'.file.flushed
        /\ dir'.kept = dir.kept \cup {dir.file.value}
        /\ dir' \in Directories
    BY <1>7, <2>1 DEF MoveAway, NoFile
  <2>3. \A d \in onDisk' : d = dir \/ d = dir'
    BY <1>7, <2>1 DEF MoveAway
  <2> QED
    BY <1>7, <2>1, <2>2, <2>3 DEF MoveAway
<1>8. CASE KeepBackup
  BY <1>8 DEF KeepBackup
<1>9. CASE Fail
  BY <1>9 DEF Fail
<1>10. CASE Die
  BY <1>10 DEF Die
<1>11. CASE LosePower
  <2>1. PICK d \in onDisk : \E f \in Survivors(d.file) : dir' = [d EXCEPT !.file = f]
    BY <1>11 DEF LosePower
  <2>2. dir' = d
    BY <2>1 DEF Survivors
  <2> QED
    BY <1>11, <2>1, <2>2 DEF LosePower
<1>12. CASE \E g \in Garbage : Damage(g)
  <2>1. PICK g \in Garbage : Damage(g)
    BY <1>12
  <2>2. dir'.file = File(g, TRUE) /\ dir'.kept = dir.kept /\ dir' \in Directories
    BY <2>1 DEF Damage
  <2>3. discarded \subseteq dir.kept
    BY <2>1 DEF Damage
  <2> QED
    BY <2>1, <2>2, <2>3 DEF Damage
<1>13. CASE UNCHANGED vars
  BY <1>13 DEF vars
<1> QED
  BY <1>1, <1>2, <1>3, <1>4, <1>5, <1>6, <1>7, <1>8, <1>9, <1>10, <1>11, <1>12, <1>13
  DEF Next

LEMMA FileInvariant == Spec => []FileInv
  BY FileInvInit, FileInvStep, PTL DEF Spec

\* No operation answers with something that did not parse, and the other types.
THEOREM FileTypeCorrect == Spec => []TypeOK
<1>1. FileInv => TypeOK
  BY DEF FileInv
<1> QED
  BY <1>1, FileInvariant, PTL

\* What a load took away is never lost (persistence.Load, the ".corrupt" backup).
THEOREM CorruptPreserved == Spec => []CorruptIsPreserved
<1>1. FileInv => CorruptIsPreserved
  BY DEF FileInv, Preserved
<1> QED
  BY <1>1, FileInvariant, PTL

-----------------------------------------------------------------------------
(* Refinement *)

LEMMA CandidatesNonempty ==
    ASSUME TypeOK
    PROVE  LoadableValues # {} /\ LoadableValues \in SUBSET Candidates
  BY DEF TypeOK, LoadableValues, Candidates

LEMMA RefinementInit == Init => Abstract!Init
  BY FileAssumption
  DEF Init, Abstract!Init, Candidates, Unfinished, LoadableValues, Loadable, NoFile, File, Saving

\* Every step is a step of the register, or leaves it unchanged.
LEMMA RefinementStep ==
    FileInv /\ [Next]_vars => Abstract!Next \/ UNCHANGED <<Candidates, Unfinished, answer>>
<1> SUFFICES ASSUME FileInv, [Next]_vars
             PROVE  Abstract!Next \/ UNCHANGED <<Candidates, Unfinished, answer>>
  OBVIOUS
<1>1. CASE \E v \in Values : BeginSave(v)
  <2>1. PICK v \in Values : BeginSave(v)
    BY <1>1
  <2>2. LoadableValues' = LoadableValues
    BY <2>1 DEF BeginSave, LoadableValues, Loadable
  <2>3. Abstract!Begin(v)
    BY <2>1, <2>2 DEF BeginSave, Abstract!Begin, Candidates, Unfinished, Saving
  <2> QED
    BY <2>3 DEF Abstract!Next
<1>2. CASE WriteTemp \/ SyncTemp
  <2>1. LoadableValues' = LoadableValues
    BY <1>2 DEF WriteTemp, SyncTemp, LoadableValues, Loadable
  <2> QED
    BY <1>2, <2>1 DEF WriteTemp, SyncTemp, Candidates, Unfinished, Saving
<1>3. CASE RenameTemp
  <2>1. Loadable(dir'.file) = value
    BY <1>3, FileAssumption
    DEF RenameTemp, FileInv, TypeOK, Directories, Progress, Loadable, Saving
  <2>2. LoadableValues' = LoadableValues \cup {value}
    BY <1>3, <2>1 DEF RenameTemp, LoadableValues, Loadable
  <2> QED
    BY <1>3, <2>2 DEF RenameTemp, Candidates, Unfinished, Saving
<1>4. CASE FlushDir
  <2>1. Loadable(dir.file) = value /\ value # Absent
    BY <1>4, FileAssumption DEF FlushDir, FileInv, Progress, Loadable, Saving
  <2>2. LoadableValues' = {value}
    BY <1>4, <2>1 DEF FlushDir, LoadableValues, Loadable
  <2>3. Abstract!Succeed
    BY <1>4, <2>1, <2>2 DEF FlushDir, Abstract!Succeed, Candidates, Unfinished, Saving
  <2> QED
    BY <2>3 DEF Abstract!Next
<1>5. CASE Read
  <2>1. LoadableValues' = LoadableValues /\ pc \notin Saving /\ pc' \notin Saving
    BY <1>5 DEF Read, LoadableValues, Loadable, Saving
  <2>2. CASE dir.file.value \in Garbage
    BY <1>5, <2>1, <2>2 DEF Read, Candidates, Unfinished
  <2>3. CASE dir.file.value \notin Garbage
    <3>1. answer' \in LoadableValues
      BY <1>5, <2>3 DEF Read, LoadableValues, Loadable, FileInv, TypeOK
    <3>2. Abstract!Load
      BY <2>1, <3>1 DEF Abstract!Load, Candidates, Unfinished
    <3> QED
      BY <3>2 DEF Abstract!Next
  <2> QED
    BY <2>2, <2>3
<1>6. CASE MoveAway
  <2>1. LoadableValues = {Absent}
    BY <1>6 DEF MoveAway, LoadableValues, Loadable, FileInv, Progress, NothingElse
  <2>2. Loadable(dir'.file) = Absent /\ onDisk' = onDisk \cup {dir'}
    BY <1>6, FileAssumption DEF MoveAway, NoFile, File, Loadable
  <2>3. LoadableValues' = LoadableValues \cup {Absent}
    BY <2>2 DEF LoadableValues, Loadable
  <2> QED
    BY <1>6, <2>1, <2>3 DEF MoveAway, Candidates, Unfinished, Saving
<1>7. CASE KeepBackup
  <2>1. LoadableValues = {Absent}
    BY <1>7 DEF KeepBackup, LoadableValues, FileInv, TypeOK, NothingElse
  <2>2. LoadableValues' = {Absent}
    BY <1>7, FileAssumption DEF KeepBackup, LoadableValues, Loadable, FileInv, Progress
  <2>3. Abstract!Load
    BY <1>7, <2>1, <2>2 DEF KeepBackup, Abstract!Load, Candidates, Unfinished, Saving
  <2> QED
    BY <2>3 DEF Abstract!Next
<1>8. CASE Fail \/ Die
  <2>1. LoadableValues' = LoadableValues /\ pc' \notin Saving
    BY <1>8 DEF Fail, Die, LoadableValues, Loadable, Saving
  <2>2. Abstract!Settle
    BY <1>8, <2>1, CandidatesNonempty DEF Fail, Die, Abstract!Settle, Candidates, Unfinished, FileInv
  <2> QED
    BY <2>2 DEF Abstract!Next
<1>9. CASE LosePower
  <2>1. PICK d \in onDisk : \E f \in Survivors(d.file) : dir' = [d EXCEPT !.file = f]
    BY <1>9 DEF LosePower
  <2>2. dir' = d
    BY <2>1 DEF Survivors, FileInv, Progress, TypeOK, Directories
  <2>3. LoadableValues' = {Loadable(d.file)} /\ pc' \notin Saving
    BY <1>9, <2>2 DEF LosePower, LoadableValues, Loadable, Saving
  <2>4. LoadableValues' \in SUBSET Candidates /\ LoadableValues' # {}
    BY <2>3 DEF LoadableValues, Candidates
  <2>5. Abstract!Settle
    BY <1>9, <2>3, <2>4 DEF LosePower, Abstract!Settle, Candidates, Unfinished
  <2> QED
    BY <2>5 DEF Abstract!Next
<1>10. CASE \E g \in Garbage : Damage(g)
  <2>1. PICK g \in Garbage : Damage(g)
    BY <1>10
  <2>2. dir'.file.value = g
    BY <2>1 DEF Damage, File, FileInv, TypeOK, Directories
  <2>3. LoadableValues' = {Absent} /\ pc \notin Saving /\ pc' \notin Saving
    BY <2>1, <2>2 DEF Damage, LoadableValues, Loadable, Saving
  <2>4. Abstract!Damage
    BY <2>1, <2>3 DEF Damage, Abstract!Damage, Candidates, Unfinished
  <2> QED
    BY <2>4 DEF Abstract!Next
<1>11. CASE UNCHANGED vars
  BY <1>11 DEF vars, Candidates, Unfinished, LoadableValues, Loadable
<1> QED
  BY <1>1, <1>2, <1>3, <1>4, <1>5, <1>6, <1>7, <1>8, <1>9, <1>10, <1>11 DEF Next

\* Save and Load implement a register that a successful save sets for good.
THEOREM FileImplementsRegister == Spec => ImplementsRegister
<1>1. FileInv /\ [Next]_vars => [Abstract!Next]_<<Candidates, Unfinished, answer>>
  BY RefinementStep
<1> QED
  BY <1>1, RefinementInit, FileInvariant, PTL DEF Spec, ImplementsRegister, Abstract!Spec

=============================================================================
