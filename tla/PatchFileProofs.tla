-------------------------- MODULE PatchFileProofs --------------------------
(***************************************************************************)
(* Proofs about PatchFile, for any number of runs.  None of the three      *)
(* properties is inductive: what a run may still do to the file depends on *)
(* which version it loaded, which is what Progress keeps, and that version *)
(* is complete only because every run before it ended with its errors      *)
(* handled or the format refuses a truncated file, which is what Sources   *)
(* keeps.                                                                  *)
(***************************************************************************)
EXTENDS PatchFile, TLAPS

(* What is saved when the file was b: the next version.                    *)
Patched(b) == IF b \in Complete THEN b + 1 ELSE Damaged

(* Where the version the run began with is, phase by phase.                *)
Progress ==
  /\ phase = "load"    => file = before
  /\ phase = "apply"   => /\ file = before
                          /\ content = IF before = Truncated THEN Damaged ELSE before
  /\ phase = "rename"  => file = before /\ content = Patched(before)
  /\ phase = "open"    => bak = before /\ file = Absent /\ content = Patched(before)
  /\ phase = "write"   => bak = before /\ file = Truncated /\ content = Patched(before)
  /\ phase = "restore" => bak = before /\ file \in {Absent, Truncated}
  /\ phase = "cleanup" => bak = before /\ file = content /\ content = Patched(before)

Loaded == {"apply", "rename", "open", "write", "restore", "cleanup"}

(* The data can be relied on: no run was cut short, or a truncated file    *)
(* would not load.                                                         *)
Sound == ~(lenient /\ cutShort)

(* A run that got past loading began with a complete file; if none was cut *)
(* short every run does; a strict format never saves or backs up anything  *)
(* else.                                                                   *)
Sources ==
  /\ Sound /\ phase \in Loaded => before \in Complete
  /\ ~cutShort /\ phase \in Stopped \cup {"load"} => file \in Complete
  /\ ~lenient => file # Damaged /\ bak \in Complete \cup {Absent}

IInv == TypeOK /\ Progress /\ Sources /\ CompleteCopyExists /\ FailureRestores /\ SavedOverBackup

(* The first run finds the original.                                       *)
LEMMA InitHolds == Init => IInv
<1> USE PatchAssumption DEF Complete, Files, Stopped
<1> SUFFICES ASSUME Init PROVE IInv
  OBVIOUS
<1>1. TypeOK
  <2>1. file \in Files /\ bak \in Files /\ before \in Files /\ content \in Files \ {Truncated}
    BY DEF Init
  <2>2. backup \in BOOLEAN /\ lenient \in BOOLEAN /\ cutShort \in BOOLEAN
    BY DEF Init
  <2>3. runs \in 0 .. MaxRuns /\ phase = "none" /\ phase \in Stopped
    BY DEF Init
  <2>4. QED
    BY <2>1, <2>2, <2>3 DEF TypeOK
<1>2. Progress /\ Sources /\ FailureRestores /\ SavedOverBackup
  BY DEF Init, Progress, Sources, Loaded, Sound, FailureRestores, SavedOverBackup
<1>3. CompleteCopyExists
  BY DEF Init, CompleteCopyExists
<1>4. QED
  BY <1>1, <1>2, <1>3 DEF IInv

(* Every step of a run keeps every part of the invariant.                  *)
LEMMA StepHolds == IInv /\ [Next]_vars => IInv'
<1> USE PatchAssumption DEF Complete, Files, Stopped, Loaded
<1> SUFFICES ASSUME IInv, [Next]_vars PROVE IInv'
  OBVIOUS
<1> USE DEF IInv
<1>1. ASSUME NEW b \in BOOLEAN, Begin(b) PROVE IInv'
  <2>1. TypeOK'
    BY <1>1 DEF Begin, TypeOK
  <2>2. Progress' /\ Sources' /\ FailureRestores' /\ SavedOverBackup'
    BY <1>1 DEF Begin, TypeOK, Progress, Sources, Sound, FailureRestores, SavedOverBackup
  <2>3. CompleteCopyExists'
    BY <1>1 DEF Begin, CompleteCopyExists
  <2>4. QED
    BY <2>1, <2>2, <2>3
<1>2. ASSUME Load PROVE IInv'
  <2>1. TypeOK'
    BY <1>2 DEF Load, TypeOK
  <2>2. Progress' /\ Sources' /\ FailureRestores' /\ SavedOverBackup'
    BY <1>2 DEF Load, TypeOK, Progress, Sources, Sound, FailureRestores, SavedOverBackup
  <2>3. CompleteCopyExists'
    BY <1>2 DEF Load, CompleteCopyExists
  <2>4. QED
    BY <2>1, <2>2, <2>3
<1>3. ASSUME Apply PROVE IInv'
  <2>1. TypeOK'
    BY <1>3 DEF Apply, TypeOK, Progress
  <2>2. Progress' /\ Sources' /\ FailureRestores' /\ SavedOverBackup'
    BY <1>3 DEF Apply, TypeOK, Progress, Patched, Sources, Sound, FailureRestores, SavedOverBackup
  <2>3. CompleteCopyExists'
    BY <1>3 DEF Apply, CompleteCopyExists
  <2>4. QED
    BY <2>1, <2>2, <2>3
<1>4. ASSUME MoveToBackup PROVE IInv'
  <2>1. TypeOK'
    BY <1>4 DEF MoveToBackup, TypeOK
  <2>2. Progress' /\ Sources' /\ FailureRestores' /\ SavedOverBackup'
    BY <1>4 DEF MoveToBackup, TypeOK, Progress, Sources, Sound, FailureRestores, SavedOverBackup
  <2>3. CompleteCopyExists'
    BY <1>4 DEF MoveToBackup, CompleteCopyExists, Progress, Sources, Sound
  <2>4. QED
    BY <2>1, <2>2, <2>3
<1>5. ASSUME Open PROVE IInv'
  <2>1. TypeOK'
    BY <1>5 DEF Open, TypeOK
  <2>2. Progress' /\ Sources' /\ FailureRestores' /\ SavedOverBackup'
    BY <1>5 DEF Open, TypeOK, Progress, Sources, Sound, FailureRestores, SavedOverBackup
  <2>3. CompleteCopyExists'
    BY <1>5 DEF Open, CompleteCopyExists, Progress, Sources, Sound
  <2>4. QED
    BY <2>1, <2>2, <2>3
<1>6. ASSUME Write PROVE IInv'
  <2>1. TypeOK'
    BY <1>6 DEF Write, TypeOK
  <2>2. Progress' /\ Sources' /\ FailureRestores' /\ SavedOverBackup'
    BY <1>6 DEF Write, TypeOK, Progress, Patched, Sources, Sound, FailureRestores, SavedOverBackup
  <2>3. CompleteCopyExists'
    BY <1>6 DEF Write, CompleteCopyExists, Progress, Sources, Sound
  <2>4. QED
    BY <2>1, <2>2, <2>3
<1>7. ASSUME Restore PROVE IInv'
  <2>1. TypeOK'
    BY <1>7 DEF Restore, TypeOK
  <2>2. Progress' /\ Sources' /\ FailureRestores' /\ SavedOverBackup'
    BY <1>7 DEF Restore, TypeOK, Progress, Sources, Sound, FailureRestores, SavedOverBackup
  <2>3. CompleteCopyExists'
    BY <1>7 DEF Restore, CompleteCopyExists, Progress, Sources, Sound
  <2>4. QED
    BY <2>1, <2>2, <2>3
<1>8. ASSUME CleanUp PROVE IInv'
  <2>1. TypeOK'
    BY <1>8 DEF CleanUp, TypeOK
  <2>2. Progress' /\ Sources' /\ FailureRestores' /\ SavedOverBackup'
    BY <1>8 DEF CleanUp, TypeOK, Progress, Patched, Sources, Sound, FailureRestores, SavedOverBackup
  <2>3. CompleteCopyExists'
    <3>1. Sound => file' \in Complete
      BY <1>8 DEF CleanUp, Progress, Patched, Sources, Sound
    <3>2. cutShort' = cutShort /\ lenient' = lenient
      BY <1>8 DEF CleanUp
    <3>3. QED
      BY <3>1, <3>2 DEF CompleteCopyExists, Sound
  <2>4. QED
    BY <2>1, <2>2, <2>3
<1>9. ASSUME Kill PROVE IInv'
  <2>1. TypeOK'
    BY <1>9 DEF Kill, TypeOK
  <2>2. Progress' /\ Sources' /\ FailureRestores' /\ SavedOverBackup'
    BY <1>9 DEF Kill, TypeOK, Progress, Sources, Sound, FailureRestores, SavedOverBackup
  <2>3. CompleteCopyExists'
    BY <1>9 DEF Kill, CompleteCopyExists
  <2>4. QED
    BY <2>1, <2>2, <2>3
<1>10. CASE UNCHANGED vars
  BY <1>10 DEF vars, TypeOK, Progress, Sources, Sound, CompleteCopyExists, FailureRestores, SavedOverBackup
<1>11. QED
  BY <1>1, <1>2, <1>3, <1>4, <1>5, <1>6, <1>7, <1>8, <1>9, <1>10 DEF Next, Finished

(* The invariant of deep patch.                                            *)
THEOREM PatchInvariance == Spec => []IInv
  BY InitHolds, StepHolds, PTL DEF Spec

(* Type correctness, for any number of runs.                               *)
THEOREM PatchTypes == Spec => []TypeOK
<1>1. IInv => TypeOK
  BY DEF IInv
<1>2. QED
  BY <1>1, PatchInvariance, PTL

(* The data is never lost, whatever the sequence of runs, failures, failed *)
(* undoings and kills of `deep patch`, unless a format that loads truncated*)
(* files meets one.                                                        *)
THEOREM DataIsNeverLost == Spec => []CompleteCopyExists
<1>1. IInv => CompleteCopyExists
  BY DEF IInv
<1>2. QED
  BY <1>1, PatchInvariance, PTL

(* A run that ends with an error leaves what it found: at path, or as the  *)
(* backup if the error is that of undoing or of removing the backup.       *)
THEOREM FailureIsUndone == Spec => []FailureRestores
<1>1. IInv => FailureRestores
  BY DEF IInv
<1>2. QED
  BY <1>1, PatchInvariance, PTL

(* A run that ends saved the patched data, over the backup it was asked    *)
(* to keep.                                                                *)
THEOREM SavedIsPatched == Spec => []SavedOverBackup
<1>1. IInv => SavedOverBackup
  BY DEF IInv
<1>2. QED
  BY <1>1, PatchInvariance, PTL
=============================================================================
