----------------------------- MODULE PatchFile -----------------------------
(***************************************************************************)
(* `deep patch` (deepdiff/commands.py) and save_content_to_path            *)
(* (deepdiff/serialization.py): the patched file and its .bak through any  *)
(* sequence of runs, each of which may fail at any of its steps or be      *)
(* killed between two of them (a KeyboardInterrupt is no Exception, so it  *)
(* kills too).  Undoing a failed save is a step that may fail, too, and so *)
(* is removing the backup after a good one.                                *)
(*                                                                         *)
(* A complete file is known by how many deltas have been applied to the    *)
(* original, 0.  A write that did not end leaves it Truncated; some        *)
(* formats (csv, yaml) can load that as if it were complete, which makes   *)
(* the data Damaged.  Renaming over a file replaces it, as POSIX has it.   *)
(***************************************************************************)
EXTENDS Integers

CONSTANTS MaxRuns, Absent, Truncated, Damaged

ASSUME PatchAssumption ==
  /\ MaxRuns \in Nat
  /\ {Absent, Truncated, Damaged} \cap Int = {}
  /\ Absent # Truncated /\ Absent # Damaged /\ Truncated # Damaged

VARIABLES
  file,       \* the file at path
  bak,        \* the file at path.bak
  phase,      \* where the run is
  backup,     \* the run's --backup
  content,    \* what the run loaded, then what it is to save
  lenient,    \* can the format load a truncated file?
  runs,       \* runs begun, at most MaxRuns
  cutShort,   \* has a run ended without its error handling: killed, or the
              \* failed save not undone? (history)
  before      \* file when the run began (history)

vars == <<file, bak, phase, backup, content, lenient, runs, cutShort, before>>

Complete  == Nat
(* How a run ends: with what it was to do; with an error, undone; with the *)
(* error of the undoing; with that of removing the backup; not at all.     *)
Stopped   == {"none", "saved", "failed", "not_undone", "not_removed", "killed"}
Files     == Complete \cup {Absent, Truncated, Damaged}

Init ==
  /\ file = 0
  /\ bak = Absent
  /\ phase = "none"
  /\ backup = FALSE
  /\ content = Absent
  /\ lenient \in BOOLEAN
  /\ runs = 0
  /\ cutShort = FALSE
  /\ before = 0

(* click.Path(exists=True) refuses a path that is not there.               *)
Begin(b) ==
  /\ phase \in Stopped
  /\ runs < MaxRuns
  /\ runs' = runs + 1
  /\ backup' = b
  /\ before' = file
  /\ phase' = IF file = Absent THEN "failed" ELSE "load"
  /\ UNCHANGED <<file, bak, content, lenient, cutShort>>

(* load_path_content, with which the command exits if it raises.           *)
Load ==
  /\ phase = "load"
  /\ \/ /\ file # Truncated
        /\ content' = file
        /\ phase' = "apply"
     \/ /\ file = Truncated /\ lenient
        /\ content' = Damaged
        /\ phase' = "apply"
     \/ phase' = "failed" /\ UNCHANGED content
  /\ UNCHANGED <<file, bak, backup, lenient, runs, cutShort, before>>

(* delta + content, which may raise with --raise-errors.                   *)
Apply ==
  /\ phase = "apply"
  /\ \/ /\ content' = IF content = Damaged THEN Damaged ELSE content + 1
        /\ phase' = "rename"
     \/ phase' = "failed" /\ UNCHANGED content
  /\ UNCHANGED <<file, bak, backup, lenient, runs, cutShort, before>>

(* Mutant: the old file is moved away only if the backup is wanted.        *)
MoveToBackupIfAsked ==
  /\ phase = "rename"
  /\ bak' = IF backup THEN file ELSE bak
  /\ file' = Absent
  /\ phase' = "open"
  /\ UNCHANGED <<backup, content, lenient, runs, cutShort, before>>

(* os.rename(path, backup_path), before the try.                           *)
MoveToBackup ==
  /\ phase = "rename"
  /\ \/ /\ bak' = file
        /\ file' = Absent
        /\ phase' = "open"
     \/ phase' = "failed" /\ UNCHANGED <<file, bak>>
  /\ UNCHANGED <<backup, content, lenient, runs, cutShort, before>>

(* open(path, 'w'): an import may fail before it.                          *)
Open ==
  /\ phase = "open"
  /\ \/ file' = Truncated /\ phase' = "write"
     \/ phase' = "restore" /\ UNCHANGED file
  /\ UNCHANGED <<bak, backup, content, lenient, runs, cutShort, before>>

(* Serializing and writing: json opens the file before it serializes.      *)
Write ==
  /\ phase = "write"
  /\ \/ file' = content /\ phase' = "cleanup"
     \/ phase' = "restore" /\ UNCHANGED file
  /\ UNCHANGED <<bak, backup, content, lenient, runs, cutShort, before>>

(* Mutant: the truncated file is left for the user to look at.             *)
RestoreIfAbsent ==
  /\ phase = "restore"
  /\ IF file = Absent THEN file' = bak /\ bak' = Absent ELSE UNCHANGED <<file, bak>>
  /\ phase' = "failed"
  /\ UNCHANGED <<backup, content, lenient, runs, cutShort, before>>

(* except Exception: the backup replaces whatever was written, unless this *)
(* os.rename raises as well; then both stay as they are.                   *)
Restore ==
  /\ phase = "restore"
  /\ \/ /\ file' = bak
        /\ bak' = Absent
        /\ phase' = "failed"
        /\ UNCHANGED cutShort
     \/ /\ phase' = "not_undone"
        /\ cutShort' = TRUE
        /\ UNCHANGED <<file, bak>>
  /\ UNCHANGED <<backup, content, lenient, runs, before>>

(* Mutant: the test of keep_backup is inverted.                            *)
CleanUpInverted ==
  /\ phase = "cleanup"
  /\ bak' = IF backup THEN Absent ELSE bak
  /\ phase' = "saved"
  /\ UNCHANGED <<file, backup, content, lenient, runs, cutShort, before>>

(* else: os.remove(backup_path), unless the backup is wanted; an error     *)
(* ends the command though the file is patched.                            *)
CleanUp ==
  /\ phase = "cleanup"
  /\ \/ /\ bak' = IF backup THEN bak ELSE Absent
        /\ phase' = "saved"
     \/ /\ ~backup
        /\ phase' = "not_removed"
        /\ UNCHANGED bak
  /\ UNCHANGED <<file, backup, content, lenient, runs, cutShort, before>>

Kill ==
  /\ phase \notin Stopped
  /\ phase' = "killed"
  /\ cutShort' = TRUE
  /\ UNCHANGED <<file, bak, backup, content, lenient, runs, before>>

Finished == phase \in Stopped /\ runs = MaxRuns /\ UNCHANGED vars

Next ==
  \/ \E b \in BOOLEAN : Begin(b)
  \/ Load \/ Apply \/ MoveToBackup \/ Open \/ Write \/ Restore \/ CleanUp
  \/ Kill
  \/ Finished

Spec == Init /\ [][Next]_vars

(***************************************************************************)
(* Properties                                                              *)
(***************************************************************************)
(* Types, and what each step of a run has in hand.                         *)
TypeOK ==
  /\ file \in Files /\ bak \in Files
  /\ before \in Files
  /\ phase \in Stopped \cup {"load", "apply", "rename", "open", "write", "restore", "cleanup"}
  /\ backup \in BOOLEAN /\ lenient \in BOOLEAN /\ cutShort \in BOOLEAN
  /\ runs \in 0 .. MaxRuns
  /\ content \in Files \ {Truncated}
  /\ phase \in {"apply", "rename", "open", "write", "cleanup"} => content # Absent
  /\ phase \in {"load", "apply", "rename"} => file # Absent

(* The data is never lost: a complete version of it is at path or in the   *)
(* backup at every moment, killed runs, runs whose failure could not be    *)
(* undone and the runs after them included, unless a format that loads     *)
(* truncated files meets one that such a run left.                         *)
CompleteCopyExists == ~(lenient /\ cutShort) => {file, bak} \cap Complete # {}

(* What a run began with is there after any error.  A run that fails       *)
(* leaves it at path; if the failed save cannot be undone, it is the       *)
(* backup, next to a file that is not there or half written; and if only   *)
(* the backup cannot be removed, it is the backup of what was saved.       *)
FailureRestores ==
  /\ phase = "failed" => file = before
  /\ phase = "not_undone" => bak = before /\ file \in {Absent, Truncated}
  /\ phase = "not_removed" => /\ bak = before /\ file = content
                              /\ before \in Complete => file = before + 1

(* A run that ends has saved what it loaded with one delta more, and kept  *)
(* as backup, if asked, exactly what was there before.                     *)
SavedOverBackup ==
  phase = "saved" =>
    /\ file = content
    /\ before \in Complete => file = before + 1
    /\ bak = IF backup THEN before ELSE Absent
=============================================================================
