----------------------------- MODULE LiveProject -----------------------------
(***************************************************************************)
(* The two commands of the live backend that touch the project's files: the *)
(* project is saved, and an approved Python script is run in AEDT after the *)
(* project was saved and copied.  A script is not undone; its backup is all *)
(* there is.                                                                *)
(*                                                                          *)
(* Versions of the design are numbered as they come: memory is the version  *)
(* in AEDT, disk the one in the project's files.  A project has a file and   *)
(* the rest, its database, which are saved together and copied one after     *)
(* the other.  The id of a script's preview is a digest of the files and of  *)
(* the code; with one script their version is the id.  Its backup goes into  *)
(* the directory of that id below the directory of the day it was made.      *)
(***************************************************************************)
EXTENDS Naturals, Sequences, FiniteSets

CONSTANTS
  MaxVersion,      \* bound: how many versions the design gets
  MaxDay           \* bound: how many days go by

ASSUME VersionsAssumption == {MaxVersion, MaxDay} \subseteq Nat

VARIABLES
  memory, disk, day,
  saving,      \* a project_save preview is held
  scripts,     \* the directories of the open_aedt_python previews held
  backups,     \* the directories under the backup root, and what is in them
  script,      \* the call that runs a script: where it is, its directory, the version
               \* it met, and what it has copied
  ranScript    \* history: directory -> how often a script ran that has its backup there

projectVars == <<memory, disk, day, saving, scripts, backups, script, ranScript>>

Versions == 0 .. MaxVersion
Days == 0 .. MaxDay
Directories == [id : Versions, day : Days]
NoScript == [at |-> "idle", dir |-> [id |-> 0, day |-> 0], met |-> 0, file |-> 0, rest |-> 0]
NoCall == script.at = "idle"

ProjectInit ==
  /\ memory \in Versions /\ memory <= 1 /\ disk = 0 /\ day = 0
  /\ saving = FALSE /\ scripts = {} /\ backups = {}
  /\ script = NoScript /\ ranScript = [d \in Directories |-> 0]

-----------------------------------------------------------------------------
(* The user at the screen, and the clock *)

Edited == memory < MaxVersion /\ memory' = memory + 1

\* Mutant: the save comes after the copy.
SaveLater == disk' = disk
Save == disk' = memory

EditDesign ==
  /\ Edited
  /\ UNCHANGED <<disk, day, saving, scripts, backups, script, ranScript>>

SaveByHand ==
  /\ disk # memory /\ Save
  /\ UNCHANGED <<memory, day, saving, scripts, backups, script, ranScript>>

Midnight ==
  /\ day < MaxDay /\ day' = day + 1
  /\ UNCHANGED <<memory, disk, saving, scripts, backups, script, ranScript>>

-----------------------------------------------------------------------------
(* project_save: nothing of the design is compared, only that the project is open *)

PreviewSave ==
  /\ NoCall /\ saving' = TRUE
  /\ UNCHANGED <<memory, disk, day, scripts, backups, script, ranScript>>

ApplySave ==
  /\ NoCall /\ saving
  /\ \/ Save /\ saving' = FALSE
     \/ UNCHANGED <<disk, saving>>          \* AEDT rejects it
  /\ UNCHANGED <<memory, day, scripts, backups, script, ranScript>>

-----------------------------------------------------------------------------
(* open_aedt_python *)

\* A preview that is made again takes the place of the one before, whatever its day.
PreviewScript ==
  /\ NoCall
  /\ scripts' = {d \in scripts : d.id # disk} \cup {[id |-> disk, day |-> day]}
  /\ UNCHANGED <<memory, disk, day, saving, backups, script, ranScript>>

\* The files are as they were shown; what is in memory only is not looked at.
BeginScript(dir) ==
  /\ NoCall /\ dir \in scripts /\ disk = dir.id
  /\ script' = [NoScript EXCEPT !.at = "save", !.dir = dir, !.met = memory]
  /\ UNCHANGED <<memory, disk, day, saving, scripts, backups, ranScript>>

\* What was staged so far is removed; the preview is kept.
Fails == script' = NoScript /\ UNCHANGED backups

\* AEDT may have saved before the call fails.
SaveFirst ==
  /\ script.at = "save"
  /\ \/ Save /\ script' = [script EXCEPT !.at = "copy"] /\ UNCHANGED backups
     \/ Fails /\ (Save \/ UNCHANGED disk)
  /\ UNCHANGED <<memory, day, saving, scripts, ranScript>>

\* The copies go into a staging directory of the call's own.
CopyFile ==
  /\ script.at = "copy"
  /\ \/ script' = [script EXCEPT !.at = "rest", !.file = disk] /\ UNCHANGED backups
     \/ Fails
  /\ UNCHANGED <<memory, disk, day, saving, scripts, ranScript>>

CopyRest ==
  /\ script.at = "rest"
  /\ \/ script' = [script EXCEPT !.at = "file", !.rest = disk] /\ UNCHANGED backups
     \/ Fails
  /\ UNCHANGED <<memory, disk, day, saving, scripts, ranScript>>

\* The staging directory gets the preview's name; a directory of that name must not
\* be there yet.
FileBackup ==
  /\ script.at = "file"
  /\ \/ /\ \A b \in backups : b.dir # script.dir
        /\ backups' = backups \cup {[dir |-> script.dir, file |-> script.file, rest |-> script.rest]}
        /\ script' = [script EXCEPT !.at = "run"]
     \/ Fails
  /\ UNCHANGED <<memory, disk, day, saving, scripts, ranScript>>

DropScript(dir) == scripts' = scripts \ {dir}

\* It edits or saves the design, or not, and ends or raises: the preview is used up.
RunScript ==
  /\ script.at = "run"
  /\ (Edited \/ memory' = memory) /\ disk' \in {disk, memory'}
  /\ DropScript(script.dir)
  /\ ranScript' = [ranScript EXCEPT ![script.dir] = @ + 1]
  /\ script' = NoScript
  /\ UNCHANGED <<day, saving, backups>>

-----------------------------------------------------------------------------
(* The worker process ends: its previews and its call are gone *)

ForgetProject ==
  /\ saving' = FALSE /\ scripts' = {} /\ script' = NoScript
  /\ UNCHANGED <<memory, disk, day, backups, ranScript>>

ProjectStep ==
  \/ EditDesign \/ SaveByHand \/ Midnight \/ PreviewSave \/ ApplySave \/ PreviewScript
  \/ \E dir \in scripts : BeginScript(dir)
  \/ SaveFirst \/ CopyFile \/ CopyRest \/ FileBackup \/ RunScript

-----------------------------------------------------------------------------
Calls == [at : {"idle", "save", "copy", "rest", "file", "run"}, dir : Directories,
          met : Versions, file : Versions, rest : Versions]

ProjectTypeOK ==
  /\ memory \in Versions /\ disk \in Versions /\ day \in Days
  /\ scripts \subseteq Directories
  /\ backups \subseteq [dir : Directories, file : Versions, rest : Versions]
  /\ script \in Calls
  /\ ranScript \in [Directories -> Nat]

\* No script runs without a backup of which every part was saved after the call had
\* begun, and no two runs have the same backup, although the user edits and saves
\* meanwhile, the backup fails half way, the worker is lost, the call is repeated and
\* the same preview is made again, on the same day or on another.
ScriptBackedUp ==
  /\ script.at = "run" =>
       \E b \in backups : b.dir = script.dir /\ b.file >= script.met /\ b.rest >= script.met
  /\ \A d \in Directories :
       ranScript[d] # 0 => ranScript[d] = 1 /\ \E b \in backups : b.dir = d

-----------------------------------------------------------------------------
(* The inductive invariant behind ScriptBackedUp *)

\* From its save on a call holds on disk what it met in memory, then in its copies; and
\* no script has run that has its backup where the one about to run has it.
CallKeepsUp ==
  /\ disk <= memory /\ script.met <= memory
  /\ script.at \in {"copy", "rest", "file", "run"} => script.met <= disk
  /\ script.at \in {"rest", "file"} => script.met <= script.file
  /\ script.at = "file" => script.met <= script.rest
  /\ script.at = "run" => ranScript[script.dir] = 0

ProjectInv == ProjectTypeOK /\ CallKeepsUp /\ ScriptBackedUp
=============================================================================
