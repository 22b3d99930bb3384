------------------------------- MODULE Updater -------------------------------
(***************************************************************************)
(* Self-update: the checker loop (src/internal/update/checker.go), the     *)
(* staging of a release over the running executable (stage_unix.go,        *)
(* release.go) and the restart into it (main.go, restart_unix.go), on a    *)
(* file system that survives kills and power losses.                       *)
(*                                                                         *)
(* A file is an inode; the directory of the executable names inodes: exe,  *)
(* the backups .old, .old.1, ... (old[n], 0 when the name is free) and the *)
(* temporary files.  Versions are ordered numbers; version 0 is a build    *)
(* whose version is not a stable one.                                      *)
(***************************************************************************)
EXTENDS Integers, FiniteSets

CONSTANTS MaxVersion,   \* newest version GitHub may offer
          Misbuilt,     \* versions whose asset is no executable for this machine
          Unrunnable,   \* versions that pass validation, yet exec refuses them
          MaxFiles,     \* bound on the files made
          MaxBackups,   \* bound on the suffixes of backups
          MaxFaults     \* bound on kills and power losses

ASSUME VersionsAssumption == MaxVersion \in Nat /\ Misbuilt \subseteq 1..MaxVersion
                             /\ Unrunnable \subseteq 1..MaxVersion
ASSUME BoundsAssumption == MaxFiles \in Nat \ {0} /\ MaxBackups \in Nat /\ MaxFaults \in Nat

Versions == 0..MaxVersion
Files    == 1..MaxFiles
Suffixes == 0..MaxBackups
NoFile   == 0
NoSuffix == -1

Directory == [exe : Files, old : [Suffixes -> Files \cup {NoFile}], tmp : SUBSET Files]
States == {"checking", "up_to_date", "available", "downloading", "restart_required",
           "unsupported", "error"}
StageSteps == {"refresh", "inspect", "create", "download", "verify", "sync", "validate",
               "backup", "rename", "dirsync", "staged"}

VARIABLES latest,            \* the latest release on GitHub
          file,              \* contents of each inode
          made,              \* inodes made so far
          dir,               \* the directory as processes see it
          durable,           \* the directories that a power loss may leave behind
          up, running,       \* whether the process is alive, and its image
          state, backupPath, \* the Status of the checker
          loop,              \* position of the checker's goroutine
          target, staged, suffix,  \* locals of Stage, autoStage and replaceExecutable
          canceled,          \* updateContext
          main,              \* position of main
          faults

fs      == <<file, made, dir, durable>>
status  == <<state, backupPath>>
locals  == <<target, staged, suffix>>
process == <<up, running, main, canceled>>
vars    == <<latest, fs, process, status, loop, locals, faults>>

VersionOf(i) == file[i].version
Current      == VersionOf(running)

TypeOK ==
  /\ latest \in Versions /\ made \in Files
  /\ file \in [Files -> [version : Versions, whole : BOOLEAN, synced : BOOLEAN]]
  /\ dir \in Directory /\ durable \subseteq Directory /\ durable # {}
  /\ up \in BOOLEAN /\ running \in Files
  /\ state \in States /\ backupPath \in Suffixes \cup {NoSuffix}
  /\ loop \in {"begin", "select", "fetch", "checked", "over"} \cup StageSteps
  /\ target \in Versions /\ staged \in Files \cup {NoFile} /\ suffix \in Suffixes \cup {NoSuffix}
  /\ canceled \in BOOLEAN
  /\ main \in {"serving", "restarting", "exiting", "exec", "restore", "retry", "gone"}
  /\ faults \in 0..MaxFaults

(* An installed executable, possibly with the backup of an earlier update. *)
Init ==
  /\ latest \in Versions \ {0}
  /\ made = 1 /\ running = 1
  /\ \E v \in {0, 1} : file = [i \in Files |-> [version |-> v, whole |-> TRUE, synced |-> TRUE]]
  /\ \E b \in {NoFile, 1} :
       dir = [exe |-> 1, old |-> [n \in Suffixes |-> IF n = 0 THEN b ELSE NoFile], tmp |-> {}]
  /\ durable = {dir}
  /\ up = TRUE /\ main = "serving" /\ canceled = FALSE
  /\ state = "checking" /\ backupPath = NoSuffix /\ loop = "begin"
  /\ target = 0 /\ staged = NoFile /\ suffix = NoSuffix
  /\ faults = 0

(* A change of the directory reaches the disk at some later time. *)
SetDir(d) == dir' = d /\ durable' = durable \cup {d}

----------------------------------------------------------------------------
(* GitHub's latest release changes, to an older one when a release is      *)
(* withdrawn.                                                              *)
Publish ==
  /\ latest' \in Versions \ {0, latest}
  /\ UNCHANGED <<fs, process, status, loop, locals, faults>>

At(step) == up /\ loop = step
Goto(step) == loop' = step

(* checkAndStage: once at the start and then with every tick; with a       *)
(* staged update it returns at once, and nothing changes.  A name with an  *)
(* underscore, here and below, is a slip that the checks must notice: the  *)
(* definition after it with a plausible mistake.                           *)
MayCheck_Always == TRUE
MayCheck == state # "restart_required"

LoopCheck ==
  /\ At("begin") \/ At("select")
  /\ MayCheck
  /\ state' = "checking" /\ backupPath' = NoSuffix
  /\ Goto("fetch")
  /\ UNCHANGED <<latest, fs, process, locals, faults>>

ContextDone_Ignored == FALSE
ContextDone == canceled

LoopStop ==
  /\ At("select")
  /\ ContextDone
  /\ Goto("over")
  /\ UNCHANGED <<latest, fs, process, status, locals, faults>>

(* The rest of Check: the answer of fetchLatest, or its failure. *)
Outdated_OrEqual    == Current <= latest
Outdated_OrDifferent == Current # latest
Outdated == Current < latest

Outcome(result) ==
  IF Current = 0 THEN result = "unsupported"
  ELSE result \in {"error", IF Outdated THEN "available" ELSE "up_to_date"}

Check ==
  /\ At("fetch")
  /\ \E result \in States : Outcome(result) /\ state' = result
  /\ Goto("checked")
  /\ UNCHANGED <<latest, fs, process, backupPath, locals, faults>>

Stages == state = "available" /\ ~canceled

LoopChecked ==
  /\ At("checked")
  /\ ~Stages
  /\ Goto("select")
  /\ UNCHANGED <<latest, fs, process, status, locals, faults>>

StageBegin ==
  /\ At("checked")
  /\ Stages
  /\ state' = "downloading"
  /\ Goto("refresh")
  /\ UNCHANGED <<latest, fs, process, backupPath, locals, faults>>

(* stageError, after autoStage's deferred os.Remove. *)
TempRemoved_Forgotten == dir
TempRemoved == [dir EXCEPT !.tmp = @ \ {staged}]

StageFails ==
  /\ state' = "error"
  /\ Goto("select")
  /\ IF staged \in dir.tmp THEN SetDir(TempRemoved) ELSE UNCHANGED <<dir, durable>>
  /\ staged' = NoFile /\ suffix' = NoSuffix /\ target' = 0
  /\ UNCHANGED <<latest, file, made, process, backupPath, faults>>

(* Every step up to the rename may fail, with the file system unchanged.   *)
StageError ==
  /\ up /\ loop \in {"refresh", "inspect", "create", "download", "verify", "sync", "validate",
                     "backup"}
  /\ StageFails

(* The release is fetched anew, and compared anew. *)
StageRefresh ==
  /\ At("refresh")
  /\ IF Outdated
     THEN target' = latest /\ Goto("inspect") /\ UNCHANGED state
     ELSE state' = "up_to_date" /\ Goto("select") /\ UNCHANGED target
  /\ UNCHANGED <<latest, fs, process, backupPath, staged, suffix, faults>>

(* inspectExecutable, both assets, the checksum: it changes nothing. *)
Inspect ==
  /\ At("inspect")
  /\ Goto("create")
  /\ UNCHANGED <<latest, fs, process, status, locals, faults>>

CreateTemp ==
  /\ At("create")
  /\ made < MaxFiles
  /\ made' = made + 1 /\ staged' = made + 1
  /\ file' = [file EXCEPT ![made + 1] = [version |-> target, whole |-> FALSE, synced |-> FALSE]]
  /\ SetDir([dir EXCEPT !.tmp = @ \cup {made + 1}])
  /\ Goto("download")
  /\ UNCHANGED <<latest, process, status, target, suffix, faults>>

(* downloadFile: what arrives has the expected SHA-256, or has not. *)
Download ==
  /\ At("download")
  /\ \E whole \in BOOLEAN : file' = [file EXCEPT ![staged].whole = whole]
  /\ Goto("verify")
  /\ UNCHANGED <<latest, made, dir, durable, process, status, locals, faults>>

Verify ==
  /\ At("verify")
  /\ file[staged].whole
  /\ Goto("sync")
  /\ UNCHANGED <<latest, fs, process, status, locals, faults>>

Synced_Forgotten == file
Synced == [file EXCEPT ![staged].synced = TRUE]

SyncFile ==
  /\ At("sync")
  /\ file' = Synced
  /\ Goto("validate")
  /\ UNCHANGED <<latest, made, dir, durable, process, status, locals, faults>>

Validate ==
  /\ At("validate")
  /\ VersionOf(staged) \notin Misbuilt
  /\ Goto("backup")
  /\ UNCHANGED <<latest, fs, process, status, locals, faults>>

(* replaceExecutable: the first free name, then a hard link. *)
FirstFree_Fixed(n) == n = 0
FirstFree(n) == dir.old[n] = NoFile /\ \A m \in Suffixes : m < n => dir.old[m] # NoFile

LinkBackup ==
  /\ At("backup")
  /\ \E n \in Suffixes : /\ FirstFree(n)
                         /\ suffix' = n
                         /\ SetDir([dir EXCEPT !.old[n] = dir.exe])
  /\ Goto("rename")
  /\ UNCHANGED <<latest, file, made, process, status, target, staged, faults>>

Installed == [dir EXCEPT !.exe = staged, !.tmp = @ \ {staged}]

Rename ==
  /\ At("rename")
  /\ SetDir(Installed)
  /\ Goto("dirsync")
  /\ UNCHANGED <<latest, file, made, process, status, locals, faults>>

(* The rename fails: the unused backup is removed, or stays if that fails. *)
RenameFails ==
  /\ At("rename")
  /\ state' = "error"
  /\ Goto("select")
  /\ \E b \in {NoFile, dir.old[suffix]} :
       SetDir([dir EXCEPT !.old[suffix] = b, !.tmp = @ \ {staged}])
  /\ staged' = NoFile /\ suffix' = NoSuffix /\ target' = 0
  /\ UNCHANGED <<latest, file, made, process, backupPath, faults>>

(* Syncing the directory is best effort. *)
SyncDirectory ==
  /\ At("dirsync")
  /\ durable' \in {durable, {dir}}
  /\ Goto("staged")
  /\ UNCHANGED <<latest, file, made, dir, process, status, locals, faults>>

Staged ==
  /\ At("staged")
  /\ state' = "restart_required" /\ backupPath' = suffix
  /\ Goto("select")
  /\ staged' = NoFile /\ suffix' = NoSuffix /\ target' = 0
  /\ UNCHANGED <<latest, fs, process, faults>>

----------------------------------------------------------------------------
(* The restart handler asks main only in this state; main may as well be   *)
(* told to exit.  Either way the context is canceled first.                *)
RequestRestart ==
  /\ up /\ main = "serving"
  /\ state = "restart_required"
  /\ main' = "restarting" /\ canceled' = TRUE
  /\ UNCHANGED <<latest, fs, up, running, status, loop, locals, faults>>

RequestExit ==
  /\ up /\ main = "serving"
  /\ main' = "exiting" /\ canceled' = TRUE
  /\ UNCHANGED <<latest, fs, up, running, status, loop, locals, faults>>

(* updater.Wait, and the rest of the shutdown; when the database cannot be *)
(* closed, or the TUI ended with an error, the program ends and does not   *)
(* restart.                                                                *)
UpdaterWaited ==
  /\ up /\ main \in {"restarting", "exiting"}
  /\ loop = "over"
  /\ \/ main = "restarting" /\ main' = "exec" /\ up' = TRUE
     \/ main' = "gone" /\ up' = FALSE
  /\ UNCHANGED <<latest, fs, running, canceled, status, loop, locals, faults>>

(* A process begins with the image i: nothing of an earlier one remains.   *)
Boots(i) ==
  /\ up' = TRUE /\ running' = i /\ main' = "serving" /\ canceled' = FALSE
  /\ state' = "checking" /\ backupPath' = NoSuffix /\ loop' = "begin"
  /\ target' = 0 /\ staged' = NoFile /\ suffix' = NoSuffix

Runnable(i) == file[i].whole /\ VersionOf(i) \notin Unrunnable

Exec ==
  /\ up /\ main \in {"exec", "retry"}
  /\ Runnable(dir.exe)
  /\ Boots(dir.exe)
  /\ UNCHANGED <<latest, fs, faults>>

(* exec may fail with a good file, too. *)
ExecFails ==
  /\ up /\ main \in {"exec", "retry"}
  /\ main' = IF main = "exec" THEN "restore" ELSE "gone"
  /\ up' = (main = "exec")
  /\ UNCHANGED <<latest, fs, running, canceled, status, loop, locals, faults>>

(* restart.Restore renames the backup that Status names. *)
Restored ==
  [dir EXCEPT !.exe = dir.old[backupPath], !.old[backupPath] = NoFile]

Restore ==
  /\ up /\ main = "restore"
  /\ backupPath # NoSuffix
  /\ dir.old[backupPath] # NoFile
  /\ SetDir(Restored)
  /\ main' = "retry"
  /\ UNCHANGED <<latest, file, made, up, running, canceled, status, loop, locals, faults>>

RestoreFails ==
  /\ up /\ main = "restore"
  /\ main' = "gone" /\ up' = FALSE
  /\ UNCHANGED <<latest, fs, running, canceled, status, loop, locals, faults>>

----------------------------------------------------------------------------
(* A kill ends the process between any two steps; a power loss also leaves *)
(* some earlier directory and spoils files that were not synced.           *)
Kill ==
  /\ up /\ faults < MaxFaults
  /\ faults' = faults + 1
  /\ up' = FALSE /\ main' = "gone"
  /\ UNCHANGED <<latest, fs, running, canceled, status, loop, locals>>

PowerLoss ==
  /\ up /\ faults < MaxFaults
  /\ faults' = faults + 1
  /\ up' = FALSE /\ main' = "gone"
  /\ dir' \in durable /\ durable' = {dir'}
  /\ file' = [i \in Files |-> [file[i] EXCEPT !.whole = @ /\ file[i].synced, !.synced = TRUE]]
  /\ UNCHANGED <<latest, made, running, canceled, status, loop, locals>>

(* The service manager starts the program again. *)
Boot ==
  /\ ~up
  /\ Runnable(dir.exe)
  /\ Boots(dir.exe)
  /\ UNCHANGED <<latest, fs, faults>>

CheckStep == LoopCheck \/ Check \/ LoopChecked
StageStep == \/ StageBegin \/ StageRefresh \/ StageError \/ Inspect \/ CreateTemp \/ Download
             \/ Verify \/ SyncFile \/ Validate \/ LinkBackup \/ Rename \/ RenameFails
             \/ SyncDirectory \/ Staged
MainStep  == UpdaterWaited \/ Exec \/ ExecFails \/ Restore \/ RestoreFails
Requests  == RequestRestart \/ RequestExit
Next == Publish \/ CheckStep \/ StageStep \/ LoopStop \/ Requests \/ MainStep
        \/ Kill \/ PowerLoss \/ Boot

(* Requests have timeouts, so every step of the loop ends; select is fair  *)
(* to a canceled context even when a tick is always ready.                 *)
Fairness == WF_vars(CheckStep) /\ WF_vars(StageStep) /\ SF_vars(LoopStop) /\ WF_vars(MainStep)

Spec == Init /\ [][Next]_vars
FairSpec == Spec /\ Fairness

----------------------------------------------------------------------------
(* Whatever happens, and whatever part of it reached the disk, the         *)
(* executable is a complete file whose checksum was verified: the service  *)
(* starts again after a kill or a power loss at any step of an update.     *)
ExecutableSurvives ==
  \A d \in durable \cup {dir} : file[d.exe].whole /\ file[d.exe].synced

(* When the status asks for a restart, the executable is newer than the    *)
(* running program, and the backup that the status names is the running    *)
(* program: main may exec, and may restore if exec fails.                  *)
RollbackIsReady ==
  up /\ state = "restart_required" /\ main # "retry" =>
    /\ backupPath # NoSuffix /\ dir.old[backupPath] = running
    /\ dir.exe # running /\ VersionOf(dir.exe) > Current

(* A finished update cleans up after itself on every path: only a crash    *)
(* leaves a temporary file in the program's directory.                     *)
NoStrayFile == faults = 0 => dir.tmp \subseteq {staged}

(* The restart handler reads the status and main reads the backup path     *)
(* much later: once a restart is required, nothing in this process changes *)
(* either any more.                                                        *)
RestartRequiredSticks ==
  [][state = "restart_required" /\ (main = "serving" \/ main' # "serving")
       => UNCHANGED status]_vars

(* An update never overwrites or removes the backup of another one.        *)
BackupsAreKept ==
  [][up /\ up' => \A n \in Suffixes :
       dir.old[n] \notin {NoFile, dir'.old[n]} =>
         n = suffix \/ (main = "restore" /\ n = backupPath)]_vars

(* The installed version only goes up, even when GitHub's latest release   *)
(* is withdrawn while it is being staged; only Restore goes back.          *)
NeverDowngrades ==
  [][up' /\ main # "restore" => VersionOf(dir.exe)' >= VersionOf(dir.exe)]_vars

(* A restart ends in a newer program, or in the very file that was running *)
(* before.                                                                 *)
RestartNeverGoesBack ==
  [][main' = "serving" /\ main \in {"exec", "retry"}
       => Current' > Current \/ running' = running]_vars

(* updater.Wait returns: a canceled loop ends, and so does the shutdown.   *)
ShutdownsEnd == main \in {"restarting", "exiting"} ~> main \in {"serving", "gone"}
==============================================================================
