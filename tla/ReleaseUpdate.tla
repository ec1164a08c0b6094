---------------------------- MODULE ReleaseUpdate ----------------------------
(***************************************************************************)
(* The update of an installation from a release ZIP                        *)
(* (src/src/daemon/releaseUpdate.ts, run by src/src/mcp/wsServer.ts): the  *)
(* two directories of the installation are exchanged one after the other,  *)
(* any step of which may fail or be the last of the process.               *)
(*                                                                         *)
(* Downloading and verifying the archive touch only a staging directory    *)
(* and are left out.  A removal that fails is one that removed nothing.    *)
(***************************************************************************)
EXTENDS Naturals, Sequences

CONSTANTS
    MaxReleases,   \* bound: releases published
    MaxFaults,     \* bound: operations of the file system that fail
    MaxCrashes,    \* bound: stops of the daemon nobody asked for
    Windows        \* whether process.platform is win32

ASSUME UpdateAssumption ==
    MaxReleases \in Nat \ {0} /\ MaxFaults \in Nat /\ MaxCrashes \in Nat /\ Windows \in BOOLEAN

VARIABLES
    disk,        \* what each directory and the metadata file hold, 0 when missing
    daemon,      \* version of the running daemon, 0 when it is stopped
    published,   \* latest release
    update,      \* the update in flight
    restartDue,  \* scheduleDaemonRestartAfterUpdate has been called
    cut,         \* history: a replacement was stopped, or was not undone, half-way
    faults, crashes

updateVars == <<disk, daemon, published, update, restartDue, cut, faults, crashes>>

Releases == 0..MaxReleases
Parts    == {"runtime", "extension"}

\* The steps of replaceInstalledRelease; writing the guide changes no version.
Replacement ==
    <<[do |-> "drop", part |-> "runtime"],   [do |-> "drop", part |-> "extension"],
      [do |-> "keep", part |-> "runtime"],   [do |-> "place", part |-> "runtime"],
      [do |-> "keep", part |-> "extension"], [do |-> "place", part |-> "extension"],
      [do |-> "guide"]>>
    \o IF Windows THEN <<[do |-> "forget"], [do |-> "record"]>> ELSE <<[do |-> "record"]>>

NotUpdating == [at |-> "none", step |-> 1, version |-> 0]

UpdateInit ==
    /\ disk = [installed |-> [p \in Parts |-> 1], backup |-> [p \in Parts |-> 0], record |-> 1]
    /\ daemon = 1 /\ published = 1
    /\ update = NotUpdating
    /\ restartDue = FALSE /\ cut = FALSE
    /\ faults = 0 /\ crashes = 0

\* What a step does to the disk, when it succeeds.
Applied(s) ==
    CASE s.do = "drop"   -> [disk EXCEPT !.backup[s.part] = 0]
      [] s.do = "keep"   -> [disk EXCEPT !.backup[s.part] = disk.installed[s.part], !.installed[s.part] = 0]
      [] s.do = "place"  -> [disk EXCEPT !.installed[s.part] = update.version]
      [] s.do = "forget" -> [disk EXCEPT !.record = 0]
      [] s.do = "record" -> [disk EXCEPT !.record = update.version]
      [] OTHER           -> disk

\* Putting back what is kept needs the place to be free.
Restored(part) ==
    IF disk.installed[part] = 0
    THEN [disk EXCEPT !.installed[part] = disk.backup[part], !.backup[part] = 0]
    ELSE disk

\* Mutant of Undoing: what was placed is not removed first.
UndoingInPlace(s) == IF s.do = "keep" THEN Restored(s.part) ELSE disk

\* How the catch block undoes a step that was done.
Undoing(s) ==
    CASE s.do = "place" -> [disk EXCEPT !.installed[s.part] = 0]
      [] s.do = "keep"  -> Restored(s.part)
      [] OTHER          -> disk

----------------------------------------------------------------------------

Publish ==
    /\ published < MaxReleases
    /\ published' = published + 1
    /\ UNCHANGED <<disk, daemon, update, restartDue, cut, faults, crashes>>

\* Mutant of IsReleaseZipInstallation: the parts are not looked for.
HasMetadata == disk.record # 0

\* isReleaseZipInstallation
IsReleaseZipInstallation == disk.record # 0 /\ \A p \in Parts : disk.installed[p] # 0

\* A LOCAL_UPDATE message, one at a time, for a version that is newer.
RunLocalUpdate ==
    /\ daemon # 0 /\ update.at = "none"
    /\ IsReleaseZipInstallation
    /\ published > disk.record
    /\ update' = [at |-> "replacing", step |-> 1, version |-> published]
    /\ UNCHANGED <<disk, daemon, published, restartDue, cut, faults, crashes>>

ReplaceStep ==
    /\ update.at = "replacing"
    /\ disk' = Applied(Replacement[update.step])
    /\ update' = IF update.step = Len(Replacement) THEN NotUpdating ELSE [update EXCEPT !.step = @ + 1]
    /\ restartDue' = (restartDue \/ update.step = Len(Replacement))
    /\ UNCHANGED <<daemon, published, cut, faults, crashes>>

\* The first two steps are outside of the try block.
StepFails ==
    /\ update.at = "replacing" /\ faults < MaxFaults
    /\ faults' = faults + 1
    /\ update' = IF update.step <= 3 THEN NotUpdating ELSE [update EXCEPT !.at = "undoing", !.step = @ - 1]
    /\ UNCHANGED <<disk, daemon, published, restartDue, cut, crashes>>

UndoNext == update' = IF update.step = 3 THEN NotUpdating ELSE [update EXCEPT !.step = @ - 1]

UndoStep ==
    /\ update.at = "undoing"
    /\ disk' = Undoing(Replacement[update.step])
    /\ UndoNext
    /\ UNCHANGED <<daemon, published, restartDue, cut, faults, crashes>>

\* The catch block goes on after a step it could not undo.
UndoFails ==
    /\ update.at = "undoing" /\ Replacement[update.step].do \in {"keep", "place"}
    /\ faults < MaxFaults
    /\ faults' = faults + 1
    /\ cut' = TRUE
    /\ UndoNext
    /\ UNCHANGED <<disk, daemon, published, restartDue, crashes>>

\* Nothing looks for a replacement that was interrupted.
StopsNow ==
    /\ daemon' = 0
    /\ update' = NotUpdating
    /\ restartDue' = FALSE
    /\ cut' = (cut \/ update.at = "undoing" \/ update.step > 3)
    /\ UNCHANGED <<disk, published, faults>>

RestartAfterUpdate == restartDue /\ StopsNow /\ UNCHANGED crashes

CrashDaemon == daemon # 0 /\ crashes < MaxCrashes /\ StopsNow /\ crashes' = crashes + 1

StartDaemon ==
    /\ daemon = 0 /\ disk.installed["runtime"] # 0
    /\ daemon' = disk.installed["runtime"]
    /\ UNCHANGED <<disk, published, update, restartDue, cut, faults, crashes>>

UpdateNext ==
    \/ Publish \/ RunLocalUpdate \/ ReplaceStep \/ StepFails \/ UndoStep \/ UndoFails
    \/ RestartAfterUpdate \/ CrashDaemon \/ StartDaemon

UpdateSpec == UpdateInit /\ [][UpdateNext]_updateVars

----------------------------------------------------------------------------

UpdateTypeOK ==
    /\ disk \in [installed : [Parts -> Releases], backup : [Parts -> Releases], record : Releases]
    /\ daemon \in Releases /\ published \in Releases
    /\ update \in [at : {"none", "replacing", "undoing"}, step : 1..Len(Replacement), version : Releases]
    /\ restartDue \in BOOLEAN /\ cut \in BOOLEAN

\* When no update is under way, the runtime, the extension and the metadata are
\* of one version, whichever steps failed; only a process stopped in the middle,
\* or a rollback that failed itself, leaves them apart.
InstallationIsWhole ==
    update.at = "none" /\ ~cut => \A p \in Parts : disk.installed[p] = disk.record

\* However updates fail, are cut short and are tried again, a copy of each part
\* is left: installed, or in the backup it can be taken from.
NoPartIsLost == \A p \in Parts : disk.installed[p] # 0 \/ disk.backup[p] # 0

\* Both: a failed update leaves one version, and a cut one something to go back to.
InstallationKept == InstallationIsWhole /\ NoPartIsLost

\* The same without the exception for a process stopped in the middle.
AlwaysWhole == update.at = "none" => \A p \in Parts : disk.installed[p] = disk.record

=============================================================================
