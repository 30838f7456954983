----------------------------- MODULE SelfUpdate -----------------------------
(***************************************************************************)
(* codergag update (internal/selfupdate, cmd/codergag/update.go): the      *)
(* asset of the latest release is downloaded beside the installed program  *)
(* and renamed into its place, with the old program as a backup meanwhile. *)
(*                                                                         *)
(* Paths lead to files, as a rename moves a file and not its contents.  A  *)
(* download may end early, which is noticed (the server states a length),  *)
(* renames may fail, and the command may be killed between any two steps.  *)
(* What GitHub answers is the environment's choice; versions are 0 (what   *)
(* was installed) and those of releases.                                   *)
(***************************************************************************)
EXTENDS Naturals, FiniteSets

CONSTANTS Updater,      \* update commands that can run at the same time
          MaxRelease,   \* bound: releases
          MaxFailures   \* bound: failures and kills

ASSUME UpdateAssumption == MaxRelease \in Nat /\ MaxFailures \in Nat

InstallPath == {"binary", "bak", "new", "tmp"}
NoFile == 0
Inode == 1..(Cardinality(InstallPath) + Cardinality(Updater))   \* as many as are in use at once

VARIABLES
  disk,      \* disk[path]: the file there, or NoFile
  data,      \* data[file]: the version it holds
  whole,     \* the files that are complete
  writer,    \* writer[file]: who has opened it last
  release,   \* the latest release
  updater,   \* updater[u]: its step, its version, the release and the file it writes
  failures   \* clock

updateVars == <<disk, data, whole, writer, release, updater, failures>>

Installed == 1
NotRunning == [step |-> "idle", version |-> 0, fd |-> NoFile]
Step(u, step) == updater' = [updater EXCEPT ![u].step = step]
Leave(u) == updater' = [updater EXCEPT ![u] = NotRunning]

UpdateInit ==
  /\ disk = [p \in InstallPath |-> IF p = "binary" THEN Installed ELSE NoFile]
  /\ data = [i \in Inode |-> 0] /\ whole = {Installed}
  /\ writer = [i \in Inode |-> "none"]
  /\ release = 0 /\ updater = [u \in Updater |-> NotRunning] /\ failures = 0

NewRelease ==
  /\ release < MaxRelease
  /\ release' = release + 1
  /\ UNCHANGED <<disk, data, whole, writer, updater, failures>>

\* The program that runs is the one it replaces.
CheckForUpdate(u) ==
  /\ updater[u].step = "idle" /\ disk["binary"] \in whole
  /\ data[disk["binary"]] # release
  /\ updater' = [updater EXCEPT ![u] = [step |-> "create", version |-> release, fd |-> NoFile]]
  /\ UNCHANGED <<disk, data, whole, writer, release, failures>>

\* DownloadAsset: os.Create truncates the file that is there, whoever writes it.
CreateTmp(u) ==
  LET i == IF disk["tmp"] # NoFile THEN disk["tmp"]
           ELSE CHOOSE i \in Inode : i \notin {disk[p] : p \in InstallPath} \cup {updater[v].fd : v \in Updater}
  IN /\ updater[u].step = "create"
     /\ disk' = [disk EXCEPT !["tmp"] = i]
     /\ data' = [data EXCEPT ![i] = updater[u].version]
     /\ whole' = whole \ {i} /\ writer' = [writer EXCEPT ![i] = u]
     /\ updater' = [updater EXCEPT ![u].step = "copy", ![u].fd = i]
     /\ UNCHANGED <<release, failures>>

\* The file is complete when the last one that truncated it has written it.
Copy(u) ==
  LET i == updater[u].fd
  IN /\ updater[u].step = "copy"
     /\ whole' = IF writer[i] = u THEN whole \cup {i} ELSE whole
     /\ Step(u, "fetched")
     /\ UNCHANGED <<disk, data, writer, release, failures>>

Fails == failures < MaxFailures /\ failures' = failures + 1

CopyFails(u) ==
  /\ updater[u].step = "copy" /\ Fails
  /\ disk' = [disk EXCEPT !["tmp"] = NoFile]
  /\ Leave(u)
  /\ UNCHANGED <<data, whole, writer, release>>

\* os.Rename; what was there is gone.
Move(from, to) == disk' = [disk EXCEPT ![to] = disk[from], ![from] = NoFile]

RenameTmp(u) ==
  /\ updater[u].step = "fetched"
  /\ IF disk["tmp"] # NoFile THEN Move("tmp", "new") /\ Step(u, "verify")
     ELSE Leave(u) /\ UNCHANGED disk
  /\ UNCHANGED <<data, whole, writer, release, failures>>

\* verifyBinary only asks for a file that may be executed, which a download always is.
Verify(u) ==
  /\ updater[u].step = "verify"
  /\ IF disk["new"] # NoFile THEN Step(u, "backup") ELSE Leave(u)
  /\ UNCHANGED <<disk, data, whole, writer, release, failures>>

Backup(u) ==
  /\ updater[u].step = "backup"
  /\ \/ /\ disk["binary"] # NoFile
        /\ Move("binary", "bak") /\ Step(u, "replace")
        /\ UNCHANGED failures
     \/ /\ IF disk["binary"] = NoFile THEN UNCHANGED failures ELSE Fails
        /\ disk' = [disk EXCEPT !["new"] = NoFile]
        /\ Leave(u)
  /\ UNCHANGED <<data, whole, writer, release>>

\* Mutant: a failed install leaves the backup where it is and clears it away.
ReplaceUnrestored(u) ==
  /\ updater[u].step = "replace"
  /\ \/ /\ disk["new"] # NoFile
        /\ Move("new", "binary") /\ Step(u, "clean")
        /\ UNCHANGED failures
     \/ /\ IF disk["new"] = NoFile THEN UNCHANGED failures ELSE Fails
        /\ UNCHANGED disk /\ Step(u, "clean")
  /\ UNCHANGED <<data, whole, writer, release>>

\* The download becomes the program; if that fails the backup does again.
Replace(u) ==
  /\ updater[u].step = "replace"
  /\ \/ /\ disk["new"] # NoFile
        /\ Move("new", "binary") /\ Step(u, "clean")
        /\ UNCHANGED failures
     \/ /\ IF disk["new"] = NoFile THEN UNCHANGED failures ELSE Fails
        /\ IF disk["bak"] = NoFile THEN UNCHANGED disk ELSE Move("bak", "binary")
        /\ Leave(u)
  /\ UNCHANGED <<data, whole, writer, release>>

Clean(u) ==
  /\ updater[u].step = "clean"
  /\ disk' = [disk EXCEPT !["bak"] = NoFile]
  /\ Leave(u)
  /\ UNCHANGED <<data, whole, writer, release, failures>>

InstallUpdate(u) ==
  CreateTmp(u) \/ Copy(u) \/ CopyFails(u) \/ RenameTmp(u) \/ Verify(u) \/ Backup(u) \/ Replace(u) \/ Clean(u)

UpdateKilled(u) ==
  /\ updater[u].step # "idle" /\ Fails
  /\ Leave(u)
  /\ UNCHANGED <<disk, data, whole, writer, release>>

UpdateNext ==
  \/ NewRelease
  \/ \E u \in Updater : CheckForUpdate(u) \/ InstallUpdate(u) \/ UpdateKilled(u)
UpdateSpec == UpdateInit /\ [][UpdateNext]_updateVars

-----------------------------------------------------------------------------
(* Properties.                                                             *)

\* "Atomic binary replacement with backup" (README.md:82), with one update at a
\* time: whatever fails and whenever the command is killed, a complete program is
\* in its place or in the backup; and it is in its place unless the command was
\* killed between the two renames.
ProgramSurvives ==
  /\ {disk["binary"], disk["bak"]} \cap whole # {}
  /\ disk["binary"] # NoFile => disk["binary"] \in whole
  /\ failures = 0 /\ (\A u \in Updater : updater[u].step # "replace") => disk["binary"] # NoFile
=============================================================================
