--------------------------- MODULE CheckpointFile ---------------------------
(***************************************************************************)
(* migrationstore.File (src/migrationstore/file.go): Save replaces the     *)
(* checkpoint file atomically (temporary file, write, fsync, close,        *)
(* rename, fsync of the directory), Load reads it, one mutex serializes    *)
(* both.  Any system call may fail and the machine may crash between any   *)
(* two of them.  Checkpoints are numbered in the order they are saved.     *)
(*                                                                         *)
(* The file system is external: what is written but not synced may be      *)
(* lost by a crash, a rename that is not followed by a directory sync may  *)
(* be undone by one, and renames are atomic.                               *)
(***************************************************************************)
EXTENDS Integers

CONSTANTS
  Threads,    \* goroutines that share the File
  DirSync,    \* whether Save syncs the directory: FALSE on Windows
  MaxSaves,   \* bound: calls of Save
  MaxCrashes  \* bound: crashes of the machine

Nobody == "nobody"

ASSUME FileAssumption ==
  /\ Nobody \notin Threads
  /\ DirSync \in BOOLEAN /\ MaxSaves \in Nat /\ MaxCrashes \in Nat

VARIABLES
  mu,        \* the thread that holds the mutex, or Nobody
  pc,        \* the next step of each thread's call
  saves,     \* checkpoints numbered so far
  tmp,       \* the temporary file of the call that holds the mutex
  path,      \* the file the directory shows at Path
  disk,      \* the file a crash would leave at Path
  saved,     \* history: the newest checkpoint whose Save returned nil
  loaded,    \* history: what Load last returned
  crashes

vars == <<mu, pc, saves, tmp, path, disk, saved, loaded, crashes>>

\* A file holds a checkpoint: none of it, part of it, or all.
Contents == {"empty", "part", "all"}
File(v, data, synced) == [value |-> v, data |-> data, synced |-> synced]
NoFile == File(0, "all", TRUE)

Init ==
  /\ mu = Nobody /\ pc = [t \in Threads |-> "idle"]
  /\ saves = 0 /\ tmp = NoFile
  /\ path = NoFile /\ disk = NoFile
  /\ saved = 0 /\ loaded = NoFile
  /\ crashes = 0

Step(t, from, to) == mu = t /\ pc[t] = from /\ pc' = [pc EXCEPT ![t] = to]

\* f.mu.Lock(), and the checks that touch nothing: marshal, size, open.
SaveBegins(t) ==
  /\ mu = Nobody /\ pc[t] = "idle" /\ saves < MaxSaves
  /\ mu' = t
  /\ saves' = saves + 1
  /\ pc' = [pc EXCEPT ![t] = "create"]
  /\ UNCHANGED <<tmp, path, disk, saved, loaded, crashes>>

CreateTemp(t) ==
  /\ Step(t, "create", "write")
  /\ tmp' = File(saves, "empty", FALSE)
  /\ UNCHANGED <<mu, saves, path, disk, saved, loaded, crashes>>

\* Mutant: no fsync before the rename.
WriteUnsynced(t) ==
  /\ Step(t, "write", "rename")
  /\ tmp' = [tmp EXCEPT !.data = "all"]
  /\ UNCHANGED <<mu, saves, path, disk, saved, loaded, crashes>>

Write(t) ==
  /\ Step(t, "write", "sync")
  /\ tmp' = [tmp EXCEPT !.data = "all"]
  /\ UNCHANGED <<mu, saves, path, disk, saved, loaded, crashes>>

Sync(t) ==
  /\ Step(t, "sync", "rename")
  /\ tmp' = [tmp EXCEPT !.synced = TRUE]
  /\ UNCHANGED <<mu, saves, path, disk, saved, loaded, crashes>>

\* Mutant: the directory is never synced.
RenameReturns(t) ==
  /\ Step(t, "rename", "return")
  /\ path' = tmp
  /\ tmp' = NoFile
  /\ UNCHANGED <<mu, saves, disk, saved, loaded, crashes>>

\* tmp.Close() and os.Rename; runtime.GOOS decides what follows.
Rename(t) ==
  /\ Step(t, "rename", IF DirSync THEN "syncDir" ELSE "return")
  /\ path' = tmp
  /\ tmp' = NoFile
  /\ UNCHANGED <<mu, saves, disk, saved, loaded, crashes>>

SyncDir(t) ==
  /\ Step(t, "syncDir", "return")
  /\ disk' = path
  /\ UNCHANGED <<mu, saves, tmp, path, saved, loaded, crashes>>

SaveReturns(t) ==
  /\ Step(t, "return", "idle")
  /\ mu' = Nobody
  /\ saved' = path.value
  /\ UNCHANGED <<saves, tmp, path, disk, loaded, crashes>>

\* Mutant: the cleanup removes Path instead of the temporary file.
SaveRemovesPath(t) ==
  /\ mu = t /\ pc[t] \notin {"idle", "return"}
  /\ pc' = [pc EXCEPT ![t] = "idle"]
  /\ mu' = Nobody
  /\ path' = NoFile /\ tmp' = NoFile
  /\ UNCHANGED <<saves, disk, saved, loaded, crashes>>

\* An error at any step: the deferred calls remove the temporary file.
SaveFails(t) ==
  /\ mu = t /\ pc[t] \notin {"idle", "return"}
  /\ pc' = [pc EXCEPT ![t] = "idle"]
  /\ mu' = Nobody
  /\ tmp' = NoFile
  /\ UNCHANGED <<saves, path, disk, saved, loaded, crashes>>

\* Load opens and reads whatever file is at Path, under the mutex.
Load(t) ==
  /\ mu = Nobody /\ pc[t] = "idle"
  /\ loaded' = path
  /\ UNCHANGED <<mu, pc, saves, tmp, path, disk, saved, crashes>>

\* The file system may write a directory entry back at any time.
Writeback ==
  /\ disk' = path
  /\ UNCHANGED <<mu, pc, saves, tmp, path, saved, loaded, crashes>>

\* After a crash Path is the old or the new entry if the rename was not synced;
\* a file that was not synced may hold any part of what was written.
Crash ==
  /\ crashes < MaxCrashes
  /\ crashes' = crashes + 1
  /\ \E survivor \in {disk, path} :
       path' \in IF survivor.synced THEN {survivor}
                 ELSE {File(survivor.value, data, FALSE) : data \in Contents}
  /\ disk' = path'
  /\ tmp' = NoFile
  /\ mu' = Nobody
  /\ pc' = [t \in Threads |-> "idle"]
  /\ UNCHANGED <<saves, saved, loaded>>

Next ==
  \/ \E t \in Threads :
       \/ SaveBegins(t) \/ CreateTemp(t) \/ Write(t) \/ Sync(t) \/ Rename(t)
       \/ SyncDir(t) \/ SaveReturns(t) \/ SaveFails(t) \/ Load(t)
  \/ Writeback \/ Crash

Spec == Init /\ [][Next]_vars
-----------------------------------------------------------------------------
Files == [value : Nat, data : Contents, synced : BOOLEAN]

\* Types.
TypeOK ==
  /\ mu \in Threads \union {Nobody}
  /\ pc \in [Threads -> {"idle", "create", "write", "sync", "rename", "syncDir", "return"}]
  /\ saves \in 0..MaxSaves
  /\ tmp \in Files /\ path \in Files /\ disk \in Files /\ loaded \in Files
  /\ saved \in 0..MaxSaves
  /\ crashes \in 0..MaxCrashes

\* Whatever fails or crashes, the checkpoint at Path is complete, now and after
\* a crash: fsync precedes the rename that publishes the file.
NeverTorn ==
  /\ path.data = "all" /\ path.synced
  /\ disk.data = "all" /\ disk.synced
  /\ loaded.data = "all"

\* "It must complete durably before returning nil" (MigrationOptions.Checkpoint):
\* where the directory is synced, no crash takes back a checkpoint whose Save
\* returned nil; Path then holds it, or a newer one.
SavedIsDurable == DirSync => disk.value >= saved /\ path.value >= saved

\* Checkpoints are never reordered: Path moves back only by a crash, and then
\* not behind what a crash before would have left.
PathMovesForward ==
  [][crashes' = crashes => path'.value >= path.value /\ disk'.value >= disk.value]_vars

=============================================================================
