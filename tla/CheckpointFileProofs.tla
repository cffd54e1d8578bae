------------------------ MODULE CheckpointFileProofs ------------------------
(***************************************************************************)
(* Proofs about CheckpointFile, for any number of threads, saves and       *)
(* crashes, with and without a directory sync.                             *)
(*                                                                         *)
(* The invariant follows one Save through its steps: the thread in the     *)
(* middle of a call holds the mutex, so the temporary file is its own, is  *)
(* complete once written and synced before it is renamed; and what a crash *)
(* would leave at Path is never newer than what the directory shows.       *)
(***************************************************************************)
EXTENDS CheckpointFile, TLAPS

Complete(file) == file.data = "all" /\ file.synced

\* Threads in the middle of a call exclude each other.
Mutex ==
  /\ \A t \in Threads : pc[t] # "idle" => mu = t
  /\ mu = Nobody => \A t \in Threads : pc[t] = "idle"

\* What the temporary file holds at each step of the call it belongs to.
TempFollowsCall ==
  \A t \in Threads :
    /\ pc[t] \in {"write", "sync", "rename"} => tmp.value = saves
    /\ pc[t] \in {"sync", "rename"} => tmp.data = "all"
    /\ pc[t] = "rename" => tmp.synced

\* Values in the order they were written: nothing newer than the last Save, and
\* the directory on disk not ahead of the one in memory.
Ordered == disk.value <= path.value /\ path.value <= saves

\* Where the directory is synced, a Save about to return has made it durable.
Synced ==
  DirSync => \A t \in Threads : pc[t] = "return" => disk.value = path.value

IInv ==
  /\ TypeOK /\ Mutex /\ TempFollowsCall /\ NeverTorn /\ Ordered
  /\ Synced /\ SavedIsDurable

\* The invariant holds before the first Save.
LEMMA InitIInv == Init => IInv
  BY FileAssumption
  DEF Init, IInv, TypeOK, Mutex, TempFollowsCall, NeverTorn, Ordered, Synced,
      SavedIsDurable, NoFile, File, Files, Contents

\* Every step of a call keeps the invariant: the caller holds the mutex, so no
\* other call is under way.
LEMMA StepIInv == IInv /\ [Next]_vars => IInv'
<1> SUFFICES ASSUME IInv, [Next]_vars PROVE IInv'
  OBVIOUS
<1> USE FileAssumption DEF IInv, TypeOK, Mutex, TempFollowsCall, NeverTorn, Ordered,
        Synced, SavedIsDurable, Step, NoFile, File, Files, Contents
<1>1. ASSUME NEW t \in Threads, SaveBegins(t) PROVE IInv'
  BY <1>1 DEF SaveBegins
<1>2. ASSUME NEW t \in Threads, CreateTemp(t) PROVE IInv'
  BY <1>2 DEF CreateTemp
<1>3. ASSUME NEW t \in Threads, Write(t) PROVE IInv'
  BY <1>3 DEF Write
<1>4. ASSUME NEW t \in Threads, Sync(t) PROVE IInv'
  BY <1>4 DEF Sync
<1>5. ASSUME NEW t \in Threads, Rename(t) PROVE IInv'
  BY <1>5 DEF Rename
<1>6. ASSUME NEW t \in Threads, SyncDir(t) PROVE IInv'
  BY <1>6 DEF SyncDir
<1>7. ASSUME NEW t \in Threads, SaveReturns(t) PROVE IInv'
  BY <1>7 DEF SaveReturns
<1>8. ASSUME NEW t \in Threads, SaveFails(t) PROVE IInv'
  BY <1>8 DEF SaveFails
<1>9. ASSUME NEW t \in Threads, Load(t) PROVE IInv'
  BY <1>9 DEF Load
<1>10. ASSUME Writeback PROVE IInv'
  BY <1>10 DEF Writeback
<1>11. ASSUME Crash PROVE IInv'
  BY <1>11 DEF Crash
<1>12. ASSUME UNCHANGED vars PROVE IInv'
  BY <1>12 DEF vars
<1> QED
  BY <1>1, <1>2, <1>3, <1>4, <1>5, <1>6, <1>7, <1>8, <1>9, <1>10, <1>11, <1>12 DEF Next
-----------------------------------------------------------------------------
\* The invariant holds in every behaviour.
LEMMA Invariance == Spec => []IInv
<1>1. Init => IInv
  BY InitIInv
<1>2. IInv /\ [Next]_vars => IInv'
  BY StepIInv
<1> QED
  BY <1>1, <1>2, PTL DEF Spec

\* Type correctness of the model of File.Save and File.Load.
THEOREM TypeCorrect == Spec => []TypeOK
<1>1. IInv => TypeOK
  BY DEF IInv
<1> QED
  BY <1>1, Invariance, PTL

\* No failure and no crash, at any step of any Save, leaves a checkpoint at Path
\* that is torn: File.Load never meets a half-written one.
THEOREM NeverTornAlways == Spec => []NeverTorn
<1>1. IInv => NeverTorn
  BY DEF IInv
<1> QED
  BY <1>1, Invariance, PTL

\* Where File.Save syncs the directory, no crash takes back a checkpoint that it
\* has acknowledged: what the migration's write-ahead protocol builds on.
THEOREM SavedIsDurableAlways == Spec => []SavedIsDurable
<1>1. IInv => SavedIsDurable
  BY DEF IInv
<1> QED
  BY <1>1, Invariance, PTL

\* Between crashes, neither what File.Load finds nor what a crash would leave
\* ever goes back to an older checkpoint.
THEOREM PathMovesForwardAlways == Spec => PathMovesForward
<1>1. ASSUME IInv, [Next]_vars
      PROVE  [crashes' = crashes =>
                path'.value >= path.value /\ disk'.value >= disk.value]_vars
  <2> SUFFICES ASSUME Next, crashes' = crashes
               PROVE  path'.value >= path.value /\ disk'.value >= disk.value
    BY <1>1
  <2> USE <1>1 DEF IInv, TypeOK, Files, Ordered, TempFollowsCall
  <2>1. ASSUME NEW t \in Threads, Rename(t)
        PROVE  path'.value >= path.value /\ disk' = disk
    BY <2>1 DEF Rename, Step
  <2>2. CASE disk' = path /\ path' = path
    BY <2>2
  <2>3. CASE disk' = disk /\ path' = path
    BY <2>3
  <2>4. Writeback \/ (\E t \in Threads : SyncDir(t)) => disk' = path /\ path' = path
    BY DEF Writeback, SyncDir
  <2>5. ~Crash
    BY FileAssumption DEF Crash, File
  <2>6. ASSUME NEW t \in Threads,
               \/ SaveBegins(t) \/ CreateTemp(t) \/ Write(t) \/ Sync(t)
               \/ SaveReturns(t) \/ SaveFails(t) \/ Load(t)
        PROVE  disk' = disk /\ path' = path
    BY <2>6 DEF SaveBegins, CreateTemp, Write, Sync, SaveReturns, SaveFails, Load
  <2> QED
    BY <2>1, <2>2, <2>3, <2>4, <2>5, <2>6 DEF Next
<1> QED
  BY <1>1, Invariance, PTL DEF Spec, PathMovesForward
=============================================================================
