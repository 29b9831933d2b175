-------------------------- MODULE AdminStoreProofs ---------------------------
(***************************************************************************)
(* The file store is an atomic, durable store, for any number of processes *)
(* and calls, crashes and power failures.                                  *)
(*                                                                         *)
(* Inv says what a call knows at each of its steps: the file lock is its   *)
(* own from "locked" on, so the snapshot it has read is still that of the  *)
(* file, and its temporary file is that snapshot and its own update.  The  *)
(* mutex of the process plays no part in the argument.                     *)
(***************************************************************************)
EXTENDS AdminStore, TLAPS

Holding == {"locked", "loaded", "writing", "written", "synced", "renamed", "saved"}
Unsaved == {"idle", "mutex", "locked", "loaded", "writing", "written", "synced"}
Durable == {"saved", "unlock_ok", "ok"}

\* A call between its lock and its unlock holds the file lock.
LockHeld == \A c \in Calls : pc[c] \in Holding => flock = c

\* What was read is still what the file holds, the call's own update apart.
LocalFresh ==
    \A c \in Calls :
        /\ pc[c] = "loaded" => local[c] = file.snapshot
        /\ pc[c] = "writing" => local[c] = file.snapshot \cup {c}

\* So is the temporary file, complete and in time on disk.
TempFresh ==
    \A c \in Calls :
        /\ pc[c] \in {"written", "synced"} =>
                temp[c].snapshot = file.snapshot \cup {c} /\ temp[c].complete
        /\ pc[c] = "synced" => temp[c].synced

\* An update is in the file only once it is renamed, and on disk before Ok.
Placed ==
    \A c \in Calls :
        /\ pc[c] \in Unsaved => c \notin file.snapshot
        /\ pc[c] = "renamed" => c \in file.snapshot
        /\ pc[c] \in Durable => c \in file.snapshot /\ c \in durable.snapshot

DurableOlder == durable.snapshot \subseteq file.snapshot

Inv == TypeOK /\ LockHeld /\ LocalFresh /\ TempFresh /\ Placed /\ DurableOlder /\ NeverTorn

-----------------------------------------------------------------------------
\* Nothing is stored at first.
LEMMA InvInit == Init => Inv
BY DEF Init, Inv, TypeOK, LockHeld, LocalFresh, TempFresh, Placed, DurableOlder, NeverTorn,
       Inode, Steps, Ends, Holding, Unsaved, Durable, EmptyStore, NewFile, Free

\* One step of a call preserves Inv.
LEMMA StepPreserves == ASSUME Inv, NEW c \in Calls, Step(c) PROVE Inv'
<1> USE DEF Inv, TypeOK, LockHeld, LocalFresh, TempFresh, Placed, DurableOlder, NeverTorn,
            Inode, Steps, Ends, Holding, Unsaved, Durable, Goto, locks, disk
<1>1. CASE LockProcess(c) BY <1>1, RunnerAssumption DEF LockProcess
<1>2. CASE LockFile(c) BY <1>2, FreeAssumption DEF LockFile, FileLockFree
<1>3. CASE Load(c) BY <1>3 DEF Load
<1>4. CASE OpenTemp(c) BY <1>4 DEF OpenTemp, NewFile
<1>5. CASE Refused(c) BY <1>5 DEF Refused
<1>6. CASE WriteTemp(c) BY <1>6 DEF WriteTemp
<1>7. CASE SyncTemp(c) BY <1>7 DEF SyncTemp, Synced
<1>8. CASE Rename(c) BY <1>8 DEF Rename
<1>9. CASE SyncDirectory(c) BY <1>9 DEF SyncDirectory, DirSynced
<1>10. CASE Fail(c) BY <1>10 DEF Fail, NewFile
<1>11. CASE UnlockProcess(c) BY <1>11, RunnerAssumption DEF UnlockProcess, Free
<1>12. CASE UnlockFile(c) BY <1>12 DEF UnlockFile, FileUnlocked, Free
<1> QED BY <1>1, <1>2, <1>3, <1>4, <1>5, <1>6, <1>7, <1>8, <1>9, <1>10, <1>11, <1>12 DEF Step, Proceed

\* So does the crash of a process.
LEMMA CrashPreserves == ASSUME Inv, NEW p \in Processes, Crash(p) PROVE Inv'
BY DEF Inv, TypeOK, LockHeld, LocalFresh, TempFresh, Placed, DurableOlder, NeverTorn, Inode,
       Steps, Ends, Holding, Unsaved, Durable, locks, disk, Crash, Running, Free

\* So does a power failure, whichever file survives it.
LEMMA PowerLossPreserves == ASSUME Inv, PowerLoss PROVE Inv'
<1>1. PICK survivor \in {file, durable} :
            file' = AfterPowerLoss(survivor) /\ durable' = AfterPowerLoss(survivor)
  BY DEF PowerLoss
<1>2. /\ file'.snapshot = survivor.snapshot /\ file'.complete /\ file'.synced
      /\ survivor.snapshot \subseteq file.snapshot /\ durable.snapshot \subseteq survivor.snapshot
      /\ file' \in Inode /\ durable' = file'
  BY <1>1 DEF Inv, TypeOK, Inode, DurableOlder, NeverTorn, AfterPowerLoss
<1>3. TypeOK' /\ NeverTorn' /\ DurableOlder'
  BY <1>2 DEF Inv, TypeOK, NeverTorn, DurableOlder, PowerLoss, Running, Steps, Ends, Free
<1>4. \A c \in Calls : \/ pc'[c] = "dead"
                       \/ pc'[c] = pc[c] /\ pc[c] \in {"idle", "ok", "err", "dead"}
  BY DEF PowerLoss, Running, Inv, TypeOK
<1>5. LockHeld' /\ LocalFresh' /\ TempFresh'
  BY <1>4 DEF LockHeld, LocalFresh, TempFresh, Holding
<1>6. Placed'
  BY <1>2, <1>4 DEF Inv, Placed, Unsaved, Durable
<1> QED BY <1>3, <1>5, <1>6 DEF Inv

\* Inv holds in every state of a behaviour.
LEMMA InvHolds == Spec => []Inv
<1>1. Inv /\ [Next]_vars => Inv'
  <2> SUFFICES ASSUME Inv, [Next]_vars PROVE Inv'
    OBVIOUS
  <2>1. CASE Next
    BY <2>1, StepPreserves, CrashPreserves, PowerLossPreserves DEF Next
  <2>2. CASE UNCHANGED vars
    BY <2>2 DEF vars, Inv, TypeOK, LockHeld, LocalFresh, TempFresh, Placed, DurableOlder, NeverTorn
  <2> QED BY <2>1, <2>2
<1> QED BY <1>1, InvInit, PTL DEF Spec

-----------------------------------------------------------------------------
\* The state of calls, locks and files is always of its type.
THEOREM StoreTypeCorrect == Spec => []TypeOK
BY InvHolds, PTL DEF Inv

\* save_snapshot never leaves a half-written store file, even to a power
\* failure: load_snapshot always parses.
THEOREM StoreNeverTorn == Spec => []NeverTorn
BY InvHolds, PTL DEF Inv

\* An update that returned Ok stays in the file, on disk too.
THEOREM UpdatesNotLost == Spec => []NoLostUpdate
<1>1. Inv => NoLostUpdate
  BY DEF Inv, Placed, NoLostUpdate, Returned, Durable
<1> QED BY <1>1, InvHolds, PTL

\* The locking, reading, writing and renaming of a call implement one atomic
\* step; crashes and power failures undo only what was not confirmed.
THEOREM StoreImplementsContract == Spec => ImplementsAtomicStore
<1>1. Init => Contract!Init
  BY DEF Init, Contract!Init, Returned, EmptyStore
<1>2. Inv /\ [Next]_vars => [Contract!Next]_(Contract!vars)
  <2> SUFFICES ASSUME Inv, [Next]_vars PROVE [Contract!Next]_(Contract!vars)
    OBVIOUS
  <2> USE DEF Returned, Contract!vars, Contract!Next, Goto, locks, disk
  <2> DEFINE Ok == Returned("ok")
  <2>typed. pc \in [Calls -> Steps \cup Ends]
    BY DEF Inv, TypeOK
  <2>1. ASSUME NEW c \in Calls, Rename(c) PROVE Contract!Apply(c)
    <3>1. c \notin file.snapshot /\ file'.snapshot = file.snapshot \cup {c}
      BY <2>1 DEF Rename, Inv, Placed, TempFresh, Unsaved
    <3>2. Ok' = Ok
      BY <2>1, <2>typed DEF Rename
    <3> QED BY <3>1, <3>2 DEF Contract!Apply
  <2>2. ASSUME NEW c \in Calls, UnlockFile(c) PROVE [Contract!Next]_(Contract!vars)
    <3>1. CASE pc[c] = "unlock_ok"
      <4>1. Ok' = Ok \cup {c} /\ c \notin Ok /\ file' = file
        BY <2>2, <3>1, <2>typed DEF UnlockFile
      <4>2. c \in file.snapshot
        BY <3>1 DEF Inv, Placed, Durable
      <4> QED BY <4>1, <4>2 DEF Contract!Confirm
    <3>2. CASE pc[c] = "unlock_err"
      <4>1. Ok' = Ok /\ file' = file
        BY <2>2, <3>2, <2>typed DEF UnlockFile
      <4> QED BY <4>1
    <3> QED BY <2>2, <3>1, <3>2 DEF UnlockFile
  <2>3. ASSUME NEW c \in Calls,
               \/ LockProcess(c) \/ LockFile(c) \/ Load(c) \/ OpenTemp(c) \/ Refused(c)
               \/ WriteTemp(c) \/ SyncTemp(c) \/ SyncDirectory(c) \/ Fail(c) \/ UnlockProcess(c)
        PROVE UNCHANGED Contract!vars
    <3>1. file' = file
      BY <2>3 DEF LockProcess, LockFile, Load, OpenTemp, Refused, WriteTemp, SyncTemp,
                  SyncDirectory, Fail, UnlockProcess
    <3>2. \A d \in Calls : pc'[d] = "ok" <=> pc[d] = "ok"
      BY <2>3, <2>typed DEF LockProcess, LockFile, Load, OpenTemp, Refused, WriteTemp, SyncTemp,
                  SyncDirectory, Fail, UnlockProcess
    <3> QED BY <3>1, <3>2
  <2>4. ASSUME NEW p \in Processes, Crash(p) PROVE UNCHANGED Contract!vars
    BY <2>4 DEF Crash, Running
  <2>5. CASE PowerLoss
    <3> DEFINE lost == file.snapshot \ file'.snapshot
    <3>1. Ok' = Ok
      BY <2>5 DEF PowerLoss, Running
    <3>2. file'.snapshot \in {file.snapshot, durable.snapshot}
      BY <2>5 DEF PowerLoss, AfterPowerLoss
    <3>3. file'.snapshot = file.snapshot \ lost
      BY <3>2 DEF Inv, DurableOlder
    <3>4. lost \in SUBSET Calls /\ lost \cap Ok = {}
      BY <3>2 DEF Inv, TypeOK, Inode, Placed, Durable
    <3>5. Contract!Undo(lost)
      BY <3>1, <3>3, <3>4 DEF Contract!Undo
    <3> QED BY <3>4, <3>5
  <2>6. CASE UNCHANGED vars
    BY <2>6 DEF vars
  <2> QED BY <2>1, <2>2, <2>3, <2>4, <2>5, <2>6 DEF Next, Step, Proceed
<1> QED BY <1>1, <1>2, InvHolds, PTL DEF Spec, ImplementsAtomicStore, Contract!Spec
=============================================================================
