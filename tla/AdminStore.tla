----------------------------- MODULE AdminStore ------------------------------
(***************************************************************************)
(* The file stores of the gateway (AdminStore) and of the control center   *)
(* (FileStore), which share this code: every call takes a mutex of its     *)
(* process and a lock on a file, reads the snapshot, and replaces it       *)
(* through a temporary file.  Calls run in the threads of several          *)
(* processes; a process can crash and the machine can lose power between   *)
(* any two steps, and every step can fail.                                 *)
(*                                                                         *)
(* A snapshot is the set of the updates made to it.  A file has been       *)
(* written completely or not, and its content is on disk or not.           *)
(***************************************************************************)
CONSTANTS
    Calls,      \* calls of update, each made once
    Processes   \* the processes that open the store

CONSTANT Runner(_)  \* the process a call runs in

ASSUME RunnerAssumption == \A c \in Calls : Runner(c) \in Processes

VARIABLES
    pc,         \* where each call is
    mutex,      \* the process mutex: the call that holds it
    flock,      \* the lock on the lock file: the call that holds it
    local,      \* the snapshot a call is working on
    temp,       \* the temporary file of each call
    file,       \* the store file as the processes see it
    durable     \* the store file a power failure may bring back

vars == <<pc, mutex, flock, local, temp, file, durable>>
locks == <<mutex, flock>>
disk == <<temp, file, durable>>

Free == "free"
ASSUME FreeAssumption == Free \notin Calls

NewFile == [snapshot |-> {}, complete |-> FALSE, synced |-> FALSE]

\* A store file that does not exist, or is empty, is read as the default snapshot.
EmptyStore == [snapshot |-> {}, complete |-> TRUE, synced |-> TRUE]

Steps == {"idle", "mutex", "locked", "loaded", "writing", "written", "synced", "renamed"}
Ends == {"saved", "failed", "unlock_ok", "unlock_err", "ok", "err", "dead"}

Goto(c, step) == pc' = [pc EXCEPT ![c] = step]

Init ==
    /\ pc = [c \in Calls |-> "idle"]
    /\ mutex = [p \in Processes |-> Free]
    /\ flock = Free
    /\ local = [c \in Calls |-> {}]
    /\ temp = [c \in Calls |-> NewFile]
    /\ file = EmptyStore
    /\ durable = EmptyStore

-----------------------------------------------------------------------------
\* lock: the mutex that the stores of one path share in a process ...
LockProcess(c) ==
    /\ pc[c] = "idle"
    /\ mutex[Runner(c)] = Free
    /\ mutex' = [mutex EXCEPT ![Runner(c)] = c]
    /\ Goto(c, "mutex")
    /\ UNCHANGED <<flock, local, disk>>

\* ... then the file lock that all processes share.
MutLockShared(c) == TRUE
FileLockFree(c) == flock = Free

LockFile(c) ==
    /\ pc[c] = "mutex"
    /\ FileLockFree(c)
    /\ flock' = c
    /\ Goto(c, "locked")
    /\ UNCHANGED <<mutex, local, disk>>

\* load_snapshot; a file that is not a complete snapshot does not parse.
Load(c) ==
    /\ pc[c] = "locked"
    /\ file.complete
    /\ local' = [local EXCEPT ![c] = file.snapshot]
    /\ Goto(c, "loaded")
    /\ UNCHANGED <<locks, disk>>

\* update: mutate the snapshot and open the temporary file.
OpenTemp(c) ==
    /\ pc[c] = "loaded"
    /\ local' = [local EXCEPT ![c] = @ \cup {c}]
    /\ temp' = [temp EXCEPT ![c] = NewFile]
    /\ Goto(c, "writing")
    /\ UNCHANGED <<locks, file, durable>>

\* update_result: the mutation is refused and nothing is saved.
Refused(c) ==
    /\ pc[c] = "loaded"
    /\ Goto(c, "failed")
    /\ UNCHANGED <<locks, local, disk>>

\* save_snapshot
WriteTemp(c) ==
    /\ pc[c] = "writing"
    /\ temp' = [temp EXCEPT ![c] = [snapshot |-> local[c], complete |-> TRUE, synced |-> FALSE]]
    /\ Goto(c, "written")
    /\ UNCHANGED <<locks, local, file, durable>>

MutSyncSkipped(inode) == inode
Synced(inode) == [snapshot |-> inode.snapshot, complete |-> inode.complete, synced |-> TRUE]

SyncTemp(c) ==
    /\ pc[c] = "written"
    /\ temp' = [temp EXCEPT ![c] = Synced(@)]
    /\ Goto(c, "synced")
    /\ UNCHANGED <<locks, local, file, durable>>

Rename(c) ==
    /\ pc[c] = "synced"
    /\ file' = temp[c]
    /\ Goto(c, "renamed")
    /\ UNCHANGED <<locks, local, temp, durable>>

\* set_permissions and sync_directory: the rename itself becomes durable.
MutDirNotSynced == durable
DirSynced == file

SyncDirectory(c) ==
    /\ pc[c] = "renamed"
    /\ durable' = DirSynced
    /\ Goto(c, "saved")
    /\ UNCHANGED <<locks, local, temp, file>>

\* A lock, read, write, sync or rename that fails, or what follows the rename:
\* the temporary file is removed and the caller gets an error, and after the
\* rename the new snapshot stays.
Fail(c) ==
    /\ pc[c] \in {"mutex", "locked", "writing", "written", "synced", "renamed"}
    /\ temp' = [temp EXCEPT ![c] = NewFile]
    /\ Goto(c, "failed")
    /\ UNCHANGED <<locks, local, file, durable>>

\* The guard releases the mutex first and then the file lock, if it has it.
UnlockProcess(c) ==
    /\ pc[c] \in {"saved", "failed"}
    /\ mutex' = [mutex EXCEPT ![Runner(c)] = Free]
    /\ Goto(c, IF pc[c] = "saved" THEN "unlock_ok" ELSE "unlock_err")
    /\ UNCHANGED <<flock, local, disk>>

MutKeptAfterError(c) == IF flock = c /\ pc[c] = "unlock_ok" THEN Free ELSE flock
FileUnlocked(c) == IF flock = c THEN Free ELSE flock

UnlockFile(c) ==
    /\ pc[c] \in {"unlock_ok", "unlock_err"}
    /\ flock' = FileUnlocked(c)
    /\ Goto(c, IF pc[c] = "unlock_ok" THEN "ok" ELSE "err")
    /\ UNCHANGED <<mutex, local, disk>>

-----------------------------------------------------------------------------
Running(c) == pc[c] \in (Steps \cup Ends) \ {"idle", "ok", "err", "dead"}

\* A process crashes: its calls end, the system releases its file lock.
Crash(p) ==
    /\ pc' = [c \in Calls |-> IF Runner(c) = p /\ Running(c) THEN "dead" ELSE pc[c]]
    /\ mutex' = [mutex EXCEPT ![p] = Free]
    /\ flock' = IF flock \in Calls /\ Runner(flock) = p THEN Free ELSE flock
    /\ UNCHANGED <<local, disk>>

\* What is left of a file after a power failure
AfterPowerLoss(inode) ==
    [snapshot |-> inode.snapshot, complete |-> inode.complete /\ inode.synced, synced |-> TRUE]

PowerLoss ==
    /\ pc' = [c \in Calls |-> IF Running(c) THEN "dead" ELSE pc[c]]
    /\ mutex' = [p \in Processes |-> Free]
    /\ flock' = Free
    /\ \E survivor \in {file, durable} :
            file' = AfterPowerLoss(survivor) /\ durable' = AfterPowerLoss(survivor)
    /\ UNCHANGED <<local, temp>>

Proceed(c) ==
    \/ LockProcess(c) \/ LockFile(c) \/ Load(c) \/ OpenTemp(c) \/ WriteTemp(c) \/ SyncTemp(c)
    \/ Rename(c) \/ SyncDirectory(c) \/ UnlockProcess(c) \/ UnlockFile(c)

Step(c) == Proceed(c) \/ Refused(c) \/ Fail(c)

Next ==
    \/ \E c \in Calls : Step(c)
    \/ \E p \in Processes : Crash(p)
    \/ PowerLoss

Spec == Init /\ [][Next]_vars

\* A call that holds the locks goes on, and one that waits gets the lock
\* when nobody else takes it any more; nothing makes a call start, and no
\* failure is needed to end one.
Fairness == \A c \in Calls : WF_vars(Proceed(c) /\ pc[c] # "idle")
FairSpec == Spec /\ Fairness

-----------------------------------------------------------------------------
(* Properties *)

Inode == [snapshot : SUBSET Calls, complete : BOOLEAN, synced : BOOLEAN]

\* Calls, locks and files are of their types.
TypeOK ==
    /\ pc \in [Calls -> Steps \cup Ends]
    /\ mutex \in [Processes -> Calls \cup {Free}]
    /\ flock \in Calls \cup {Free}
    /\ local \in [Calls -> SUBSET Calls]
    /\ temp \in [Calls -> Inode]
    /\ file \in Inode
    /\ durable \in Inode

\* The store file is a complete snapshot at every moment, and after any power
\* failure: load_snapshot never meets a half-written one.
NeverTorn == file.complete /\ file.synced /\ durable.complete /\ durable.synced

Returned(step) == {c \in Calls : pc[c] = step}

\* An update whose call returned Ok is in the snapshot for good, although
\* other processes read and replace the whole file.
NoLostUpdate == Returned("ok") \subseteq file.snapshot \cap durable.snapshot

\* The calls are atomic: each step is an update of the latest snapshot, the
\* return of a call whose update stays, or the undoing of unconfirmed ones.
Contract == INSTANCE AtomicStore WITH value <- file.snapshot, confirmed <- Returned("ok")
ImplementsAtomicStore == Contract!Spec

\* A call that took the mutex ends: the two locks are taken in the same order
\* and released on every path, also after a failure or a crash of the holder.
CallsEnd == \A c \in Calls : pc[c] = "mutex" ~> pc[c] \in {"ok", "err", "dead"}
=============================================================================
