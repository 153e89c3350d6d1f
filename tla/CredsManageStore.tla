-------------------------- MODULE CredsManageStore --------------------------
(***************************************************************************)
(* packages/creds-manage/src/store.rs: the file-backed credential store.   *)
(*                                                                         *)
(* Several processes (a server and the CLI, say) each run a store on the   *)
(* same data file.  Within a process, callers queue on io_lock; the file   *)
(* itself is read and replaced by a blocking task that holds an exclusive  *)
(* lock on a sidecar file.  A sync task reloads the in-memory snapshot     *)
(* after file-system events, or by polling, and recognises the process's   *)
(* own writes by the content hash recorded in last_committed_hash.         *)
(*                                                                         *)
(* A content hash is modelled by the content itself.                       *)
(***************************************************************************)
EXTENDS CredsDataFile, FiniteSets

CONSTANTS
    Procs,        \* processes that run a store on the file
    Callers,      \* concurrent calls of mutating store operations
    ProcOf,       \* [Callers -> Procs]
    Inputs,       \* the requests the callers make
    Edits,        \* contents written by a program that is not a store
    InitialFile,  \* content of the file when the first store is loaded
    Corrupt,      \* a content that parse_data_file rejects
    MaxEdits,     \* bound: edits from outside
    MaxCrashes,   \* bound: process crashes
    PollOnly      \* processes whose watcher cannot be created

NoOne == "no one"

ASSUME StoreAssumption ==
    /\ ProcOf \in [Callers -> Procs]
    /\ Inputs \subseteq Request
    /\ Edits \ {Corrupt} \subseteq DataFile
    /\ InitialFile \in DataFile
    /\ NoOne \notin Callers
    /\ MaxEdits \in Nat /\ MaxCrashes \in Nat
    /\ PollOnly \subseteq Procs

\* Files that no store wrote are taken to be well formed when they parse.
ASSUME WellFormedInputs ==
    /\ WellFormed(InitialFile)
    /\ \A d \in Edits \ {Corrupt} : WellFormed(d)

VARIABLES
    disk,         \* content of the data file
    clock,        \* Utc::now(), advanced by every mutation
    fileLock,     \* caller whose blocking task holds the sidecar lock
    up,           \* processes that run
    data,         \* [Procs -> DataFile]: the ArcSwap snapshot reads use
    ioLock,       \* [Procs -> caller that holds io_lock]
    committed,    \* [Procs -> last_committed_hash]
    pc,           \* [Callers -> step of the call]
    req,          \* [Callers -> request]
    staged,       \* [Callers -> mutated data, not yet in memory]
    attached,     \* [Callers -> somebody still awaits the call]
    mode,         \* [Procs -> how the sync task learns of changes]
    event,        \* [Procs -> a file-system event or tick waits]
    syncPc,       \* [Procs -> step of reload_if_external]
    raw,          \* [Procs -> bytes that reload_if_external read]
    edits, crashes

storeVars == <<disk, clock, fileLock>>
callVars == <<pc, req, staged, attached>>
syncVars == <<mode, event, syncPc, raw>>
boundVars == <<edits, crashes>>
vars == <<storeVars, up, data, ioLock, committed, callVars, syncVars, boundVars>>

NoRequest == [op |-> "none"]
Contents == {Corrupt} \cup DataFile

\* Uuid::new_v4 never gives out an id that is already in use.
Fresh(r) ==
    /\ \A c \in Callers : req[c].op = r.op => req[c].id # r.id
    /\ \A d \in (Edits \cup {InitialFile}) \ {Corrupt} :
          r.id \notin IF r.op = "create_entry" THEN Entries(d) ELSE Groups(d)

Init ==
    /\ disk = InitialFile
    /\ clock = 0
    /\ fileLock = NoOne
    /\ up = Procs
    /\ data = [p \in Procs |-> InitialFile]
    /\ ioLock = [p \in Procs |-> NoOne]
    /\ committed = [p \in Procs |-> None]
    /\ pc = [c \in Callers |-> "idle"]
    /\ req = [c \in Callers |-> NoRequest]
    /\ staged = [c \in Callers |-> None]
    /\ attached = [c \in Callers |-> TRUE]
    /\ mode = [p \in Procs |-> "starting"]
    /\ event = [p \in Procs |-> FALSE]
    /\ syncPc = [p \in Procs |-> "wait"]
    /\ raw = [p \in Procs |-> None]
    /\ edits = 0
    /\ crashes = 0

----------------------------------------------------------------------------
(* A mutating operation: create_basic_entry, create_token_entry,           *)
(* update_entry, delete_entry, create_group, update_group, delete_group.   *)

\* The caller enters the operation and waits for io_lock.
Call(c, r) ==
    /\ pc[c] = "idle"
    /\ ProcOf[c] \in up
    /\ r.op \in {"create_entry", "create_group"} => Fresh(r)
    /\ pc' = [pc EXCEPT ![c] = "io_lock"]
    /\ req' = [req EXCEPT ![c] = r]
    /\ UNCHANGED <<storeVars, up, data, ioLock, committed, staged, attached,
                   syncVars, boundVars>>

AcquireIoLock(c) ==
    /\ pc[c] = "io_lock"
    /\ ioLock[ProcOf[c]] = NoOne
    /\ ioLock' = [ioLock EXCEPT ![ProcOf[c]] = c]
    /\ pc' = [pc EXCEPT ![c] = "file_lock"]
    /\ UNCHANGED <<storeVars, up, data, committed, req, staged, attached,
                   syncVars, boundVars>>

\* io_lock is released by the guard of the call that returns, if it has one.
ReleaseIoLock(c) ==
    ioLock' = IF attached[c] THEN [ioLock EXCEPT ![ProcOf[c]] = NoOne] ELSE ioLock

\* Mutant: the checks read the snapshot, the change is made to the file.
ReadAndApply_ChecksSnapshot(c) ==
    /\ pc[c] = "file_lock"
    /\ fileLock = NoOne
    /\ disk # Corrupt
    /\ Accepts(data[ProcOf[c]], req[c])
    /\ fileLock' = c
    /\ clock' = clock + 1
    /\ staged' = [staged EXCEPT ![c] = Apply(disk, req[c], clock + 1)]
    /\ pc' = [pc EXCEPT ![c] = "commit"]
    /\ UNCHANGED <<disk, up, data, ioLock, committed, req, attached, syncVars,
                   boundVars>>

\* Mutant: no lock on the sidecar file.
ReadAndApply_NoFileLock(c) ==
    /\ pc[c] = "file_lock"
    /\ disk # Corrupt
    /\ Accepts(disk, req[c])
    /\ clock' = clock + 1
    /\ staged' = [staged EXCEPT ![c] = Apply(disk, req[c], clock + 1)]
    /\ pc' = [pc EXCEPT ![c] = "commit"]
    /\ UNCHANGED <<disk, fileLock, up, data, ioLock, committed, req, attached,
                   syncVars, boundVars>>

\* atomic_mutate_data_file, inside the blocking task: lock the sidecar,
\* read the file, run the closure on what it holds.
ReadAndApply(c) ==
    /\ pc[c] = "file_lock"
    /\ fileLock = NoOne
    /\ disk # Corrupt
    /\ Accepts(disk, req[c])
    /\ fileLock' = c
    /\ clock' = clock + 1
    /\ staged' = [staged EXCEPT ![c] = Apply(disk, req[c], clock + 1)]
    /\ pc' = [pc EXCEPT ![c] = "commit"]
    /\ UNCHANGED <<disk, up, data, ioLock, committed, req, attached, syncVars,
                   boundVars>>

\* Mutant: the error path keeps io_lock.
MutateFails_KeepsIoLock(c) ==
    /\ \/ pc[c] = "file_lock" /\ fileLock = NoOne
       \/ pc[c] = "commit"
    /\ fileLock' = IF fileLock = c THEN NoOne ELSE fileLock
    /\ staged' = [staged EXCEPT ![c] = None]
    /\ pc' = [pc EXCEPT ![c] = "failed"]
    /\ UNCHANGED <<disk, clock, up, data, ioLock, committed, req, attached,
                   syncVars, boundVars>>

\* The file does not parse, the closure returns an error, or an I/O call
\* before the rename fails: nothing was written.
MutateFails(c) ==
    /\ \/ pc[c] = "file_lock" /\ fileLock = NoOne
       \/ pc[c] = "commit"
    /\ fileLock' = IF fileLock = c THEN NoOne ELSE fileLock
    /\ staged' = [staged EXCEPT ![c] = None]
    /\ pc' = [pc EXCEPT ![c] = "failed"]
    /\ ReleaseIoLock(c)
    /\ UNCHANGED <<disk, clock, up, data, committed, req, attached, syncVars,
                   boundVars>>

\* Every watcher that runs is told that the file changed.
Notify == event' = [p \in Procs |-> event[p] \/ (p \in up /\ mode[p] = "watch")]

\* AtomicWriteFile::commit renames the temporary file, then the sidecar lock
\* is released.
CommitFile(c) ==
    /\ pc[c] = "commit"
    /\ disk' = staged[c]
    /\ fileLock' = NoOne
    /\ Notify
    /\ pc' = [pc EXCEPT ![c] = IF attached[c] THEN "record" ELSE "abandoned"]
    /\ staged' = [staged EXCEPT ![c] = IF attached[c] THEN @ ELSE None]
    /\ UNCHANGED <<clock, up, data, ioLock, committed, req, attached, mode,
                   syncPc, raw, boundVars>>

RecordHash(c) ==
    /\ pc[c] = "record"
    /\ committed' = [committed EXCEPT ![ProcOf[c]] = staged[c]]
    /\ pc' = [pc EXCEPT ![c] = "publish"]
    /\ UNCHANGED <<storeVars, up, data, ioLock, req, staged, attached, syncVars,
                   boundVars>>

\* self.data.store(snapshot), and the operation returns Ok.
PublishSnapshot(c) ==
    /\ pc[c] = "publish"
    /\ data' = [data EXCEPT ![ProcOf[c]] = staged[c]]
    /\ ReleaseIoLock(c)
    /\ staged' = [staged EXCEPT ![c] = None]
    /\ pc' = [pc EXCEPT ![c] = "returned"]
    /\ UNCHANGED <<storeVars, up, committed, req, attached, syncVars,
                   boundVars>>

\* The future of the call is dropped at one of its await points (the client
\* of the HTTP request went away).  Waiting for the lock it just ends; the
\* blocking task of a call that got further runs on without it.
Drop(c) ==
    /\ pc[c] \in {"io_lock", "file_lock", "commit", "record"}
    /\ attached[c]
    /\ attached' = [attached EXCEPT ![c] = FALSE]
    /\ pc' = [pc EXCEPT ![c] =
                 IF @ \in {"io_lock", "record"} THEN "abandoned" ELSE @]
    /\ staged' = [staged EXCEPT ![c] = IF pc[c] = "record" THEN None ELSE @]
    /\ ioLock' = [ioLock EXCEPT ![ProcOf[c]] = IF @ = c THEN NoOne ELSE @]
    /\ UNCHANGED <<storeVars, up, data, committed, req, syncVars, boundVars>>

----------------------------------------------------------------------------
(* The sync task: run_debounced_watch, run_poll_loop, reload_if_external.  *)

\* The debouncer watches the parent directory, or polling takes over.  What
\* was written between load and this step raises no event.
StartWatch(p) ==
    /\ p \in up /\ mode[p] = "starting"
    /\ mode' = [mode EXCEPT ![p] = IF p \in PollOnly THEN "poll" ELSE "watch"]
    /\ UNCHANGED <<storeVars, up, data, ioLock, committed, callVars, event,
                   syncPc, raw, boundVars>>

PollTick(p) ==
    /\ p \in up /\ mode[p] = "poll" /\ ~event[p] /\ syncPc[p] = "wait"
    /\ event' = [event EXCEPT ![p] = TRUE]
    /\ UNCHANGED <<storeVars, up, data, ioLock, committed, callVars, mode,
                   syncPc, raw, boundVars>>

\* rx.recv or ticker.tick completes.
ReceiveEvent(p) ==
    /\ p \in up /\ event[p] /\ syncPc[p] = "wait"
    /\ event' = [event EXCEPT ![p] = FALSE]
    /\ syncPc' = [syncPc EXCEPT ![p] = "read"]
    /\ UNCHANGED <<storeVars, up, data, ioLock, committed, callVars, mode, raw,
                   boundVars>>

\* read_raw_file_with_lock holds the sidecar lock shared.
ReadRaw(p) ==
    /\ p \in up /\ syncPc[p] = "read"
    /\ fileLock = NoOne
    /\ raw' = [raw EXCEPT ![p] = disk]
    /\ syncPc' = [syncPc EXCEPT ![p] = "check"]
    /\ UNCHANGED <<storeVars, up, data, ioLock, committed, callVars, mode,
                   event, boundVars>>

\* reload_if_external returns; the bytes it read are gone.
ReloadReturns(p) ==
    /\ syncPc' = [syncPc EXCEPT ![p] = "wait"]
    /\ raw' = [raw EXCEPT ![p] = None]

\* Mutant: the marker survives the match, and every later read is skipped.
SkipOwnWrite_KeepsMarker(p) ==
    /\ p \in up /\ syncPc[p] = "check"
    /\ committed[p] = raw[p]
    /\ ReloadReturns(p)
    /\ UNCHANGED <<storeVars, up, data, ioLock, committed, callVars, mode, event,
                   boundVars>>

\* The self-write marker is compared and, on a match, cleared.
SkipOwnWrite(p) ==
    /\ p \in up /\ syncPc[p] = "check"
    /\ committed[p] = raw[p]
    /\ committed' = [committed EXCEPT ![p] = None]
    /\ ReloadReturns(p)
    /\ UNCHANGED <<storeVars, up, data, ioLock, callVars, mode, event, boundVars>>

\* Not the recorded write: parse the bytes, or give up on them.
ParseExternal(p) ==
    /\ p \in up /\ syncPc[p] = "check"
    /\ committed[p] # raw[p]
    /\ IF raw[p] = Corrupt
       THEN ReloadReturns(p)
       ELSE syncPc' = [syncPc EXCEPT ![p] = "compare"] /\ UNCHANGED raw
    /\ UNCHANGED <<storeVars, up, data, ioLock, committed, callVars, mode,
                   event, boundVars>>

CompareSnapshot(p) ==
    /\ p \in up /\ syncPc[p] = "compare"
    /\ IF data[p] = raw[p]
       THEN ReloadReturns(p)
       ELSE syncPc' = [syncPc EXCEPT ![p] = "store"] /\ UNCHANGED raw
    /\ UNCHANGED <<storeVars, up, data, ioLock, committed, callVars, mode,
                   event, boundVars>>

StoreReloaded(p) ==
    /\ p \in up /\ syncPc[p] = "store"
    /\ data' = [data EXCEPT ![p] = raw[p]]
    /\ ReloadReturns(p)
    /\ UNCHANGED <<storeVars, up, ioLock, committed, callVars, mode, event,
                   boundVars>>

----------------------------------------------------------------------------
(* The environment: other programs write the file, processes crash.        *)

ExternalEdit(d) ==
    /\ edits < MaxEdits
    /\ fileLock = NoOne
    /\ disk' = d
    /\ edits' = edits + 1
    /\ Notify
    /\ UNCHANGED <<clock, fileLock, up, data, ioLock, committed, callVars,
                   mode, syncPc, raw, crashes>>

\* The kernel drops the locks of a process that dies; a rename that did not
\* happen leaves the old file.
Crash(p) ==
    LET lost == {c \in Callers : ProcOf[c] = p /\
                    pc[c] \notin {"idle", "returned", "failed"}}
    IN  /\ p \in up
        /\ crashes < MaxCrashes
        /\ crashes' = crashes + 1
        /\ up' = up \ {p}
        /\ fileLock' = IF fileLock \in lost THEN NoOne ELSE fileLock
        /\ ioLock' = [ioLock EXCEPT ![p] = NoOne]
        /\ pc' = [c \in Callers |-> IF c \in lost THEN "abandoned" ELSE pc[c]]
        /\ staged' = [c \in Callers |-> IF c \in lost THEN None ELSE staged[c]]
        /\ committed' = [committed EXCEPT ![p] = None]
        /\ mode' = [mode EXCEPT ![p] = "starting"]
        /\ event' = [event EXCEPT ![p] = FALSE]
        /\ ReloadReturns(p)
        /\ UNCHANGED <<disk, clock, data, req, attached, edits>>

\* CredsManageStore::load; it fails on a file that does not parse.
Load(p) ==
    /\ p \notin up
    /\ fileLock = NoOne
    /\ disk # Corrupt
    /\ up' = up \cup {p}
    /\ data' = [data EXCEPT ![p] = disk]
    /\ UNCHANGED <<storeVars, ioLock, committed, callVars, syncVars, boundVars>>

----------------------------------------------------------------------------
CallStep(c) ==
    \/ AcquireIoLock(c) \/ ReadAndApply(c) \/ MutateFails(c)
    \/ CommitFile(c) \/ RecordHash(c) \/ PublishSnapshot(c)

SyncStep(p) ==
    \/ StartWatch(p) \/ PollTick(p) \/ ReceiveEvent(p) \/ ReadRaw(p)
    \/ SkipOwnWrite(p) \/ ParseExternal(p) \/ CompareSnapshot(p)
    \/ StoreReloaded(p)

Next ==
    \/ \E c \in Callers : \/ \E r \in Inputs : Call(c, r)
                          \/ CallStep(c)
                          \/ Drop(c)
    \/ \E p \in Procs : SyncStep(p) \/ Crash(p) \/ Load(p)
    \/ \E d \in Edits : ExternalEdit(d)

Spec == Init /\ [][Next]_vars

\* tokio runs every task that is ready; io_lock is a fair queue.  Nothing is
\* assumed of callers, crashes, edits, or of a failing I/O call.
Fairness ==
    /\ \A c \in Callers :
          /\ WF_vars(AcquireIoLock(c))
          /\ WF_vars(ReadAndApply(c) \/ MutateFails(c))
          /\ WF_vars(CommitFile(c))
          /\ WF_vars(RecordHash(c))
          /\ WF_vars(PublishSnapshot(c))
    /\ \A p \in Procs : WF_vars(SyncStep(p))

FairSpec == Spec /\ Fairness

----------------------------------------------------------------------------
(* Properties.                                                             *)

CallStates ==
    {"idle", "io_lock", "file_lock", "commit", "record", "publish",
     "returned", "failed", "abandoned"}

\* Every variable has its type.
TypeOK ==
    /\ disk \in Contents
    /\ clock \in Nat
    /\ fileLock \in Callers \cup {NoOne}
    /\ up \subseteq Procs
    /\ data \in [Procs -> DataFile]
    /\ ioLock \in [Procs -> Callers \cup {NoOne}]
    /\ committed \in [Procs -> {None} \cup DataFile]
    /\ pc \in [Callers -> CallStates]
    /\ req \in [Callers -> Inputs \cup {NoRequest}]
    /\ staged \in [Callers -> {None} \cup DataFile]
    /\ attached \in [Callers -> BOOLEAN]
    /\ mode \in [Procs -> {"starting", "watch", "poll"}]
    /\ event \in [Procs -> BOOLEAN]
    /\ syncPc \in [Procs -> {"wait", "read", "check", "compare", "store"}]
    /\ raw \in [Procs -> {None} \cup Contents]
    /\ edits \in 0..MaxEdits
    /\ crashes \in 0..MaxCrashes

\* Whatever the interleaving of callers, processes, dropped calls, crashes
\* and edits, the file a store can parse, and the snapshot every reader of
\* the store sees, has unique entry names, unique group names and no
\* reference to a group that does not exist.
FileWellFormed ==
    /\ disk # Corrupt => WellFormed(disk)
    /\ \A p \in Procs : WellFormed(data[p])

\* The file changes only by one accepted request applied to what the file
\* held, or by an edit from outside: no store overwrites an update of another
\* call or of another process that it has not read.
SerialFile == INSTANCE CredsFileSerial WITH file <- disk
NoLostUpdate == SerialFile!Spec

\* A call of a store operation that waits for io_lock ends, whichever other
\* calls fail, are dropped or crash while they hold one of the two locks.
CallsEnd ==
    \A c \in Callers :
        pc[c] = "io_lock" ~> pc[c] \in {"returned", "failed", "abandoned"}

\* Polling brings every running store to the content of the file once the
\* file stays as it is, whatever the marker made it skip before.
PollingSynchronizes ==
    <>[](disk # Corrupt => \A p \in up : data[p] = disk)

\* The store makes progress: its calls and its polling.
StoreMakesProgress == CallsEnd /\ PollingSynchronizes

\* The documentation of CredsManageStore: "The store keeps an in-memory
\* snapshot and synchronizes it with disk".  Once no call is under way and
\* the sync task has handled every event, the snapshot is the file.
SynchronizedAtRest ==
    (/\ \A c \in Callers : pc[c] \in {"idle", "returned", "failed"}
     /\ \A p \in Procs : mode[p] # "starting" /\ ~event[p] /\ syncPc[p] = "wait"
     /\ disk # Corrupt)
    => \A p \in up : data[p] = disk

=============================================================================
