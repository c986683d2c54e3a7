----------------------------- MODULE RocksStore -----------------------------
(***************************************************************************)
(* How Cube Store keeps its metastore (and its cache store) beyond the     *)
(* life of a process: metastore/rocks_store.rs and metastore/rocks_fs.rs.  *)
(* Writes go to a local RocksDB.  One loop uploads them to remote storage: *)
(* as logs, in the directory of the last checkpoint, and now and then as a *)
(* checkpoint (a snapshot of all files), after which the file              *)
(* "metastore-current" names it and older snapshots are deleted.  A        *)
(* process that starts without a local copy downloads the current snapshot *)
(* and replays its logs.                                                   *)
(*                                                                         *)
(* Writes are numbered; write w sets the key KeyOf[w].  Time is abstract:  *)
(* the interval between checkpoints may or may not have elapsed, and a     *)
(* snapshot, named by its time in the code, is numbered.                   *)
(***************************************************************************)
EXTENDS Naturals, FiniteSets, SequencesExt

CONSTANTS
    Key, KeyOf,      \* what write w sets
    MaxWrites,       \* bound: writes ever made
    MaxCheckpoints,  \* bound: checkpoints ever begun
    LogEnabled,      \* RocksStoreDetails::log_enabled (TRUE for the metastore)
    LogLimit,        \* writes that fit into one log (meta_store_log_upload_size_limit)
    MinSnapshots,    \* minimum_metastore_snapshots_count
    Failing,         \* steps of the uploads that may fail
    Crashes,         \* ways in which a process may die
    Operator         \* states of the snapshots an operator makes current

Id == 1 .. MaxCheckpoints

ASSUME RocksStoreAssumption ==
    /\ MaxWrites \in Nat /\ MaxCheckpoints \in Nat
    /\ KeyOf \in [1 .. MaxWrites -> Key]
    /\ LogEnabled \in BOOLEAN
    /\ LogLimit \in Nat \ {0}
    /\ MinSnapshots \in Nat
    /\ Failing \subseteq {"log", "files", "current", "delete"}
    /\ Crashes \subseteq {"diskLost", "diskKept", "recoveryKept"}
    /\ Operator \subseteq {"complete", "partial"}

VARIABLES
    pc,                \* where the process is: serving, in its upload loop, or starting
    hist,              \* the writes the local database has applied, in order
    disk,              \* the local copy: "none", "partial" (directory made), "whole"
    lastUpload,        \* last_upload_seq
    lastCheck,         \* last_check_seq
    snapshotUploaded,  \* snapshot_uploaded
    checkpointTime,    \* last_checkpoint_time
    stopped,           \* snapshots_upload_stopped
    log,               \* the log being uploaded or, at a start, replayed last
    checkpoint,        \* the checkpoint being uploaded
    snapState,         \* remote: files of each snapshot
    snap,              \* remote: their content
    logs,              \* remote: the logs in each snapshot's directory
    current,           \* remote: the snapshot metastore-current names, or 0
    known,             \* the same by the local copy of metastore-current
    written,           \* how many writes were ever made
    states,            \* ghost: every content the store ever had
    chosen,            \* ghost: current was last set by an operator
    givenUp            \* ghost: checkpoints that failed while logs go on beside them

local == <<hist, disk, known>>
upload == <<lastUpload, lastCheck, snapshotUploaded, checkpointTime, stopped, log, checkpoint>>
remote == <<snapState, snap, logs, current>>
ghost == <<written, states, chosen, givenUp>>
vars == <<pc, local, upload, remote, ghost>>

NoLog == [first |-> 0, writes |-> <<>>]

\* What a database holds after the writes of s: for each key its last write.
Content(s) ==
    [k \in Key |-> LET at == {i \in DOMAIN s : KeyOf[s[i]] = k}
                   IN  IF at = {} THEN 0 ELSE s[Max(at)]]

Recovering == pc \in {"loading", "replaying"}
Serving == pc \notin {"down", "loading", "replaying"}
\* upload_check_point holds the lock on snapshots_upload_stopped
Checkpointing == pc \in {"files", "current", "delete"}

\* A step that may fail ends well or, if the run allows it, does not.
Outcome(step) == {TRUE} \cup (IF step \in Failing THEN {FALSE} ELSE {})

\* A failed checkpoint or a crash uses up a number that a bounded run needs
\* to try again.
MayRetry == checkpointTime < MaxCheckpoints

-----------------------------------------------------------------------------
Init ==
    /\ pc = "down" /\ hist = <<>> /\ disk = "none"
    /\ lastUpload = 0 /\ lastCheck = 0 /\ snapshotUploaded = FALSE
    /\ checkpointTime = 0 /\ stopped = FALSE
    /\ log = NoLog /\ checkpoint = <<>>
    /\ snapState = [t \in Id |-> "none"] /\ snap = [t \in Id |-> <<>>]
    /\ logs = [t \in Id |-> {}] /\ current = 0 /\ known = 0
    /\ written = 0 /\ states = {Content(<<>>)} /\ chosen = FALSE /\ givenUp = {}

-----------------------------------------------------------------------------
(* Start and recovery.                                                     *)

\* The positions of the database before are kept.
OpenKeepsSeqs(s) ==
    /\ hist' = s
    /\ disk' = "whole"
    /\ snapshotUploaded' = FALSE /\ stopped' = FALSE
    /\ log' = NoLog /\ checkpoint' = <<>>
    /\ UNCHANGED <<known, lastUpload, lastCheck, checkpointTime, remote, written, chosen, givenUp>>

\* RocksStore::new over a database that has applied s.
Open(s) ==
    /\ hist' = s
    /\ disk' = "whole"
    /\ lastUpload' = Len(s) /\ lastCheck' = Len(s)
    /\ snapshotUploaded' = FALSE /\ stopped' = FALSE
    /\ log' = NoLog /\ checkpoint' = <<>>
    /\ UNCHANGED <<known, checkpointTime, remote, written, chosen, givenUp>>

\* load_from_remote: an existing directory is used as it is; without one
\* metastore-current is downloaded and its snapshot is loaded, if there is any.
Start ==
    /\ pc = "down"
    /\ IF disk = "none" /\ current # 0
       THEN /\ pc' = "loading" /\ disk' = "partial" /\ known' = current
            /\ UNCHANGED <<hist, upload, remote, ghost>>
       ELSE /\ pc' = "idle"
            /\ Open(IF disk = "whole" THEN hist ELSE <<>>)
            /\ UNCHANGED states

\* The snapshot's files are there, and the database is opened on them.
Load ==
    /\ pc = "loading"
    /\ pc' = "replaying"
    /\ Open(snap[current])
    /\ UNCHANGED states

NextLogs == {l \in logs[current] : l.first > log.first}

\* The start does without the logs.
ReplayNothing ==
    /\ pc = "replaying"
    /\ pc' = "idle" /\ states' = states \cup {Content(hist)}
    /\ UNCHANGED <<local, upload, remote, written, chosen, givenUp>>

\* load_metastore_logs: the logs of the snapshot are applied in the order of
\* their first write; then the store serves.
Replay ==
    /\ pc = "replaying"
    /\ IF NextLogs = {}
       THEN /\ pc' = "idle" /\ states' = states \cup {Content(hist)}
            /\ UNCHANGED <<hist, log>>
       ELSE \E l \in NextLogs :
               /\ \A m \in NextLogs : l.first <= m.first
               /\ hist' = hist \o l.writes /\ log' = l
               /\ UNCHANGED <<pc, states>>
    /\ UNCHANGED <<disk, known, lastUpload, lastCheck, snapshotUploaded, checkpointTime,
                   stopped, checkpoint, remote, written, chosen, givenUp>>

\* The process dies, and its disk may or may not be there at the next start.
\* What was being uploaded as a snapshot may be there in part.
Crash(kind) ==
    /\ pc # "down" /\ MayRetry
    /\ kind = "diskKept" => Serving
    /\ kind = "recoveryKept" => Recovering
    /\ pc' = "down"
    /\ disk' = IF kind = "diskLost" THEN "none" ELSE disk
    /\ known' = IF kind = "diskLost" THEN 0 ELSE known
    /\ \/ UNCHANGED snapState
       \/ /\ pc = "files"
          /\ snapState' = [snapState EXCEPT ![checkpointTime] = "partial"]
    /\ UNCHANGED <<hist, upload, snap, logs, current, ghost>>

-----------------------------------------------------------------------------
(* Writes and uploads.                                                     *)

\* write_operation: one batch on the read-write loop.
Write ==
    /\ Serving /\ written < MaxWrites
    /\ written' = written + 1
    /\ hist' = Append(hist, written')
    /\ states' = states \cup {Content(hist')}
    /\ UNCHANGED <<pc, disk, known, upload, remote, chosen, givenUp>>

\* Compares with the wrong position.
NothingSinceUpload == lastUpload = Len(hist)

\* run_upload returns early.
NothingToUpdate == lastCheck = Len(hist)

\* get_updates_since(last_upload_seq) up to the size limit.
NextUpload ==
    IF ~ LogEnabled THEN NoLog
    ELSE LET last == Min({Len(hist), lastUpload + LogLimit})
         IN  [first |-> lastUpload + 1, writes |-> SubSeq(hist, lastUpload + 1, last)]

\* run_upload, up to the upload of the log.  Without a snapshot nothing is
\* uploaded, but last_upload_seq goes on.
BeginUpload ==
    /\ pc = "idle" /\ ~ NothingToUpdate
    /\ log' = NextUpload
    /\ IF snapshotUploaded /\ log'.writes # <<>>
       THEN pc' = "log" /\ UNCHANGED lastUpload
       ELSE pc' = "due" /\ lastUpload' = lastUpload + Len(log'.writes)
    /\ UNCHANGED <<local, lastCheck, snapshotUploaded, checkpointTime, stopped,
                   checkpoint, remote, ghost>>

\* Counts the log as uploaded although it is not.
AfterLogForgetsFailure(ok) ==
    /\ pc' = (IF ok THEN "due" ELSE "idle")
    /\ lastUpload' = lastUpload + Len(log.writes)

\* Only an upload that ended well moves last_upload_seq on.
AfterLog(ok) ==
    IF ok THEN pc' = "due" /\ lastUpload' = lastUpload + Len(log.writes)
          ELSE pc' = "idle" /\ UNCHANGED lastUpload

\* upload_log: a file named by the log's first write, in the directory of the
\* last checkpoint.  A failed upload may have stored the file.
UploadLog(ok) ==
    /\ pc = "log"
    /\ \/ logs' = [logs EXCEPT ![checkpointTime] =
                     {l \in @ : l.first # log.first} \cup {log}]
       \/ ~ ok /\ UNCHANGED logs
    /\ AfterLog(ok)
    /\ UNCHANGED <<local, lastCheck, snapshotUploaded, checkpointTime, stopped,
                   log, checkpoint, snapState, snap, current, ghost>>

\* The snapshot interval has not elapsed, or uploads are stopped.
NotDue ==
    /\ pc = "due"
    /\ pc' = "idle"
    /\ UNCHANGED <<local, upload, remote, ghost>>

\* upload_check_point: the time is set first, then the checkpoint is made.
BeginCheckpoint ==
    /\ pc = "due" /\ ~ stopped /\ checkpointTime < MaxCheckpoints
    /\ pc' = "files"
    /\ checkpointTime' = checkpointTime + 1
    /\ checkpoint' = hist
    /\ UNCHANGED <<local, lastUpload, lastCheck, snapshotUploaded, stopped, log,
                   remote, ghost>>

\* A checkpoint of which a step fails is given up, but not its time, nor the
\* flags of the one before: logs go on, from the same position, in its directory.
GiveUpUnless(ok) ==
    givenUp' = IF ok \/ ~ snapshotUploaded THEN givenUp ELSE givenUp \cup {checkpointTime}

\* upload_snapsots_files: all files are tried; one that fails leaves the rest.
\* upload_file may fail after the file was stored, and so even all may be there.
UploadFiles(ok) ==
    /\ pc = "files" /\ (ok \/ MayRetry)
    /\ pc' = IF ok THEN "current" ELSE "idle"
    /\ \/ /\ snapState' = [snapState EXCEPT ![checkpointTime] = "complete"]
          /\ snap' = [snap EXCEPT ![checkpointTime] = checkpoint]
       \/ /\ ~ ok
          /\ snapState' \in {snapState, [snapState EXCEPT ![checkpointTime] = "partial"]}
          /\ UNCHANGED snap
    /\ GiveUpUnless(ok)
    /\ UNCHANGED <<local, upload, logs, current, written, states, chosen>>

\* write_metastore_current: one that fails may have stored the remote file, and
\* then the local one.
NameCurrent(t, ok, byOperator) ==
    \/ current' = t /\ known' = t /\ chosen' = byOperator
    \/ ~ ok /\ current' = t /\ chosen' = byOperator /\ UNCHANGED known
    \/ ~ ok /\ UNCHANGED <<current, known, chosen>>

WriteCurrent(ok) ==
    /\ pc = "current" /\ (ok \/ MayRetry)
    /\ pc' = IF ok THEN "delete" ELSE "idle"
    /\ NameCurrent(checkpointTime, ok, FALSE)
    /\ GiveUpUnless(ok)
    /\ UNCHANGED <<hist, disk, upload, snapState, snap, logs, written, states>>

\* delete_old_snapshots counts every directory of a snapshot, its logs' too.
Stored == {t \in Id : snapState[t] # "none" \/ logs[t] # {}}

\* Without the floor of one.
KeptUnforced(t) == Cardinality({u \in Stored : u > t}) < MinSnapshots

\* The newest MinSnapshots of them, and at least one, are kept.
Kept(t) == Cardinality({u \in Stored : u > t}) < Max({1, MinSnapshots})

\* Leaves last_upload_seq behind the checkpoint.
CheckpointUploadedKeepsSeq ==
    /\ snapshotUploaded' = TRUE
    /\ lastCheck' = Len(checkpoint) /\ UNCHANGED lastUpload

\* upload_check_point, once everything is uploaded
CheckpointUploaded ==
    /\ snapshotUploaded' = TRUE
    /\ lastCheck' = Len(checkpoint) /\ lastUpload' = Len(checkpoint)

\* Those older than their lifetime, which ends at some cut, are deleted; then
\* the flags are set.  A failure leaves files behind, and the flags alone.
DeleteOldSnapshots(ok) ==
    /\ pc = "delete" /\ (ok \/ MayRetry)
    /\ pc' = "idle"
    /\ \E cut \in 1 .. MaxCheckpoints + 1 :
         LET old == {t \in Stored : t < cut /\ ~ Kept(t)}
         IN  /\ snapState' = [t \in Id |-> IF t \notin old THEN snapState[t]
                                           ELSE IF ok THEN "none" ELSE "partial"]
             /\ snap' = [t \in Id |-> IF t \in old THEN <<>> ELSE snap[t]]
             /\ logs' = [t \in Id |-> IF t \in old THEN {} ELSE logs[t]]
    /\ IF ok THEN CheckpointUploaded
             ELSE UNCHANGED <<snapshotUploaded, lastCheck, lastUpload>>
    /\ GiveUpUnless(ok)
    /\ UNCHANGED <<local, checkpointTime, stopped, log, checkpoint, current,
                   written, states, chosen>>

\* set_current_snapshot: any snapshot of which there are files, but not the one
\* that is current by the local copy; unless it fails, it ends the uploads of
\* checkpoints.
SetCurrentSnapshot(t, ok) ==
    /\ Serving /\ ~ Checkpointing /\ (ok \/ MayRetry)
    /\ snapState[t] \in Operator /\ t # known
    /\ NameCurrent(t, ok, TRUE)
    /\ stopped' = (stopped \/ ok)
    /\ UNCHANGED <<pc, hist, disk, lastUpload, lastCheck, snapshotUploaded, checkpointTime,
                   log, checkpoint, snapState, snap, logs, written, states, givenUp>>

Next ==
    \/ Start \/ Load \/ Replay
    \/ \E kind \in Crashes : Crash(kind)
    \/ Write
    \/ BeginUpload
    \/ \E ok \in Outcome("log") : UploadLog(ok)
    \/ NotDue \/ BeginCheckpoint
    \/ \E ok \in Outcome("files") : UploadFiles(ok)
    \/ \E ok \in Outcome("current") : WriteCurrent(ok)
    \/ \E ok \in Outcome("delete") : DeleteOldSnapshots(ok)
    \/ \E t \in Id, ok \in Outcome("current") : SetCurrentSnapshot(t, ok)

\* The upload loop runs; the interval between checkpoints elapses; no step
\* fails for ever.
Fairness ==
    /\ WF_vars(BeginUpload)
    /\ WF_vars(NotDue)
    /\ SF_vars(BeginCheckpoint)
    /\ SF_vars(UploadLog(TRUE))
    /\ SF_vars(UploadFiles(TRUE))
    /\ SF_vars(WriteCurrent(TRUE))
    /\ SF_vars(DeleteOldSnapshots(TRUE))

Spec == Init /\ [][Next]_vars
FairSpec == Spec /\ Fairness

-----------------------------------------------------------------------------
Writes == 1 .. MaxWrites
Log == [first : Nat, writes : Seq(Writes)]

\* Type invariant; the positions are within the database.
RTypeOK ==
    /\ pc \in {"down", "loading", "replaying", "idle", "log", "due", "files", "current", "delete"}
    /\ hist \in Seq(Writes)
    /\ disk \in {"none", "partial", "whole"}
    /\ lastUpload \in 0 .. Len(hist) /\ lastCheck \in 0 .. Len(hist)
    /\ snapshotUploaded \in BOOLEAN /\ stopped \in BOOLEAN /\ chosen \in BOOLEAN
    /\ checkpointTime \in 0 .. MaxCheckpoints
    /\ log \in Log /\ checkpoint \in Seq(Writes)
    /\ snapState \in [Id -> {"none", "partial", "complete"}]
    /\ snap \in [Id -> Seq(Writes)]
    /\ logs \in [Id -> SUBSET Log]
    /\ current \in 0 .. MaxCheckpoints /\ known \in 0 .. MaxCheckpoints
    /\ givenUp \subseteq Id
    /\ written \in 0 .. MaxWrites

\* The writes in the logs L: of each log the first, the second, ...
Logged(L) == UNION {{l} \X DOMAIN l.writes : l \in L}
Earlier(p, q) == p[1].first < q[1].first \/ (p[1].first = q[1].first /\ p[2] < q[2])

\* What a recovery applies: the writes s of a snapshot, and then those of the logs L
\* beside it, in the order of their names.
Recovered(s, L) ==
    LET At(n) == CHOOSE p \in Logged(L) : Cardinality({q \in Logged(L) : Earlier(q, p)}) = n - 1
    IN  s \o [n \in 1 .. Cardinality(Logged(L)) |-> At(n)[1].writes[At(n)[2]]]

\* The writes a process without a local copy would apply now.
Recoverable == IF current = 0 THEN <<>> ELSE Recovered(snap[current], logs[current])

\* metastore-current names a snapshot all of whose files are there, through
\* every failure, crash and deletion (rocks_fs.rs:490-503).
CurrentIsComplete == current # 0 => snapState[current] = "complete"

\* A snapshot and the logs in its directory make up a state the store once
\* was in, never a mixture of an old log and a newer snapshot
\* (rocks_store.rs:1152-1173, rocks_fs.rs:504-543).
RecoveryIsCommitted == Content(Recoverable) \in states

\* The same, unless a checkpoint of which a step failed while logs go on
\* beside it became current, by the failed step or by an operator
\* (rocks_store.rs:1152-1173, 1281-1315).
SettledIsCommitted == current \notin givenUp => RecoveryIsCommitted

\* What a live process counts as uploaded, when its last checkpoint is the
\* current snapshot and no step of it failed, can be recovered
\* (rocks_store.rs:1163-1174, 1305-1311).
UploadedIsRecoverable ==
    Serving /\ snapshotUploaded /\ current = checkpointTime /\ current \notin givenUp =>
        IsPrefix(SubSeq(hist, 1, lastUpload), Recoverable)

\* No failure, crash, deletion or restart makes a recovery lose a write it
\* would have brought back before; only an operator's choice may, and what
\* follows a checkpoint given up (rocks_fs.rs:490-503, rocks_store.rs:1281-1315).
RecoveryKeepsWrites ==
    [][ \/ chosen \/ chosen'
        \/ current \in givenUp
        \/ IsPrefix(Recoverable, Recoverable') ]_vars

\* A write that is in no checkpoint of its process gets to where a recovery
\* finds it, if the process lives and uploads are not stopped
\* (rocks_store.rs:1129-1195): a failed checkpoint is made up for by a later
\* one, although last_checkpoint_time is the new one already.
WritesReachRemote ==
    \A w \in Writes :
        Serving /\ (\E i \in lastCheck + 1 .. Len(hist) : hist[i] = w)
            ~> w \in Range(Recoverable) \/ stopped \/ pc = "down"
=============================================================================
