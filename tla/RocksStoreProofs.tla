-------------------------- MODULE RocksStoreProofs --------------------------
(***************************************************************************)
(* Theorems about RocksStore, for any number of writes and checkpoints,    *)
(* any limit of a log, any number of snapshots kept and any failures.      *)
(***************************************************************************)
EXTENDS RocksStore, FiniteSetTheorems, TLAPS

\* The larger of 1 and a number is at least 1.
LEMMA MaxOfOne ==
    ASSUME NEW n \in Nat
    PROVE  Max({1, n}) \in Nat /\ Max({1, n}) >= 1
  <1>1. \E x \in {1, n} : \A y \in {1, n} : x >= y
    <2>1. CASE n >= 1  BY <2>1
    <2>2. CASE n < 1   BY <2>2
    <2> QED BY <2>1, <2>2
  <1> QED BY <1>1 DEF Max

\* The smaller of two numbers is one of them, and no larger than either.
LEMMA MinOfTwo ==
    ASSUME NEW m \in Nat, NEW n \in Nat
    PROVE  Min({m, n}) \in {m, n} /\ Min({m, n}) <= m /\ Min({m, n}) <= n
  <1>1. \E x \in {m, n} : \A y \in {m, n} : x <= y
    <2>1. CASE m <= n  BY <2>1
    <2>2. CASE n < m   BY <2>2
    <2> QED BY <2>1, <2>2
  <1> QED BY <1>1 DEF Min

-----------------------------------------------------------------------------
(* Type correctness.                                                       *)

\* What the types need to be inductive: recovery has a snapshot to load, and
\* a log or checkpoint in hand is of writes the database has applied.
InHand ==
    /\ Recovering => current # 0
    /\ pc = "log" => lastUpload + Len(log.writes) <= Len(hist)
    /\ Checkpointing => Len(checkpoint) <= Len(hist) /\ checkpointTime \in Id

\* The log that is read next is of applied writes.
LEMMA NextUploadFits ==
    ASSUME RTypeOK
    PROVE  /\ NextUpload \in Log
           /\ lastUpload + Len(NextUpload.writes) <= Len(hist)
  <1> USE RocksStoreAssumption DEF Log
  <1> lastUpload \in Nat /\ Len(hist) \in Nat /\ lastUpload <= Len(hist) /\ hist \in Seq(Writes)
    BY DEF RTypeOK
  <1>1. CASE ~ LogEnabled
    BY <1>1 DEF NextUpload, NoLog
  <1>2. CASE LogEnabled
    <2> DEFINE last == Min({Len(hist), lastUpload + LogLimit})
    <2>1. last \in Nat /\ last <= Len(hist) /\ last >= lastUpload
      BY MinOfTwo
    <2> HIDE DEF last
    <2>2. NextUpload = [first |-> lastUpload + 1, writes |-> SubSeq(hist, lastUpload + 1, last)]
      BY <1>2 DEF NextUpload, last
    <2>3. /\ SubSeq(hist, lastUpload + 1, last) \in Seq(Writes)
          /\ Len(SubSeq(hist, lastUpload + 1, last)) = last - lastUpload
      BY <2>1
    <2> QED BY <2>1, <2>2, <2>3
  <1> QED BY <1>1, <1>2

\* Opening a database that has applied s.
LEMMA OpenType ==
    ASSUME RTypeOK, NEW s \in Seq(Writes), Open(s),
           pc' \in {"idle", "replaying"}, pc' = "replaying" => current # 0
    PROVE  RTypeOK' /\ InHand'
  <1>1. NoLog \in Log /\ <<>> \in Seq(Writes) /\ Len(s) \in Nat
    BY DEF NoLog, Log
  <1>2. /\ hist' = s /\ lastUpload' = Len(s) /\ lastCheck' = Len(s)
        /\ log' = NoLog /\ checkpoint' = <<>> /\ disk' = "whole"
        /\ snapshotUploaded' = FALSE /\ stopped' = FALSE /\ chosen' = chosen
        /\ known' = known /\ givenUp' = givenUp
        /\ checkpointTime' = checkpointTime /\ written' = written
        /\ snapState' = snapState /\ snap' = snap /\ logs' = logs /\ current' = current
    BY DEF Open, remote
  <1>3. RTypeOK'
    <2>1. chosen' \in BOOLEAN
      BY <1>2 DEF RTypeOK
    <2>2. snapState' \in [Id -> {"none", "partial", "complete"}]
      BY <1>2 DEF RTypeOK
    <2>3. snap' \in [Id -> Seq(Writes)] /\ logs' \in [Id -> SUBSET Log]
      BY <1>2 DEF RTypeOK
    <2>4. /\ hist' \in Seq(Writes) /\ log' \in Log /\ checkpoint' \in Seq(Writes)
          /\ lastUpload' \in 0 .. Len(hist') /\ lastCheck' \in 0 .. Len(hist')
      BY <1>1, <1>2
    <2>5. /\ snapshotUploaded' \in BOOLEAN /\ stopped' \in BOOLEAN
          /\ disk' \in {"none", "partial", "whole"}
          /\ checkpointTime' \in 0 .. MaxCheckpoints
          /\ current' \in 0 .. MaxCheckpoints /\ written' \in 0 .. MaxWrites
          /\ known' \in 0 .. MaxCheckpoints /\ givenUp' \subseteq Id
      BY <1>2 DEF RTypeOK
    <2>6. pc' \in {"down", "loading", "replaying", "idle", "log", "due", "files", "current", "delete"}
      OBVIOUS
    <2> QED BY <2>1, <2>2, <2>3, <2>4, <2>5, <2>6 DEF RTypeOK
  <1>4. InHand'
    BY <1>2 DEF InHand, Recovering, Checkpointing
  <1> QED BY <1>3, <1>4

\* Only a checkpoint that was begun is given up.
LEMMA GivenUpType ==
    ASSUME RTypeOK, InHand, Checkpointing, NEW ok, GiveUpUnless(ok)
    PROVE  givenUp' \subseteq Id
  BY DEF GiveUpUnless, InHand, RTypeOK

\* Every step keeps the types, and what InHand says.
LEMMA NextType ==
    ASSUME RTypeOK, InHand, [Next]_vars
    PROVE  RTypeOK' /\ InHand'
  <1> USE DEF local, upload, remote, ghost
  <1>1. CASE Start
    <2>1. CASE disk = "none" /\ current # 0
      BY <1>1, <2>1 DEF Start, RTypeOK, InHand, Recovering, Checkpointing
    <2>2. CASE ~ (disk = "none" /\ current # 0)
      <3> DEFINE s == IF disk = "whole" THEN hist ELSE <<>>
      <3>1. s \in Seq(Writes)
        BY DEF RTypeOK
      <3>2. Open(s) /\ pc' = "idle"
        BY <1>1, <2>2 DEF Start
      <3> HIDE DEF s
      <3> QED BY <3>1, <3>2, OpenType
    <2> QED BY <2>1, <2>2
  <1>2. CASE Load
    <2>1. current \in Id
      BY <1>2 DEF Load, InHand, Recovering, RTypeOK, Id
    <2>2. snap[current] \in Seq(Writes)
      BY <2>1 DEF RTypeOK
    <2>3. Open(snap[current]) /\ pc' = "replaying" /\ current # 0
      BY <1>2, <2>1 DEF Load, Id
    <2> QED BY <2>2, <2>3, OpenType
  <1>3. CASE Replay
    <2>1. current \in Id /\ pc = "replaying"
      BY <1>3 DEF Replay, InHand, Recovering, RTypeOK, Id
    <2>2. logs[current] \subseteq Log
      BY <2>1 DEF RTypeOK
    <2>3. CASE NextLogs = {}
      BY <1>3, <2>3 DEF Replay, RTypeOK, InHand, Recovering, Checkpointing
    <2>4. CASE NextLogs # {}
      <3>1. PICK l \in NextLogs : hist' = hist \o l.writes /\ log' = l /\ pc' = pc
        BY <1>3, <2>4 DEF Replay
      <3>2. l \in Log /\ l.writes \in Seq(Writes)
        BY <2>2, <3>1 DEF NextLogs, Log
      <3>3. hist' \in Seq(Writes) /\ Len(hist') >= Len(hist)
        BY <3>1, <3>2 DEF RTypeOK
      <3>4. UNCHANGED <<disk, known, lastUpload, lastCheck, snapshotUploaded, checkpointTime,
                   stopped, checkpoint, remote, written, chosen, givenUp>>
        BY <1>3 DEF Replay
      <3>5. lastUpload' \in 0 .. Len(hist') /\ lastCheck' \in 0 .. Len(hist')
        BY <3>3, <3>4 DEF RTypeOK
      <3> QED BY <2>1, <3>1, <3>2, <3>3, <3>4, <3>5 DEF RTypeOK, InHand, Recovering, Checkpointing
    <2> QED BY <2>3, <2>4
  <1>4. ASSUME NEW kind \in Crashes, Crash(kind) PROVE RTypeOK' /\ InHand'
    <2>1. known' \in 0 .. MaxCheckpoints
      BY <1>4, RocksStoreAssumption DEF Crash, RTypeOK
    <2> QED BY <1>4, <2>1 DEF Crash, RTypeOK, InHand, Recovering, Checkpointing
  <1>5. CASE Write
    <2>1. written' \in 1 .. MaxWrites /\ written' = written + 1
      BY <1>5, RocksStoreAssumption DEF Write, RTypeOK
    <2>2. hist' \in Seq(Writes) /\ Len(hist') = Len(hist) + 1
      BY <1>5, <2>1 DEF Write, RTypeOK, Writes
    <2>3. UNCHANGED <<pc, disk, known, upload, remote, chosen, givenUp>>
      BY <1>5 DEF Write
    <2>4. lastUpload' \in 0 .. Len(hist') /\ lastCheck' \in 0 .. Len(hist')
      BY <2>2, <2>3 DEF RTypeOK
    <2>5. RTypeOK'
      BY <2>1, <2>2, <2>3, <2>4 DEF RTypeOK
    <2>6. InHand'
      BY <2>2, <2>3 DEF InHand, Recovering, Checkpointing, RTypeOK, Log
    <2> QED BY <2>5, <2>6
  <1>6. CASE BeginUpload
    <2>1. log' \in Log /\ lastUpload + Len(log'.writes) <= Len(hist) /\ Len(log'.writes) \in Nat
      BY <1>6, NextUploadFits DEF BeginUpload, Log
    <2>2. \/ pc' = "log" /\ lastUpload' = lastUpload
          \/ pc' = "due" /\ lastUpload' = lastUpload + Len(log'.writes)
      BY <1>6 DEF BeginUpload
    <2>3. UNCHANGED <<local, lastCheck, snapshotUploaded, checkpointTime, stopped,
                      checkpoint, remote, ghost>>
      BY <1>6 DEF BeginUpload
    <2>4. lastUpload' \in 0 .. Len(hist')
      BY <2>1, <2>2, <2>3 DEF RTypeOK
    <2>5. RTypeOK'
      BY <2>1, <2>2, <2>3, <2>4 DEF RTypeOK
    <2>6. InHand'
      BY <2>1, <2>2, <2>3 DEF InHand, Recovering, Checkpointing
    <2> QED BY <2>5, <2>6
  <1>7. ASSUME NEW ok \in Outcome("log"), UploadLog(ok) PROVE RTypeOK' /\ InHand'
    <2>1. logs' \in [Id -> SUBSET Log]
      BY <1>7 DEF UploadLog, RTypeOK
    <2>2. /\ pc = "log"
          /\ \/ pc' = "due" /\ lastUpload' = lastUpload + Len(log.writes)
             \/ pc' = "idle" /\ lastUpload' = lastUpload
      BY <1>7 DEF UploadLog, AfterLog
    <2>3. UNCHANGED <<local, lastCheck, snapshotUploaded, checkpointTime, stopped,
                      log, checkpoint, snapState, snap, current, ghost>>
      BY <1>7 DEF UploadLog
    <2>4. lastUpload' \in 0 .. Len(hist')
      BY <2>2, <2>3 DEF RTypeOK, InHand, Log
    <2>5. RTypeOK'
      BY <2>1, <2>2, <2>3, <2>4 DEF RTypeOK
    <2>6. InHand'
      BY <2>2 DEF InHand, Recovering, Checkpointing
    <2> QED BY <2>5, <2>6
  <1>8. CASE NotDue
    BY <1>8 DEF NotDue, RTypeOK, InHand, Recovering, Checkpointing
  <1>9. CASE BeginCheckpoint
    BY <1>9, RocksStoreAssumption DEF BeginCheckpoint, RTypeOK, InHand, Recovering, Checkpointing, Id
  <1>10. ASSUME NEW ok \in Outcome("files"), UploadFiles(ok) PROVE RTypeOK' /\ InHand'
    <2>1. CASE snapState' = [snapState EXCEPT ![checkpointTime] = "complete"] /\ snap' = [snap EXCEPT ![checkpointTime] = checkpoint]
      BY <1>10, <2>1, GivenUpType DEF UploadFiles, RTypeOK, InHand, Recovering, Checkpointing
    <2>2. CASE snap' = snap
      BY <1>10, <2>2, GivenUpType DEF UploadFiles, RTypeOK, InHand, Recovering, Checkpointing
    <2> QED BY <1>10, <2>1, <2>2 DEF UploadFiles
  <1>11. ASSUME NEW ok \in Outcome("current"), WriteCurrent(ok) PROVE RTypeOK' /\ InHand'
    BY <1>11, GivenUpType DEF WriteCurrent, NameCurrent, RTypeOK, InHand, Recovering, Checkpointing
  <1>12. ASSUME NEW ok \in Outcome("delete"), DeleteOldSnapshots(ok) PROVE RTypeOK' /\ InHand'
    <2>1. PICK cut \in 1 .. MaxCheckpoints + 1 :
             LET old == {t \in Stored : t < cut /\ ~ Kept(t)}
             IN  /\ snapState' = [t \in Id |-> IF t \notin old THEN snapState[t]
                                               ELSE IF ok THEN "none" ELSE "partial"]
                 /\ snap' = [t \in Id |-> IF t \in old THEN <<>> ELSE snap[t]]
                 /\ logs' = [t \in Id |-> IF t \in old THEN {} ELSE logs[t]]
      BY <1>12 DEF DeleteOldSnapshots
    <2>2. /\ snapState' \in [Id -> {"none", "partial", "complete"}]
          /\ snap' \in [Id -> Seq(Writes)]
          /\ logs' \in [Id -> SUBSET Log]
      BY <2>1 DEF RTypeOK
    <2>3. /\ snapshotUploaded' \in BOOLEAN
          /\ lastUpload' \in 0 .. Len(hist) /\ lastCheck' \in 0 .. Len(hist)
      <3>1. Len(checkpoint) \in 0 .. Len(hist)
        BY <1>12 DEF DeleteOldSnapshots, RTypeOK, InHand, Checkpointing
      <3>2. CheckpointUploaded \/ UNCHANGED <<snapshotUploaded, lastCheck, lastUpload>>
        BY <1>12 DEF DeleteOldSnapshots
      <3> QED BY <3>1, <3>2 DEF CheckpointUploaded, RTypeOK
    <2>4. UNCHANGED <<local, checkpointTime, stopped, log, checkpoint, current, written, states, chosen>> /\ pc' = "idle"
      BY <1>12 DEF DeleteOldSnapshots
    <2>5. givenUp' \subseteq Id
      BY <1>12, GivenUpType DEF DeleteOldSnapshots, Checkpointing
    <2> QED BY <2>2, <2>3, <2>4, <2>5 DEF RTypeOK, InHand, Recovering, Checkpointing
  <1>13. ASSUME NEW t \in Id, NEW ok \in Outcome("current"), SetCurrentSnapshot(t, ok) PROVE RTypeOK' /\ InHand'
    <2>1. /\ current' \in 0 .. MaxCheckpoints /\ known' \in 0 .. MaxCheckpoints /\ chosen' \in BOOLEAN
      <3>1. /\ current' = t \/ current' = current
            /\ known' = t \/ known' = known
            /\ chosen' = TRUE \/ chosen' = chosen
        BY <1>13 DEF SetCurrentSnapshot, NameCurrent
      <3>2. t \in 0 .. MaxCheckpoints
        BY RocksStoreAssumption DEF Id
      <3> QED BY <3>1, <3>2 DEF RTypeOK
    <2>2. stopped' \in BOOLEAN
      BY <1>13 DEF SetCurrentSnapshot, RTypeOK, Outcome
    <2>3. /\ Serving /\ ~ Checkpointing
          /\ UNCHANGED <<pc, hist, disk, lastUpload, lastCheck, snapshotUploaded, checkpointTime,
                         log, checkpoint, snapState, snap, logs, written, states, givenUp>>
      BY <1>13 DEF SetCurrentSnapshot
    <2>4. RTypeOK'
      BY <2>1, <2>2, <2>3 DEF RTypeOK
    <2> QED BY <2>3, <2>4 DEF InHand, Recovering, Checkpointing, Serving
  <1>14. CASE UNCHANGED vars
    BY <1>14 DEF vars, RTypeOK, InHand, Recovering, Checkpointing
  <1> QED BY <1>1, <1>2, <1>3, <1>4, <1>5, <1>6, <1>7, <1>8, <1>9, <1>10, <1>11, <1>12,
             <1>13, <1>14 DEF Next

\* The initial state: no process, an empty disk and empty remote storage.
LEMMA InitType ==
    ASSUME Init
    PROVE  RTypeOK /\ InHand
  <1>1. NoLog \in Log /\ <<>> \in Seq(Writes) /\ Len(<<>>) = 0
    BY DEF NoLog, Log
  <1>2. hist = <<>> /\ log = NoLog /\ checkpoint = <<>> /\ lastUpload = 0 /\ lastCheck = 0
    BY DEF Init
  <1>3. /\ hist \in Seq(Writes) /\ log \in Log /\ checkpoint \in Seq(Writes)
        /\ lastUpload \in 0 .. Len(hist) /\ lastCheck \in 0 .. Len(hist)
    BY <1>1, <1>2
  <1>4. /\ snapState \in [Id -> {"none", "partial", "complete"}]
        /\ snap \in [Id -> Seq(Writes)]
        /\ logs \in [Id -> SUBSET Log]
    BY <1>1 DEF Init
  <1>5. /\ checkpointTime \in 0 .. MaxCheckpoints /\ current \in 0 .. MaxCheckpoints
        /\ written \in 0 .. MaxWrites
    BY RocksStoreAssumption DEF Init
  <1>6. /\ pc \in {"down", "loading", "replaying", "idle", "log", "due", "files", "current", "delete"}
        /\ disk \in {"none", "partial", "whole"}
        /\ snapshotUploaded \in BOOLEAN /\ stopped \in BOOLEAN /\ chosen \in BOOLEAN
    BY DEF Init
  <1>9. known \in 0 .. MaxCheckpoints /\ givenUp \subseteq Id
    BY RocksStoreAssumption DEF Init
  <1>7. RTypeOK
    BY <1>3, <1>4, <1>5, <1>6, <1>9 DEF RTypeOK
  <1>8. InHand
    BY DEF Init, InHand, Recovering, Checkpointing
  <1> QED BY <1>7, <1>8

\* Writes, logs, snapshots and positions have their declared shapes, and the
\* positions up to which the store believes to have uploaded are within what
\* it has written (the state of rocks_store.rs:866-888).
THEOREM TypeCorrect == Spec => []RTypeOK
  <1>1. Init => RTypeOK /\ InHand
    BY InitType
  <1>2. RTypeOK /\ InHand /\ [Next]_vars => RTypeOK' /\ InHand'
    BY NextType
  <1> QED BY <1>1, <1>2, PTL DEF Spec

-----------------------------------------------------------------------------
(* The current snapshot.                                                   *)

\* Where each step of a checkpoint stands: nothing is stored under a time yet
\* to come, and metastore-current lags behind last_checkpoint_time until the
\* files of the new snapshot are all there.
SnapshotsInOrder ==
    /\ \A t \in Id : t > checkpointTime => snapState[t] = "none" /\ logs[t] = {}
    /\ current <= checkpointTime
    /\ pc = "files" => current # checkpointTime
    /\ pc = "current" => checkpointTime \in Id /\ snapState[checkpointTime] = "complete"
    /\ pc = "delete" => current = checkpointTime

\* The deletion of old snapshots spares the last checkpoint.
LEMMA LastCheckpointKept ==
    ASSUME RTypeOK, SnapshotsInOrder
    PROVE  Kept(checkpointTime)
  <1>1. {u \in Stored : u > checkpointTime} = {}
    BY DEF SnapshotsInOrder, Stored
  <1>2. Cardinality({u \in Stored : u > checkpointTime}) = 0
    BY <1>1, FS_EmptySet
  <1> QED BY <1>2, MaxOfOne, RocksStoreAssumption DEF Kept

\* If the operator picks complete snapshots only, every step keeps the order
\* and the current snapshot complete.
LEMMA NextSnapshots ==
    ASSUME Operator \subseteq {"complete"}, RTypeOK, InHand, SnapshotsInOrder,
           CurrentIsComplete, [Next]_vars
    PROVE  SnapshotsInOrder' /\ CurrentIsComplete'
  <1> USE DEF local, upload, remote, ghost, SnapshotsInOrder, CurrentIsComplete
  <1> checkpointTime \in 0 .. MaxCheckpoints /\ current \in 0 .. MaxCheckpoints /\ MaxCheckpoints \in Nat
    BY RocksStoreAssumption DEF RTypeOK
  <1> snapState \in [Id -> {"none", "partial", "complete"}] /\ logs \in [Id -> SUBSET Log]
    BY DEF RTypeOK
  <1>1. CASE Start
    BY <1>1 DEF Start, Open
  <1>2. CASE Load
    BY <1>2 DEF Load, Open
  <1>3. CASE Replay
    BY <1>3 DEF Replay
  <1>4. ASSUME NEW kind \in Crashes, Crash(kind) PROVE SnapshotsInOrder' /\ CurrentIsComplete'
    BY <1>4 DEF Crash, Id
  <1>5. CASE Write
    BY <1>5 DEF Write
  <1>6. CASE BeginUpload
    BY <1>6 DEF BeginUpload
  <1>7. ASSUME NEW ok \in Outcome("log"), UploadLog(ok) PROVE SnapshotsInOrder' /\ CurrentIsComplete'
    BY <1>7 DEF UploadLog, AfterLog
  <1>8. CASE NotDue
    BY <1>8 DEF NotDue
  <1>9. CASE BeginCheckpoint
    BY <1>9 DEF BeginCheckpoint, Id
  <1>10. ASSUME NEW ok \in Outcome("files"), UploadFiles(ok) PROVE SnapshotsInOrder' /\ CurrentIsComplete'
    BY <1>10 DEF UploadFiles, Id
  <1>11. ASSUME NEW ok \in Outcome("current"), WriteCurrent(ok) PROVE SnapshotsInOrder' /\ CurrentIsComplete'
    BY <1>11 DEF WriteCurrent, NameCurrent, Outcome, Id
  <1>12. ASSUME NEW ok \in Outcome("delete"), DeleteOldSnapshots(ok) PROVE SnapshotsInOrder' /\ CurrentIsComplete'
    <2>1. pc = "delete" /\ pc' = "idle" /\ current' = current /\ checkpointTime' = checkpointTime
      BY <1>12 DEF DeleteOldSnapshots
    <2>2. PICK old \in SUBSET Stored :
            /\ \A t \in old : ~ Kept(t)
            /\ snapState' = [t \in Id |-> IF t \notin old THEN snapState[t]
                                            ELSE IF ok THEN "none" ELSE "partial"]
            /\ logs' = [t \in Id |-> IF t \in old THEN {} ELSE logs[t]]
      <3>1. PICK cut \in 1 .. MaxCheckpoints + 1 :
              LET old == {t \in Stored : t < cut /\ ~ Kept(t)}
              IN  /\ snapState' = [t \in Id |-> IF t \notin old THEN snapState[t]
                                                ELSE IF ok THEN "none" ELSE "partial"]
                  /\ logs' = [t \in Id |-> IF t \in old THEN {} ELSE logs[t]]
        BY <1>12 DEF DeleteOldSnapshots
      <3> QED BY <3>1
    <2>3. checkpointTime \notin old
      BY <2>2, LastCheckpointKept
    <2>4. \A t \in Id : t > checkpointTime => t \notin old
      BY DEF Stored
    <2>5. \A t \in Id : t > checkpointTime => snapState'[t] = "none" /\ logs'[t] = {}
      BY <2>2, <2>4
    <2>6. current # 0 => snapState'[current] = "complete"
      BY <2>1, <2>2, <2>3 DEF Id
    <2> QED BY <2>1, <2>5, <2>6
  <1>13. ASSUME NEW t \in Id, NEW ok \in Outcome("current"), SetCurrentSnapshot(t, ok)
         PROVE  SnapshotsInOrder' /\ CurrentIsComplete'
    BY <1>13 DEF SetCurrentSnapshot, NameCurrent, Checkpointing, Id
  <1>14. CASE UNCHANGED vars
    BY <1>14 DEF vars
  <1> QED BY <1>1, <1>2, <1>3, <1>4, <1>5, <1>6, <1>7, <1>8, <1>9, <1>10, <1>11, <1>12,
             <1>13, <1>14 DEF Next

\* metastore-current always names a snapshot all of whose files are there,
\* whatever fails, crashes or is deleted, as long as an operator does not
\* make an incomplete one current (rocks_fs.rs:189-337, 490-503).
THEOREM CurrentStaysComplete ==
    ASSUME Operator \subseteq {"complete"}
    PROVE  Spec => []CurrentIsComplete
  <1>1. Init => RTypeOK /\ InHand /\ SnapshotsInOrder /\ CurrentIsComplete
    <2>1. Init => SnapshotsInOrder /\ CurrentIsComplete
      BY DEF Init, SnapshotsInOrder, CurrentIsComplete
    <2> QED BY <2>1, InitType
  <1>2. RTypeOK /\ InHand /\ SnapshotsInOrder /\ CurrentIsComplete /\ [Next]_vars
          => RTypeOK' /\ InHand' /\ SnapshotsInOrder' /\ CurrentIsComplete'
    BY NextType, NextSnapshots
  <1> QED BY <1>1, <1>2, PTL DEF Spec

-----------------------------------------------------------------------------
(* What a recovery finds.                                                  *)

\* The sequence s is the beginning of h.
Begins(s, h) == Len(s) <= Len(h) /\ \A i \in 1 .. Len(s) : s[i] = h[i]

\* The position of the last write of a log.
End(l) == l.first + Len(l.writes) - 1

\* The logs L are pieces of h that tile what follows position n.
Carry(L, n, h) ==
    /\ \A l \in L : /\ l.writes # <<>> /\ l.first > n /\ End(l) <= Len(h)
                    /\ \A i \in 1 .. Len(l.writes) : l.writes[i] = h[l.first + i - 1]
    /\ \A i \in n + 1 .. Len(h) : \E l \in L : l.first <= i /\ i <= End(l)
    /\ \A l, m \in L : l = m \/ End(l) < m.first \/ End(m) < l.first

\* The snapshot s and the logs L are the history h.
Recovers(s, L, h) == Begins(s, h) /\ Carry(L, Len(s), h)

\* The snapshots that a recovery may have to use, now or after an operator's choice, and that
\* were not given up.
Usable(t) ==
    /\ snapState[t] = "complete" /\ t \notin givenUp
    /\ t = current \/ Operator # {} \/ (pc = "current" /\ t = checkpointTime)

Of(t) == Recovered(snap[t], logs[t])
Whole(t) == Of(t) \in Seq(Writes) /\ Recovers(snap[t], logs[t], Of(t))

\* From its first n writes on, what h has made was all in S.
Committed(h, n, S) == \A i \in n .. Len(h) : Content(SubSeq(h, 1, i)) \in S

\* A database that is not just being recovered has a content the store once had.
HistCommitted ==
    /\ Serving \/ pc = "replaying" => disk = "whole"
    /\ pc = "replaying" => ~ snapshotUploaded
    /\ pc = "down" => disk # "partial"
    /\ Content(<<>>) \in states
    /\ disk = "whole" /\ ~ Recovering => Content(hist) \in states

\* A snapshot that may be used and the logs beside it are one history, which the store once had.
UsableIsWhole == \A t \in Id : Usable(t) => Whole(t) /\ Content(Of(t)) \in states

\* The checkpoint being uploaded is a beginning of what was applied; it is beyond all
\* that was uploaded, and has no logs yet.
CheckpointFits == Checkpointing =>
    /\ checkpointTime \in Id /\ logs[checkpointTime] = {}
    /\ Begins(checkpoint, hist) /\ lastUpload <= Len(checkpoint) /\ Committed(hist, Len(checkpoint), states)
    /\ pc # "delete" => current # checkpointTime
    /\ IF pc = "files" THEN snapState[checkpointTime] # "complete" ELSE snap[checkpointTime] = checkpoint

\* The log being uploaded is the next piece of what was applied.
LogFits == pc = "log" =>
    /\ snapshotUploaded /\ log.first = lastUpload + 1 /\ log.writes # <<>>
    /\ Len(log.writes) <= LogLimit /\ End(log) <= Len(hist)
    /\ \A i \in 1 .. Len(log.writes) : log.writes[i] = hist[lastUpload + i]

\* The snapshot to which logs are added, and these, are a beginning of what was applied, up
\* to last_upload_seq or beyond it by one log whose upload seemed to fail.
UploadsFit == pc \in {"idle", "log", "due"} /\ snapshotUploaded =>
    /\ checkpointTime \in Id
    /\ Usable(checkpointTime) =>
        /\ Begins(Of(checkpointTime), hist) /\ Committed(hist, Len(snap[checkpointTime]), states)
        /\ Len(snap[checkpointTime]) <= lastUpload
        /\ lastUpload <= Len(Of(checkpointTime)) /\ Len(Of(checkpointTime)) <= lastUpload + LogLimit
        /\ pc = "log" => Len(Of(checkpointTime)) <= End(log)
        /\ \A l \in logs[checkpointTime] : End(l) <= lastUpload \/ l.first = lastUpload + 1

\* A process has applied all that a recovery would, and so has its checkpoint, unless an
\* operator chose what a recovery uses, or that was given up.
HistExtends == ~ chosen /\ current # 0 /\ current \notin givenUp /\ disk = "whole" /\ ~ Recovering =>
    Begins(Of(current), IF Checkpointing THEN checkpoint ELSE hist)

\* Of the history r, h is the snapshot s and the logs among L up to the one called f.
ReplayedTo(f, h, s, L, r) ==
    /\ Len(s) <= Len(h) /\ Begins(h, r)
    /\ \A l \in L : IF l.first <= f THEN End(l) <= Len(h) ELSE Len(h) < l.first

\* A recovery has applied the snapshot, the logs up to the one replayed last, and no other.
ReplayFits == pc = "replaying" /\ current \notin givenUp =>
    /\ ReplayedTo(log.first, hist, snap[current], logs[current], Of(current))

RecoveryParts ==
    /\ HistCommitted /\ UsableIsWhole /\ CheckpointFits /\ LogFits /\ UploadsFit
    /\ HistExtends /\ ReplayFits
RecoveryInv ==
    /\ RTypeOK /\ InHand /\ SnapshotsInOrder /\ CurrentIsComplete
    /\ RecoveryParts

\* What must not go wrong: a crash whose half-made recovery is then taken for the
\* database, and an operator's choice of a snapshot that is not complete.  Every
\* step of the uploads may fail.
SafeFaults == "recoveryKept" \notin Crashes /\ Operator \subseteq {"complete"}

\* Two sequences of one length with the same elements.
LEMMA SameSeq ==
    ASSUME NEW s \in Seq(Writes), NEW h \in Seq(Writes), Len(s) = Len(h), \A i \in 1 .. Len(h) : s[i] = h[i]
    PROVE  s = h
  <1>1. s \in [1 .. Len(h) -> Writes] /\ h \in [1 .. Len(h) -> Writes]
    OBVIOUS
  <1> QED BY <1>1

\* A place in a piece that ends before another begins is before the places of that.
LEMMA LaterPositions ==
    ASSUME NEW f \in Nat, NEW k \in Nat, NEW i \in 1 .. k, NEW g \in Nat, NEW m \in Nat, NEW j \in 1 .. m,
           f + k - 1 < g
    PROVE  f < g /\ f + i - 1 < g + j - 1
  OBVIOUS

\* Tiling pieces applied in order give the whole: the write with k writes before it is at
\* position Len(s) + k + 1.
LEMMA RecoveredIs ==
    ASSUME NEW s \in Seq(Writes), NEW L \in SUBSET Log, NEW h \in Seq(Writes), Recovers(s, L, h)
    PROVE  Recovered(s, L) = h
  <1> DEFINE n == Len(s)
             P == Logged(L)
             Pos(p) == p[1].first + p[2] - 1
             Upto(b) == {q \in P : Pos(q) <= b}
  <1>0. n \in Nat /\ Len(h) \in Nat /\ n <= Len(h)
    BY DEF Recovers, Begins
  <1>1. ASSUME NEW p \in P
        PROVE  /\ p[1] \in L /\ p[2] \in 1 .. Len(p[1].writes) /\ p = <<p[1], p[2]>>
               /\ p[1].first \in Nat /\ Len(p[1].writes) \in Nat
               /\ Pos(p) \in n + 1 .. Len(h) /\ p[1].writes[p[2]] = h[Pos(p)]
    <2>1. PICK l \in L : p \in {l} \X DOMAIN l.writes
      BY DEF Logged
    <2>2. p[1] = l /\ p[2] \in 1 .. Len(l.writes) /\ p = <<p[1], p[2]>> /\ l.first \in Nat /\ Len(l.writes) \in Nat
      BY <2>1 DEF Log
    <2>3. /\ l.first > n /\ l.first + Len(l.writes) - 1 <= Len(h)
          /\ \A i \in 1 .. Len(l.writes) : l.writes[i] = h[l.first + i - 1]
      BY DEF Recovers, Carry, End
    <2>4. Pos(p) \in n + 1 .. Len(h)
      BY <1>0, <2>2, <2>3
    <2> QED BY <2>2, <2>3, <2>4
  <1>2. ASSUME NEW i \in n + 1 .. Len(h)
        PROVE  \E p \in P : Pos(p) = i
    <2>1. PICK l \in L : l.first <= i /\ i <= l.first + Len(l.writes) - 1
      BY DEF Recovers, Carry, End
    <2>2. l.first \in Nat /\ l.writes \in Seq(Writes) /\ i - l.first + 1 \in 1 .. Len(l.writes)
      BY <1>0, <2>1 DEF Log
    <2>3. <<l, i - l.first + 1>> \in P
      BY <2>2 DEF Logged
    <2>4. Pos(<<l, i - l.first + 1>>) = i
      BY <1>0, <2>2
    <2> QED BY <2>3, <2>4
  <1>3. ASSUME NEW p \in P, NEW q \in P
        PROVE  (Pos(p) = Pos(q) => p = q) /\ (Earlier(p, q) <=> Pos(p) < Pos(q))
    <2>1. \/ p[1] = q[1]
          \/ p[1].first + Len(p[1].writes) - 1 < q[1].first
          \/ q[1].first + Len(q[1].writes) - 1 < p[1].first
      BY <1>1 DEF Recovers, Carry, End
    <2>2. /\ p[2] \in 1 .. Len(p[1].writes) /\ p[1].first \in Nat /\ Len(p[1].writes) \in Nat
          /\ q[2] \in 1 .. Len(q[1].writes) /\ q[1].first \in Nat /\ Len(q[1].writes) \in Nat
      BY <1>1
    <2>6. p = <<p[1], p[2]>> /\ q = <<q[1], q[2]>>
      BY <1>1
    <2>3. CASE p[1] = q[1]
      <3>1. Pos(p) = Pos(q) => p[2] = q[2]
        BY <2>2, <2>3
      <3>2. Earlier(p, q) <=> Pos(p) < Pos(q)
        BY <2>2, <2>3 DEF Earlier
      <3> QED BY <2>2, <2>6, <2>3, <3>1, <3>2
    <2>7. Pos(p) \in Int /\ Pos(q) \in Int
      BY <2>2
    <2>4. CASE p[1].first + Len(p[1].writes) - 1 < q[1].first
      <3>1. p[1].first < q[1].first /\ Pos(p) < Pos(q)
        BY <2>2, <2>4, LaterPositions
      <3>2. Earlier(p, q)
        BY <3>1 DEF Earlier
      <3> HIDE DEF Pos
      <3> QED BY <2>7, <3>1, <3>2
    <2>5. CASE q[1].first + Len(q[1].writes) - 1 < p[1].first
      <3>1. q[1].first < p[1].first /\ Pos(q) < Pos(p)
        BY <2>2, <2>5, LaterPositions
      <3>2. ~ Earlier(p, q)
        BY <2>2, <3>1 DEF Earlier
      <3> HIDE DEF Pos
      <3> QED BY <2>7, <3>1, <3>2
    <2> QED BY <2>1, <2>3, <2>4, <2>5
  <1>4. ASSUME NEW b \in n .. Len(h)
        PROVE  Cardinality(Upto(b)) = b - n
    <2> DEFINE At(i) == CHOOSE p \in P : Pos(p) = i
               f == [i \in n + 1 .. b |-> At(i)]
    <2>1. ASSUME NEW i \in n + 1 .. b
          PROVE  At(i) \in P /\ Pos(At(i)) = i
      <3>1. i \in n + 1 .. Len(h)
        BY <1>0
      <3>2. \E p \in P : Pos(p) = i
        BY <1>2, <3>1
      <3> HIDE DEF P, Pos
      <3> QED BY <3>2
    <2>2. ASSUME NEW i \in n + 1 .. b
          PROVE  At(i) \in Upto(b)
      BY <1>0, <2>1
    <2>3. ASSUME NEW p \in Upto(b)
          PROVE  Pos(p) \in n + 1 .. b /\ At(Pos(p)) = p
      <3>1. p \in P /\ Pos(p) \in n + 1 .. Len(h) /\ Pos(p) <= b
        BY <1>1
      <3>2. Pos(p) \in n + 1 .. b
        BY <1>0, <3>1
      <3> HIDE DEF At, P, Pos
      <3> QED BY <1>3, <2>1, <3>1, <3>2
    <2>4. f \in Bijection(n + 1 .. b, Upto(b))
      <3> HIDE DEF At, P, Pos
      <3>1. f \in [n + 1 .. b -> Upto(b)]
        <4> HIDE DEF Upto
        <4> QED BY <2>2
      <3>2. \A i, j \in n + 1 .. b : f[i] = f[j] => i = j
        BY <2>1
      <3>3. \A p \in Upto(b) : \E i \in n + 1 .. b : f[i] = p
        BY <2>3
      <3> HIDE DEF f, Upto
      <3> QED BY <3>1, <3>2, <3>3 DEF Bijection, Injection, IsInjective, Surjection
    <2>5. IsFiniteSet(n + 1 .. b) /\ Cardinality(n + 1 .. b) = b - n
      <3>1. n + 1 \in Int /\ b \in Int /\ n <= b
        BY <1>0
      <3>2. IsFiniteSet(n + 1 .. b) /\ Cardinality(n + 1 .. b) = IF n + 1 > b THEN 0 ELSE b - (n + 1) + 1
        <4> HIDE DEF n
        <4> QED BY <3>1, FS_Interval
      <3> QED BY <1>0, <3>1, <3>2
    <2> HIDE DEF f, Upto
    <2> QED BY <2>4, <2>5, FS_Bijection DEF ExistsBijection
  <1>5. Cardinality(P) = Len(h) - n
    <2>1. P = Upto(Len(h))
      BY <1>1
    <2> HIDE DEF P, Upto
    <2> QED BY <1>0, <1>4, <2>1
  <1>6. ASSUME NEW p \in P
        PROVE  Cardinality({q \in P : Earlier(q, p)}) = Pos(p) - 1 - n
    <2>1. Pos(p) - 1 \in n .. Len(h)
      BY <1>0, <1>1
    <2>2. {q \in P : Earlier(q, p)} = Upto(Pos(p) - 1)
      BY <1>1, <1>3, <2>1
    <2> HIDE DEF P, Upto, Pos
    <2> QED BY <1>4, <2>1, <2>2
  <1> DEFINE Next1(k) == CHOOSE p \in P : Cardinality({q \in P : Earlier(q, p)}) = k - 1
  <1>7. ASSUME NEW k \in 1 .. Len(h) - n
        PROVE  Next1(k) \in P /\ Pos(Next1(k)) = n + k
    <2>1. n + k \in n + 1 .. Len(h)
      BY <1>0
    <2>2. PICK p \in P : Pos(p) = n + k
      BY <1>2, <2>1
    <2>3. Cardinality({q \in P : Earlier(q, p)}) = k - 1
      <3> HIDE DEF P, Pos
      <3> QED BY <1>0, <1>6, <2>2
    <2>4. Next1(k) \in P /\ Cardinality({q \in P : Earlier(q, Next1(k))}) = k - 1
      <3> HIDE DEF P
      <3> QED BY <2>3
    <2>5. Pos(Next1(k)) - 1 - n = k - 1 /\ Pos(Next1(k)) \in n + 1 .. Len(h)
      <3> HIDE DEF P, Pos, Next1
      <3> QED BY <1>1, <1>6, <2>4
    <2> HIDE DEF P, Pos, Next1
    <2> QED BY <1>0, <2>4, <2>5
  <1>8. Recovered(s, L) = s \o [k \in 1 .. Cardinality(P) |-> Next1(k)[1].writes[Next1(k)[2]]]
    BY DEF Recovered
  <1> DEFINE rest == [k \in 1 .. Len(h) - n |-> h[n + k]]
  <1>9. [k \in 1 .. Cardinality(P) |-> Next1(k)[1].writes[Next1(k)[2]]] = rest
    <2>1. ASSUME NEW k \in 1 .. Len(h) - n
          PROVE  Next1(k)[1].writes[Next1(k)[2]] = h[n + k]
      <3> HIDE DEF P, Pos, Next1
      <3> QED BY <1>1, <1>7
    <2> HIDE DEF P, Next1
    <2> QED BY <1>5, <2>1
  <1>10. s \o rest = h
    <2>1. rest \in Seq(Writes) /\ Len(rest) = Len(h) - n
      BY <1>0
    <2>2. Len(s \o rest) = Len(h) /\ s \o rest \in Seq(Writes)
      BY <1>0, <2>1
    <2>3. ASSUME NEW i \in 1 .. Len(h)
          PROVE  (s \o rest)[i] = h[i]
      <3>1. CASE i <= n
        BY <1>0, <2>1, <3>1 DEF Recovers, Begins
      <3>2. CASE i > n
        <4>1. i - n \in 1 .. Len(h) - n /\ n + (i - n) = i
          BY <1>0, <3>2
        <4>2. rest[i - n] = h[i]
          BY <4>1
        <4> HIDE DEF rest
        <4> QED BY <1>0, <2>1, <3>2, <4>1, <4>2
      <3> QED BY <1>0, <3>1, <3>2
    <2> HIDE DEF rest
    <2> QED BY <2>2, <2>3, SameSeq
  <1> QED BY <1>8, <1>9, <1>10

LEMMA BeginsChain ==
    ASSUME NEW r \in Seq(Writes), NEW s \in Seq(Writes), NEW h \in Seq(Writes), Begins(r, s), Begins(s, h)
    PROVE  Begins(r, h)
  BY DEF Begins

LEMMA BeginsItself ==
    ASSUME NEW s \in Seq(Writes)
    PROVE  Begins(s, s)
  BY DEF Begins

LEMMA BeginsMore ==
    ASSUME NEW r \in Seq(Writes), NEW h \in Seq(Writes), NEW w \in Seq(Writes), Begins(r, h)
    PROVE  Begins(r, h \o w)
  BY DEF Begins

LEMMA BeginsIsPrefix ==
    ASSUME NEW s \in Seq(Writes), NEW h \in Seq(Writes), Begins(s, h)
    PROVE  IsPrefix(s, h)
  <1>1. Len(s) \in Nat /\ Len(h) \in Nat /\ Len(s) <= Len(h)
    BY DEF Begins
  <1>2. SubSeq(s, 1, Len(s)) \in Seq(Writes) /\ SubSeq(h, 1, Len(s)) \in Seq(Writes)
    BY <1>1
  <1>3. Len(SubSeq(s, 1, Len(s))) = Len(s) /\ Len(SubSeq(h, 1, Len(s))) = Len(s)
    BY <1>1
  <1>4. \A i \in 1 .. Len(s) : SubSeq(s, 1, Len(s))[i] = SubSeq(h, 1, Len(s))[i]
    BY <1>1 DEF Begins
  <1>5. SubSeq(s, 1, Len(s)) = SubSeq(h, 1, Len(s))
    BY <1>2, <1>3, <1>4, SameSeq
  <1> QED BY <1>1, <1>5 DEF IsPrefix

\* A beginning of h, by its length.
LEMMA BeginsIs ==
    ASSUME NEW s \in Seq(Writes), NEW h \in Seq(Writes), Begins(s, h)
    PROVE  s = SubSeq(h, 1, Len(s))
  <1>1. Len(s) \in Nat /\ Len(h) \in Nat /\ Len(s) <= Len(h)
    BY DEF Begins
  <1>2. SubSeq(h, 1, Len(s)) \in Seq(Writes) /\ Len(SubSeq(h, 1, Len(s))) = Len(s)
    BY <1>1
  <1>3. \A i \in 1 .. Len(s) : s[i] = SubSeq(h, 1, Len(s))[i]
    BY <1>1 DEF Begins
  <1> QED BY <1>2, <1>3, SameSeq

\* Without logs a recovery has the snapshot.
LEMMA NoLogsRecovered ==
    ASSUME NEW s \in Seq(Writes)
    PROVE  Recovers(s, {}, s) /\ Recovered(s, {}) = s
  <1>1. Recovers(s, {}, s)
    BY DEF Recovers, Begins, Carry
  <1> QED BY <1>1, RecoveredIs

LEMMA CommittedMore ==
    ASSUME NEW h \in Seq(Writes), NEW w \in Writes, NEW n \in Nat, NEW S, NEW T, Committed(h, n, S),
           S \subseteq T, Content(Append(h, w)) \in T
    PROVE  Committed(Append(h, w), n, T)
  <1> SUFFICES ASSUME NEW i \in n .. Len(Append(h, w))
               PROVE  Content(SubSeq(Append(h, w), 1, i)) \in T
    BY DEF Committed
  <1>0. Append(h, w) \in Seq(Writes) /\ Len(Append(h, w)) = Len(h) + 1 /\ Len(h) \in Nat /\ i \in Nat
    OBVIOUS
  <1>1. CASE i <= Len(h)
    <2>1. SubSeq(Append(h, w), 1, i) \in Seq(Writes) /\ Len(SubSeq(Append(h, w), 1, i)) = i
      BY <1>0, <1>1
    <2>2. SubSeq(h, 1, i) \in Seq(Writes) /\ Len(SubSeq(h, 1, i)) = i
      BY <1>0, <1>1
    <2>3. \A j \in 1 .. i : SubSeq(Append(h, w), 1, i)[j] = SubSeq(h, 1, i)[j]
      BY <1>0, <1>1
    <2>4. SubSeq(Append(h, w), 1, i) = SubSeq(h, 1, i)
      BY <2>1, <2>2, <2>3, SameSeq
    <2>5. i \in n .. Len(h)
      BY <1>0, <1>1
    <2> QED BY <2>4, <2>5 DEF Committed
  <1>2. CASE i > Len(h)
    <2>1. i = Len(Append(h, w))
      BY <1>0, <1>2
    <2>2. Append(h, w) = SubSeq(Append(h, w), 1, i)
      BY <1>0, <2>1, BeginsItself, BeginsIs
    <2> QED BY <2>2
  <1> QED BY <1>0, <1>1, <1>2

\* A log that is uploaded, perhaps again and longer than before, carries the history on.
LEMMA LogAdded ==
    ASSUME NEW s \in Seq(Writes), NEW L \in SUBSET Log, NEW r \in Seq(Writes), NEW h \in Seq(Writes),
           NEW u \in Nat, NEW l \in Log, Recovers(s, L, r), Begins(r, h), Len(s) <= u, u <= Len(r), Len(r) <= End(l),
           l.first = u + 1, l.writes # <<>>, End(l) <= Len(h), \A i \in 1 .. Len(l.writes) : l.writes[i] = h[u + i],
           \A m \in L : End(m) <= u \/ m.first = u + 1,
           NEW M \in SUBSET Log, M = {m \in L : m.first # l.first} \cup {l}
    PROVE  LET new == SubSeq(h, 1, End(l))
           IN  new \in Seq(Writes) /\ Len(new) = End(l) /\ Recovers(s, M, new) /\ Begins(r, new) /\ Begins(new, h)
  <1> DEFINE new == SubSeq(h, 1, End(l))
  <1>1. /\ Len(s) \in Nat /\ Len(r) \in Nat /\ Len(h) \in Nat /\ Len(l.writes) \in Nat /\ Len(l.writes) > 0
        /\ End(l) = u + Len(l.writes) /\ End(l) \in Nat /\ l \in M
    BY DEF Log, End
  <1>0. ASSUME NEW m \in M
        PROVE  m.first \in Nat /\ Len(m.writes) \in Nat /\ End(m) = m.first + Len(m.writes) - 1 /\ End(m) \in Int
    BY DEF Log, End
  <1>2. new \in Seq(Writes) /\ Len(new) = End(l) /\ \A i \in 1 .. End(l) : new[i] = h[i]
    BY <1>1
  <1>3. \A m \in M : m = l \/ (m \in L /\ End(m) <= u)
    OBVIOUS
  <1> HIDE DEF new
  <1>4. Begins(r, new) /\ Begins(new, h)
    BY <1>1, <1>2 DEF Begins
  <1>5. Begins(s, new)
    BY <1>4, <1>2, BeginsChain DEF Recovers
  <1>6. ASSUME NEW m \in M
        PROVE  /\ m.writes # <<>> /\ m.first > Len(s) /\ End(m) <= Len(new)
               /\ \A i \in 1 .. Len(m.writes) : m.writes[i] = new[m.first + i - 1]
    <2>1. CASE m = l
      <3>1. \A i \in 1 .. Len(l.writes) : u + i \in 1 .. End(l) /\ l.first + i - 1 = u + i
        BY <1>1
      <3>2. \A i \in 1 .. Len(l.writes) : l.writes[i] = new[l.first + i - 1]
        BY <1>2, <3>1
      <3>3. l.first > Len(s) /\ End(l) <= Len(new)
        BY <1>1, <1>2
      <3> QED BY <2>1, <3>2, <3>3
    <2>2. CASE m \in L /\ End(m) <= u
      <3>1. /\ m.writes # <<>> /\ m.first > Len(s) /\ End(m) <= Len(r)
            /\ \A i \in 1 .. Len(m.writes) : m.writes[i] = r[m.first + i - 1]
        BY <2>2 DEF Recovers, Carry
      <3>2. \A i \in 1 .. Len(m.writes) : m.first + i - 1 \in 1 .. Len(r)
        <4>1. /\ m.first \in Nat /\ Len(m.writes) \in Nat /\ m.first > Len(s)
              /\ m.first + Len(m.writes) - 1 <= Len(r)
          BY <1>0, <3>1
        <4>2. Len(s) \in Nat /\ Len(r) \in Nat
          BY <1>1
        <4> QED BY <4>1, <4>2
      <3>3. \A i \in 1 .. Len(r) : r[i] = new[i]
        BY <1>4 DEF Begins
      <3>4. Len(r) <= Len(new)
        BY <1>4 DEF Begins
      <3>5. End(m) <= Len(new)
        BY <1>0, <1>1, <1>2, <3>1, <3>4
      <3>6. ASSUME NEW i \in 1 .. Len(m.writes)
            PROVE  m.writes[i] = new[m.first + i - 1]
        <4>1. m.first + i - 1 \in 1 .. Len(r)
          BY <3>2
        <4>3. m.writes[i] = r[m.first + i - 1]
          BY <3>1
        <4>2. r[m.first + i - 1] = new[m.first + i - 1]
          BY <3>3, <4>1
        <4> QED BY <4>3, <4>2
      <3> QED BY <3>1, <3>5, <3>6
    <2> QED BY <1>3, <2>1, <2>2
  <1>7. ASSUME NEW i \in Len(s) + 1 .. Len(new)
        PROVE  \E m \in M : m.first <= i /\ i <= End(m)
    <2>1. CASE i <= u
      <3>1. PICK m \in L : m.first <= i /\ i <= End(m)
        <4>1. i \in Len(s) + 1 .. Len(r)
          BY <1>1, <1>2, <2>1
        <4> QED BY <4>1 DEF Recovers, Carry
      <3>2. m.first # u + 1
        <4>1. m.first \in Nat
          BY DEF Log
        <4> QED BY <1>1, <2>1, <3>1, <4>1
      <3> QED BY <3>1, <3>2
    <2>2. CASE i > u
      <3>1. l.first <= i /\ i <= End(l)
        BY <1>1, <1>2, <2>2
      <3> QED BY <1>1, <3>1
    <2> QED BY <1>1, <1>2, <2>1, <2>2
  <1>8. ASSUME NEW m \in M, NEW k \in M
        PROVE  m = k \/ End(m) < k.first \/ End(k) < m.first
    <2>1. CASE m \in L /\ k \in L
      BY <2>1 DEF Recovers, Carry
    <2>2. ASSUME NEW j \in M, j # l
          PROVE  End(j) < l.first
      <3>1. End(j) <= u
        BY <1>3, <2>2
      <3> QED BY <1>0, <3>1
    <2> QED BY <1>3, <2>1, <2>2
  <1>9. Recovers(s, M, new)
    BY <1>5, <1>6, <1>7, <1>8 DEF Recovers, Carry
  <1> QED BY <1>2, <1>4, <1>9 DEF new

\* A log that begins after n writes.
LEMMA EndAfter ==
    ASSUME NEW l \in Log, NEW n \in Nat, l.first = n + 1
    PROVE  Len(l.writes) \in Nat /\ End(l) = n + Len(l.writes) /\ End(l) \in Nat
  BY DEF Log, End

\* A recovery that has applied the snapshot s and the logs up to f is right before the next.
LEMMA NextReplayed ==
    ASSUME NEW s \in Seq(Writes), NEW L \in SUBSET Log, NEW r \in Seq(Writes), NEW h \in Seq(Writes), NEW f \in Nat,
           Recovers(s, L, r), ReplayedTo(f, h, s, L, r),
           NEW l \in L, l.first > f, \A m \in L : m.first > f => l.first <= m.first
    PROVE  ReplayedTo(l.first, h \o l.writes, s, L, r)
  <1>0. /\ Len(s) <= Len(h) /\ Begins(h, r)
        /\ \A m \in L : IF m.first <= f THEN End(m) <= Len(h) ELSE Len(h) < m.first
    BY DEF ReplayedTo
  <1>1. /\ Len(s) \in Nat /\ Len(r) \in Nat /\ Len(h) \in Nat /\ Len(h) <= Len(r)
        /\ l.writes \in Seq(Writes) /\ Len(l.writes) \in Nat /\ Len(l.writes) > 0 /\ l.first \in Nat
        /\ End(l) = l.first + Len(l.writes) - 1
    <2>1. l.writes # <<>> /\ l \in Log
      BY DEF Recovers, Carry
    <2> QED BY <1>0, <2>1 DEF Begins, Log, End
  <1>2. l.first > Len(h) /\ End(l) <= Len(r) /\ \A i \in 1 .. Len(l.writes) : l.writes[i] = r[l.first + i - 1]
    <2>1. l.first > Len(h)
      BY <1>0, <1>1
    <2> QED BY <2>1 DEF Recovers, Carry
  <1>3. l.first = Len(h) + 1
    <2>1. Len(h) + 1 \in Len(s) + 1 .. Len(r)
      BY <1>0, <1>1, <1>2
    <2>2. PICK m \in L : m.first <= Len(h) + 1 /\ Len(h) + 1 <= End(m)
      BY <2>1 DEF Recovers, Carry
    <2>3. m.first \in Nat /\ Len(m.writes) \in Nat /\ End(m) \in Int
      BY DEF Log, End
    <2>4. m.first > f
      BY <1>0, <1>1, <2>2, <2>3
    <2> QED BY <1>1, <1>2, <2>2, <2>3, <2>4
  <1>8. Len(h) \in Nat /\ Len(l.writes) \in Nat /\ End(l) = Len(h) + Len(l.writes) /\ End(l) \in Nat
    BY <1>1, <1>3, EndAfter
  <1>4. Len(h \o l.writes) = End(l) /\ h \o l.writes \in Seq(Writes)
    <2> DEFINE w == l.writes
    <2>1. w \in Seq(Writes) /\ End(l) = Len(h) + Len(w)
      BY <1>1, <1>8
    <2> HIDE DEF w
    <2>2. Len(h \o w) = End(l) /\ h \o w \in Seq(Writes)
      BY <2>1
    <2> QED BY <2>2 DEF w
  <1>5. ASSUME NEW i \in 1 .. End(l)
        PROVE  (h \o l.writes)[i] = r[i]
    <2>1. CASE i <= Len(h)
      BY <1>0, <1>1, <2>1 DEF Begins
    <2>2. CASE i > Len(h)
      <3>1. i - Len(h) \in 1 .. Len(l.writes) /\ l.first + (i - Len(h)) - 1 = i
        BY <1>3, <1>8, <2>2
      <3>2. l.writes[i - Len(h)] = r[i]
        BY <1>2, <3>1
      <3>3. (h \o l.writes)[i] = l.writes[i - Len(h)]
        BY <1>1, <1>8, <2>2
      <3> QED BY <3>2, <3>3
    <2> QED BY <1>8, <2>1, <2>2
  <1>6. ASSUME NEW m \in L
        PROVE  IF m.first <= l.first THEN End(m) <= End(l) ELSE End(l) < m.first
    <2>1. m.first \in Nat /\ Len(m.writes) \in Nat /\ End(m) = m.first + Len(m.writes) - 1 /\ End(m) \in Int
      BY DEF Log, End
    <2>2. m = l \/ End(l) < m.first \/ End(m) < l.first
      BY DEF Recovers, Carry
    <2>3. Len(m.writes) > 0
      <3>1. m.writes # <<>> /\ m \in Log
        BY DEF Recovers, Carry
      <3> QED BY <3>1 DEF Log
    <2>4. CASE m = l
      BY <1>1, <2>4
    <2>5. CASE End(l) < m.first
      BY <1>1, <2>1, <2>5
    <2>6. CASE End(m) < l.first
      <3>1. l.first <= End(l) /\ End(l) \in Int /\ l.first \in Int
        BY <1>1
      <3>2. m.first <= End(m)
        BY <2>1, <2>3
      <3> HIDE DEF End
      <3> QED BY <2>1, <2>6, <3>1, <3>2
    <2> QED BY <2>2, <2>4, <2>5, <2>6
  <1>7. Begins(h \o l.writes, r)
    <2> DEFINE w == h \o l.writes
    <2>1. Len(w) = End(l) /\ End(l) <= Len(r) /\ \A i \in 1 .. End(l) : w[i] = r[i]
      BY <1>2, <1>4, <1>5
    <2> HIDE DEF w
    <2>2. Begins(w, r)
      BY <2>1 DEF Begins
    <2> QED BY <2>2 DEF w
  <1>9. Len(s) <= Len(h \o l.writes)
    BY <1>0, <1>1, <1>4, <1>8
  <1> QED BY <1>4, <1>6, <1>7, <1>9 DEF ReplayedTo

\* After the last log nothing is missing.
LEMMA AllReplayed ==
    ASSUME NEW s \in Seq(Writes), NEW L \in SUBSET Log, NEW r \in Seq(Writes), NEW h \in Seq(Writes),
           Recovers(s, L, r), Len(s) <= Len(h), Begins(h, r), \A m \in L : End(m) <= Len(h)
    PROVE  h = r
  <1>1. Len(s) \in Nat /\ Len(r) \in Nat /\ Len(h) \in Nat /\ Len(h) <= Len(r)
    BY DEF Begins
  <1>2. Len(h) = Len(r)
    <2> SUFFICES ASSUME Len(h) < Len(r) PROVE FALSE
      BY <1>1
    <2>1. Len(h) + 1 \in Len(s) + 1 .. Len(r)
      BY <1>1
    <2>2. PICK m \in L : Len(h) + 1 <= End(m)
      BY <2>1 DEF Recovers, Carry
    <2>3. End(m) \in Int
      BY DEF Log, End
    <2> QED BY <1>1, <2>2, <2>3
  <1> QED BY <1>2, SameSeq DEF Begins

-----------------------------------------------------------------------------
(* Every step keeps the invariant.                                         *)

\* Snapshots that may be used stay what they were.
LEMMA UsableStays ==
    ASSUME UsableIsWhole, states \subseteq states',
           \A t \in Id : Usable(t)' => Usable(t) /\ snap'[t] = snap[t] /\ logs'[t] = logs[t]
    PROVE  UsableIsWhole'
  BY DEF UsableIsWhole, Whole, Of

\* A step that leaves remote storage alone, and is not about to name a snapshot.
LEMMA RemoteStays ==
    ASSUME UsableIsWhole, states \subseteq states', UNCHANGED <<remote, givenUp>>,
           pc' = "current" => pc = "current" /\ checkpointTime' = checkpointTime
    PROVE  UsableIsWhole'
  BY UsableStays DEF Usable, remote

\* The current snapshot.
LEMMA CurrentIsWhole ==
    ASSUME RecoveryInv, current # 0, current \notin givenUp
    PROVE  /\ current \in Id /\ Usable(current) /\ snap[current] \in Seq(Writes) /\ logs[current] \in SUBSET Log
           /\ Of(current) \in Seq(Writes) /\ Recovers(snap[current], logs[current], Of(current))
           /\ Content(Of(current)) \in states
  <1>1. current \in Id
    BY RocksStoreAssumption DEF RecoveryInv, RTypeOK, Id
  <1>2. Usable(current)
    BY <1>1 DEF RecoveryInv, CurrentIsComplete, Usable
  <1>3. Whole(current) /\ Content(Of(current)) \in states
    BY <1>1, <1>2 DEF RecoveryInv, RecoveryParts, UsableIsWhole
  <1> QED BY <1>1, <1>2, <1>3 DEF Whole, RecoveryInv, RTypeOK

LEMMA StartStep ==
    ASSUME SafeFaults, RecoveryInv, Start
    PROVE  RecoveryParts'
  <1> USE DEF local, upload, remote, ghost
  <1>0. HistCommitted /\ UsableIsWhole /\ HistExtends /\ pc = "down" /\ disk \in {"none", "partial", "whole"}
    BY DEF RecoveryInv, RecoveryParts, RTypeOK, Start
  <1>1. CASE disk = "none" /\ current # 0
    <2>1. pc' = "loading" /\ disk' = "partial" /\ UNCHANGED <<hist, upload, remote, ghost>>
      BY <1>1 DEF Start
    <2>2. UsableIsWhole'
      BY <1>0, <2>1, RemoteStays
    <2> QED BY <1>0, <2>1, <2>2 DEF RecoveryParts, HistCommitted, CheckpointFits, LogFits, UploadsFit, HistExtends,
               ReplayFits, Serving, Recovering, Checkpointing
  <1>2. CASE ~ (disk = "none" /\ current # 0)
    <2>1. /\ pc' = "idle" /\ Open(IF disk = "whole" THEN hist ELSE <<>>) /\ states' = states
          /\ disk = "whole" \/ current = 0
      BY <1>0, <1>2 DEF Start, HistCommitted
    <2>2. /\ hist' = IF disk = "whole" THEN hist ELSE <<>>
          /\ disk' = "whole" /\ snapshotUploaded' = FALSE /\ UNCHANGED <<remote, chosen, givenUp>>
      BY <2>1 DEF Open
    <2>3. UsableIsWhole'
      BY <1>0, <2>1, <2>2, RemoteStays
    <2>4. HistCommitted'
      BY <1>0, <2>1, <2>2 DEF HistCommitted, Recovering
    <2>5. HistExtends'
      BY <1>0, <2>1, <2>2 DEF HistExtends, Of, Recovering, Checkpointing
    <2> QED BY <2>1, <2>2, <2>3, <2>4, <2>5 DEF RecoveryParts, CheckpointFits, LogFits, UploadsFit, ReplayFits, Checkpointing
  <1> QED BY <1>1, <1>2

LEMMA LoadStep ==
    ASSUME RecoveryInv, Load
    PROVE  RecoveryParts'
  <1> USE DEF local, upload, remote, ghost
  <1>0. /\ HistCommitted /\ UsableIsWhole /\ pc = "loading" /\ pc' = "replaying" /\ states' = states
        /\ hist' = snap[current] /\ disk' = "whole" /\ snapshotUploaded' = FALSE /\ log' = NoLog
        /\ UNCHANGED <<remote, chosen, givenUp>> /\ current # 0
    BY DEF RecoveryInv, RecoveryParts, Load, Open, InHand, Recovering
  <1>1. UsableIsWhole'
    BY <1>0, RemoteStays
  <1>2. ReplayFits'
    <2> SUFFICES ASSUME current \notin givenUp PROVE ReplayFits'
      BY <1>0 DEF ReplayFits
    <2>1. /\ Len(snap[current]) \in Nat /\ Begins(snap[current], Of(current))
          /\ \A l \in logs[current] : l.first \in Nat /\ l.first > Len(snap[current])
      BY <1>0, CurrentIsWhole DEF Recovers, Carry, Log
    <2>2. \A l \in logs[current] : ~ (l.first <= 0)
      BY <2>1
    <2> QED BY <1>0, <2>1, <2>2 DEF ReplayFits, ReplayedTo, NoLog, Of
  <1> QED BY <1>0, <1>1, <1>2 DEF RecoveryParts, HistCommitted, CheckpointFits, LogFits, UploadsFit, HistExtends,
             Serving, Recovering, Checkpointing

LEMMA ReplayStep ==
    ASSUME RecoveryInv, Replay
    PROVE  RecoveryParts'
  <1> USE DEF local, upload, remote, ghost
  <1>0. /\ HistCommitted /\ UsableIsWhole /\ ReplayFits /\ pc = "replaying" /\ current # 0
        /\ disk = "whole" /\ ~ snapshotUploaded
        /\ UNCHANGED <<disk, lastUpload, lastCheck, snapshotUploaded, checkpointTime, stopped, checkpoint,
                       remote, chosen, givenUp>>
    BY DEF RecoveryInv, RecoveryParts, Replay, InHand, Recovering, HistCommitted
  <1>1. hist \in Seq(Writes) /\ log.first \in Nat
    BY DEF RecoveryInv, RTypeOK, Log
  <1>2. ASSUME current \notin givenUp
        PROVE  /\ snap[current] \in Seq(Writes) /\ logs[current] \in SUBSET Log /\ Of(current) \in Seq(Writes)
               /\ Recovers(snap[current], logs[current], Of(current))
               /\ ReplayedTo(log.first, hist, snap[current], logs[current], Of(current))
    BY <1>0, <1>2, CurrentIsWhole DEF ReplayFits
  <1>4. CASE NextLogs = {}
    <2>1. pc' = "idle" /\ states' = states \cup {Content(hist)} /\ hist' = hist
      BY <1>4 DEF Replay
    <2>2. ASSUME current \notin givenUp
          PROVE  hist = Of(current)
      <3>1. \A l \in logs[current] : l.first \in Nat
        BY <1>2, <2>2 DEF Log
      <3>2. \A l \in logs[current] : End(l) <= Len(hist)
        BY <1>1, <1>2, <1>4, <2>2, <3>1 DEF NextLogs, ReplayedTo
      <3> QED BY <1>1, <1>2, <2>2, <3>2, AllReplayed DEF ReplayedTo
    <2>3. UsableIsWhole'
      BY <1>0, <2>1, RemoteStays
    <2>5. HistExtends'
      BY <1>0, <1>1, <2>1, <2>2, BeginsItself DEF HistExtends, Of, Checkpointing
    <2>6. HistCommitted'
      BY <1>0, <2>1 DEF HistCommitted, Serving
    <2> QED BY <1>0, <2>1, <2>3, <2>5, <2>6 DEF RecoveryParts, CheckpointFits, LogFits, UploadsFit, ReplayFits, Checkpointing
  <1>5. CASE NextLogs # {}
    <2>1. PICK l \in NextLogs : /\ \A m \in NextLogs : l.first <= m.first
                                /\ hist' = hist \o l.writes /\ log' = l /\ pc' = pc /\ states' = states
      BY <1>5 DEF Replay
    <2>2. l \in logs[current] /\ l.first > log.first /\ \A m \in logs[current] : m.first > log.first => l.first <= m.first
      BY <2>1 DEF NextLogs
    <2>3. current \notin givenUp => ReplayedTo(log'.first, hist', snap[current], logs[current], Of(current))
      BY <1>0, <1>1, <1>2, <2>1, <2>2, NextReplayed
    <2>5. UsableIsWhole'
      BY <1>0, <2>1, RemoteStays
    <2>6. ReplayFits'
      BY <1>0, <2>1, <2>3 DEF ReplayFits, Of
    <2> QED BY <1>0, <2>1, <2>5, <2>6 DEF RecoveryParts, HistCommitted, CheckpointFits, LogFits, UploadsFit, HistExtends,
               Serving, Recovering, Checkpointing
  <1> QED BY <1>4, <1>5

LEMMA CrashStep ==
    ASSUME SafeFaults, RecoveryInv, NEW kind \in Crashes, Crash(kind)
    PROVE  RecoveryParts'
  <1> USE DEF local, upload, remote, ghost
  <1>0. /\ RecoveryParts /\ RTypeOK /\ pc' = "down" /\ disk' = IF kind = "diskLost" THEN "none" ELSE disk
        /\ UNCHANGED <<hist, upload, snap, logs, current, ghost>>
        /\ kind = "diskLost" \/ Serving
    BY RocksStoreAssumption DEF RecoveryInv, Crash, SafeFaults
  <1>1. HistCommitted'
    BY <1>0 DEF RecoveryParts, HistCommitted, Serving, Recovering
  <1>2. UsableIsWhole'
    <2>1. ASSUME NEW t \in Id, Usable(t)'
          PROVE  Usable(t)
      <3>1. snapState[t] = "complete"
        BY <1>0, <2>1 DEF Crash, Usable, RTypeOK
      <3> QED BY <1>0, <2>1, <3>1 DEF Usable
    <2> QED BY <1>0, <2>1, UsableStays DEF RecoveryParts
  <1>3. HistExtends'
    <2> SUFFICES ASSUME ~ chosen, current # 0, current \notin givenUp, disk' = "whole"
                 PROVE  Begins(Of(current), hist)
      BY <1>0 DEF HistExtends, Of, Recovering, Checkpointing
    <2>1. Serving /\ disk = "whole"
      BY <1>0
    <2>2. Begins(Of(current), IF Checkpointing THEN checkpoint ELSE hist)
      BY <1>0, <2>1 DEF RecoveryParts, HistExtends, Serving, Recovering
    <2>3. Checkpointing => Begins(checkpoint, hist)
      BY <1>0 DEF RecoveryParts, CheckpointFits
    <2>4. Of(current) \in Seq(Writes) /\ checkpoint \in Seq(Writes) /\ hist \in Seq(Writes)
      BY <1>0, CurrentIsWhole DEF RTypeOK
    <2> QED BY <2>2, <2>3, <2>4, BeginsChain
  <1> QED BY <1>0, <1>1, <1>2, <1>3 DEF RecoveryParts, CheckpointFits, LogFits, UploadsFit, ReplayFits, Checkpointing

LEMMA BeginsAppend ==
    ASSUME NEW r \in Seq(Writes), NEW h \in Seq(Writes), NEW w \in Writes, Begins(r, h)
    PROVE  Begins(r, Append(h, w))
  BY DEF Begins

LEMMA WriteStep ==
    ASSUME RecoveryInv, Write
    PROVE  RecoveryParts'
  <1> USE DEF local, upload, remote, ghost
  <1>0. /\ RecoveryParts /\ RTypeOK /\ Serving /\ hist' = Append(hist, written') /\ states' = states \cup {Content(hist')}
        /\ UNCHANGED <<pc, disk, upload, remote, chosen, givenUp>>
    BY DEF RecoveryInv, Write
  <1>1. written' \in Writes /\ hist \in Seq(Writes) /\ checkpoint \in Seq(Writes)
    BY RocksStoreAssumption DEF RecoveryInv, RTypeOK, Write, Writes
  <1>2. hist' \in Seq(Writes) /\ Len(hist') = Len(hist) + 1 /\ \A i \in 1 .. Len(hist) : hist'[i] = hist[i]
    BY <1>0, <1>1
  <1>3. ASSUME NEW n \in Nat, Committed(hist, n, states)
        PROVE  Committed(hist', n, states')
    BY <1>0, <1>1, <1>3, CommittedMore
  <1>4. ASSUME NEW r \in Seq(Writes), Begins(r, hist)
        PROVE  Begins(r, hist')
    BY <1>0, <1>1, <1>4, BeginsAppend
  <1>5. HistCommitted'
    BY <1>0 DEF RecoveryParts, HistCommitted, Serving, Recovering
  <1>6. UsableIsWhole'
    BY <1>0, RemoteStays DEF RecoveryParts
  <1>7. CheckpointFits'
    <2> SUFFICES ASSUME Checkpointing PROVE CheckpointFits'
      BY <1>0 DEF CheckpointFits, Checkpointing
    <2>1. CheckpointFits /\ Begins(checkpoint, hist) /\ Committed(hist, Len(checkpoint), states) /\ Len(checkpoint) \in Nat
      BY <1>0, <1>1 DEF RecoveryParts, CheckpointFits
    <2>2. Begins(checkpoint, hist') /\ Committed(hist', Len(checkpoint), states')
      BY <1>1, <1>3, <1>4, <2>1
    <2> QED BY <1>0, <2>1, <2>2 DEF CheckpointFits, Checkpointing
  <1>8. LogFits'
    <2> SUFFICES ASSUME pc = "log" PROVE LogFits'
      BY <1>0 DEF LogFits
    <2>1. LogFits /\ log \in Log /\ lastUpload \in Nat /\ log.first = lastUpload + 1 /\ End(log) <= Len(hist)
      BY <1>0 DEF RecoveryParts, LogFits, RTypeOK
    <2>2. Len(log.writes) \in Nat /\ End(log) = lastUpload + Len(log.writes) /\ End(log) \in Nat
      BY <2>1, EndAfter
    <2>3. \A i \in 1 .. Len(log.writes) : lastUpload + i \in 1 .. Len(hist)
      <3>1. lastUpload + Len(log.writes) <= Len(hist) /\ Len(hist) \in Nat
        BY <1>1, <2>1, <2>2
      <3> QED BY <2>1, <2>2, <3>1
    <2>4. \A i \in 1 .. Len(log.writes) : log.writes[i] = hist'[lastUpload + i]
      BY <1>2, <2>1, <2>3 DEF LogFits
    <2>5. End(log) <= Len(hist')
      BY <1>1, <1>2, <2>1, <2>2
    <2> QED BY <1>0, <2>1, <2>4, <2>5 DEF LogFits
  <1>9. UploadsFit'
    <2> SUFFICES ASSUME pc \in {"idle", "log", "due"}, snapshotUploaded
                 PROVE  UploadsFit'
      BY <1>0 DEF UploadsFit
    <2>1. UploadsFit /\ checkpointTime \in Id
      BY <1>0 DEF RecoveryParts, UploadsFit
    <2>2. CASE Usable(checkpointTime)
      <3>1. Of(checkpointTime) \in Seq(Writes) /\ Len(snap[checkpointTime]) \in Nat
        BY <1>0, <2>1, <2>2 DEF RecoveryParts, UsableIsWhole, Whole, RTypeOK
      <3>2. Begins(Of(checkpointTime), hist') /\ Committed(hist', Len(snap[checkpointTime]), states')
        BY <1>3, <1>4, <2>1, <2>2, <3>1 DEF UploadsFit
      <3> QED BY <1>0, <2>1, <2>2, <3>2 DEF UploadsFit, Of
    <2>3. CASE ~ Usable(checkpointTime)
      <3>1. ~ Usable(checkpointTime)'
        BY <1>0, <2>3 DEF Usable
      <3> QED BY <1>0, <2>1, <3>1 DEF UploadsFit
    <2> QED BY <2>2, <2>3
  <1>10. HistExtends'
    <2> SUFFICES ASSUME ~ chosen, current # 0, current \notin givenUp, disk = "whole", ~ Recovering
                 PROVE  Begins(Of(current), IF Checkpointing THEN checkpoint ELSE hist')
      BY <1>0 DEF HistExtends, Of, Checkpointing, Recovering
    <2>1. Begins(Of(current), IF Checkpointing THEN checkpoint ELSE hist) /\ Of(current) \in Seq(Writes)
      BY <1>0, CurrentIsWhole DEF RecoveryParts, HistExtends
    <2> QED BY <1>4, <2>1
  <1>11. ReplayFits'
    BY <1>0 DEF ReplayFits, Serving
  <1> QED BY <1>5, <1>6, <1>7, <1>8, <1>9, <1>10, <1>11 DEF RecoveryParts

\* The next log takes all that was applied, up to the limit.
LEMMA NextUploadIs ==
    ASSUME RTypeOK, NextUpload.writes # <<>>
    PROVE  /\ NextUpload \in Log /\ NextUpload.first = lastUpload + 1 /\ End(NextUpload) <= Len(hist)
           /\ Len(NextUpload.writes) <= LogLimit
           /\ \A i \in 1 .. Len(NextUpload.writes) : NextUpload.writes[i] = hist[lastUpload + i]
           /\ \A e \in Nat : e <= Len(hist) /\ e <= lastUpload + LogLimit => e <= End(NextUpload)
  <1> DEFINE last == Min({Len(hist), lastUpload + LogLimit})
  <1>1. lastUpload \in Nat /\ Len(hist) \in Nat /\ lastUpload <= Len(hist) /\ hist \in Seq(Writes) /\ LogLimit \in Nat \ {0}
    BY RocksStoreAssumption DEF RTypeOK
  <1>2. last \in {Len(hist), lastUpload + LogLimit} /\ last <= Len(hist) /\ last <= lastUpload + LogLimit
    BY <1>1, MinOfTwo
  <1>3. NextUpload = [first |-> lastUpload + 1, writes |-> SubSeq(hist, lastUpload + 1, last)]
    BY DEF NextUpload, NoLog
  <1> HIDE DEF last
  <1>4. last \in Nat /\ lastUpload <= last
    BY <1>1, <1>2
  <1>5. /\ Len(SubSeq(hist, lastUpload + 1, last)) = last - lastUpload
        /\ \A i \in 1 .. last - lastUpload : SubSeq(hist, lastUpload + 1, last)[i] = hist[lastUpload + i]
    BY <1>1, <1>2, <1>4
  <1>6. NextUpload \in Log
    BY NextUploadFits
  <1>7. NextUpload.first = lastUpload + 1 /\ Len(NextUpload.writes) = last - lastUpload
    BY <1>3, <1>5
  <1>8. End(NextUpload) = last
    <2>1. End(NextUpload) = lastUpload + Len(NextUpload.writes)
      BY <1>1, <1>6, <1>7, EndAfter
    <2> QED BY <1>1, <1>4, <1>7, <2>1
  <1>9. \A i \in 1 .. Len(NextUpload.writes) : NextUpload.writes[i] = hist[lastUpload + i]
    BY <1>3, <1>5, <1>7
  <1> QED BY <1>1, <1>2, <1>4, <1>6, <1>7, <1>8, <1>9

LEMMA BeginUploadStep ==
    ASSUME RecoveryInv, BeginUpload
    PROVE  RecoveryParts'
  <1> USE DEF local, upload, remote, ghost
  <1>0. /\ RecoveryParts /\ RTypeOK /\ pc = "idle" /\ pc' \in {"log", "due"} /\ log' = NextUpload
        /\ UNCHANGED <<local, lastCheck, snapshotUploaded, checkpointTime, stopped, checkpoint, remote, ghost>>
    BY DEF RecoveryInv, BeginUpload
  <1>1. UsableIsWhole'
    BY <1>0, RemoteStays DEF RecoveryParts
  <1>2. HistExtends'
    BY <1>0 DEF RecoveryParts, HistExtends, Of, Recovering, Checkpointing
  <1>3. HistCommitted' /\ CheckpointFits' /\ ReplayFits'
    BY <1>0 DEF RecoveryParts, HistCommitted, CheckpointFits, ReplayFits, Serving, Recovering, Checkpointing
  <1>4. Usable(checkpointTime)' = Usable(checkpointTime)
    BY <1>0 DEF Usable
  <1>5. CASE snapshotUploaded /\ log'.writes # <<>>
    <2>1. pc' = "log" /\ lastUpload' = lastUpload
      BY <1>5 DEF BeginUpload
    <2>2. /\ log'.first = lastUpload + 1 /\ End(log') <= Len(hist) /\ Len(log'.writes) <= LogLimit
          /\ \A i \in 1 .. Len(log'.writes) : log'.writes[i] = hist[lastUpload + i]
          /\ \A e \in Nat : e <= Len(hist) /\ e <= lastUpload + LogLimit => e <= End(log')
      BY <1>0, <1>5, NextUploadIs
    <2>3. LogFits'
      BY <1>0, <1>5, <2>1, <2>2 DEF LogFits
    <2>4. UploadsFit'
      <3>1. UploadsFit /\ checkpointTime \in Id
        BY <1>0, <1>5 DEF RecoveryParts, UploadsFit
      <3>2. CASE Usable(checkpointTime)
        <4>1. Of(checkpointTime) \in Seq(Writes)
          BY <1>0, <3>1, <3>2 DEF RecoveryParts, UsableIsWhole, Whole
        <4>2. Begins(Of(checkpointTime), hist) /\ Len(Of(checkpointTime)) <= lastUpload + LogLimit
          BY <1>0, <1>5, <3>1, <3>2 DEF UploadsFit
        <4>3. Len(Of(checkpointTime)) <= End(log')
          BY <2>2, <4>1, <4>2 DEF Begins
        <4> QED BY <1>0, <1>5, <2>1, <3>1, <3>2, <4>3 DEF UploadsFit, Of
      <3> QED BY <1>0, <1>4, <3>1, <3>2 DEF UploadsFit
    <2> QED BY <1>1, <1>2, <1>3, <2>3, <2>4 DEF RecoveryParts
  <1>6. CASE ~ (snapshotUploaded /\ log'.writes # <<>>)
    <2>1. pc' = "due" /\ lastUpload' = lastUpload + Len(log'.writes) /\ lastUpload \in Nat
      BY <1>0, <1>6 DEF BeginUpload, RTypeOK
    <2>2. snapshotUploaded => lastUpload' = lastUpload
      BY <1>6, <2>1
    <2>3. UploadsFit'
      BY <1>0, <1>4, <2>1, <2>2 DEF RecoveryParts, UploadsFit, Of
    <2> QED BY <1>1, <1>2, <1>3, <2>1, <2>3 DEF RecoveryParts, LogFits
  <1> QED BY <1>5, <1>6

\* What the upload of a log makes of the snapshot it is put beside.
LEMMA LogUploaded ==
    ASSUME RecoveryInv, pc = "log", Usable(checkpointTime),
           NEW M \in SUBSET Log, M = {l \in logs[checkpointTime] : l.first # log.first} \cup {log}
    PROVE  LET new == SubSeq(hist, 1, End(log))
           IN  /\ checkpointTime \in Id /\ new \in Seq(Writes) /\ Len(new) = End(log)
               /\ Recovers(snap[checkpointTime], M, new) /\ Recovered(snap[checkpointTime], M) = new
               /\ Begins(Of(checkpointTime), new) /\ Begins(new, hist) /\ Content(new) \in states
               /\ Len(snap[checkpointTime]) <= lastUpload
               /\ \A l \in M : l = log \/ End(l) <= lastUpload
  <1> DEFINE s == snap[checkpointTime]
             L == logs[checkpointTime]
             r == Of(checkpointTime)
             new == SubSeq(hist, 1, End(log))
  <1>0. /\ RTypeOK /\ UsableIsWhole /\ LogFits /\ UploadsFit /\ snapshotUploaded
        /\ checkpointTime \in Id
    BY DEF RecoveryInv, RecoveryParts, LogFits, UploadsFit
  <1>1. /\ s \in Seq(Writes) /\ L \in SUBSET Log /\ hist \in Seq(Writes) /\ lastUpload \in Nat /\ log \in Log
    BY <1>0 DEF RTypeOK
  <1>2. r \in Seq(Writes) /\ Recovers(s, L, r)
    BY <1>0 DEF UsableIsWhole, Whole
  <1>3. /\ Begins(r, hist) /\ Len(s) <= lastUpload /\ lastUpload <= Len(r) /\ Len(r) <= End(log)
        /\ Committed(hist, Len(s), states) /\ \A l \in L : End(l) <= lastUpload \/ l.first = lastUpload + 1
    BY <1>0 DEF UploadsFit
  <1>4. /\ log.first = lastUpload + 1 /\ log.writes # <<>> /\ End(log) <= Len(hist)
        /\ \A i \in 1 .. Len(log.writes) : log.writes[i] = hist[lastUpload + i]
    BY <1>0 DEF LogFits
  <1>5. M = {l \in L : l.first # log.first} \cup {log}
    OBVIOUS
  <1> HIDE DEF s, L, r
  <1>6. new \in Seq(Writes) /\ Len(new) = End(log) /\ Recovers(s, M, new) /\ Begins(r, new) /\ Begins(new, hist)
    BY <1>1, <1>2, <1>3, <1>4, <1>5, LogAdded
  <1>7. Recovered(s, M) = new
    <2> HIDE DEF new
    <2> QED BY <1>1, <1>6, RecoveredIs
  <1>8. Content(new) \in states
    <2>1. End(log) \in Nat /\ Len(s) \in Nat /\ Len(r) \in Nat /\ Len(hist) \in Nat
      BY <1>1, <1>2, <1>4, EndAfter
    <2>2. End(log) \in Len(s) .. Len(hist)
      BY <1>1, <1>3, <1>4, <2>1
    <2> QED BY <1>3, <2>2 DEF Committed
  <1>9. \A l \in M : l = log \/ End(l) <= lastUpload
    BY <1>3, <1>4, <1>5
  <1> QED BY <1>0, <1>3, <1>6, <1>7, <1>8, <1>9 DEF s, L, r

LEMMA UploadLogStep ==
    ASSUME RecoveryInv, NEW ok \in BOOLEAN, UploadLog(ok)
    PROVE  RecoveryParts'
  <1> USE DEF local, upload, remote, ghost
  <1> DEFINE M == {l \in logs[checkpointTime] : l.first # log.first} \cup {log}
             new == SubSeq(hist, 1, End(log))
  <1>0. /\ RecoveryParts /\ RTypeOK /\ pc = "log" /\ snapshotUploaded /\ checkpointTime \in Id
        /\ UNCHANGED <<local, lastCheck, snapshotUploaded, checkpointTime, stopped,
                       log, checkpoint, snapState, snap, current, ghost>>
    BY DEF RecoveryInv, RecoveryParts, LogFits, UploadsFit, UploadLog
  <1>1. /\ IF ok THEN pc' = "due" /\ lastUpload' = lastUpload + Len(log.writes)
                 ELSE pc' = "idle" /\ lastUpload' = lastUpload
        /\ logs' = [logs EXCEPT ![checkpointTime] = M] \/ (~ ok /\ logs' = logs)
    BY DEF UploadLog, AfterLog
  <1>2. \A t \in Id : Usable(t)' <=> Usable(t)
    BY <1>0, <1>1 DEF Usable
  <1>3. HistCommitted' /\ CheckpointFits' /\ LogFits' /\ ReplayFits'
    BY <1>0, <1>1 DEF RecoveryParts, HistCommitted, CheckpointFits, LogFits, ReplayFits, Serving, Recovering, Checkpointing
  <1>4. CASE ~ ok /\ logs' = logs
    <2>1. UsableIsWhole'
      BY <1>0, <1>2, <1>4, UsableStays DEF RecoveryParts
    <2>2. UploadsFit'
      BY <1>0, <1>1, <1>2, <1>4 DEF RecoveryParts, UploadsFit, Of
    <2>3. HistExtends'
      BY <1>0, <1>1, <1>4 DEF RecoveryParts, HistExtends, Of, Recovering, Checkpointing
    <2> QED BY <1>3, <2>1, <2>2, <2>3 DEF RecoveryParts
  <1>5. CASE logs' = [logs EXCEPT ![checkpointTime] = M]
    <2>0. logs \in [Id -> SUBSET Log] /\ log \in Log /\ lastUpload \in Nat /\ hist \in Seq(Writes)
      BY <1>0 DEF RTypeOK
    <2>1. logs'[checkpointTime] = M /\ M \in SUBSET Log /\ \A t \in Id : t # checkpointTime => logs'[t] = logs[t]
      BY <1>0, <1>5, <2>0
    <2>2. ASSUME Usable(checkpointTime)
          PROVE  /\ new \in Seq(Writes) /\ Len(new) = End(log) /\ Recovers(snap[checkpointTime], M, new)
                 /\ Recovered(snap[checkpointTime], M) = new
                 /\ Begins(Of(checkpointTime), new) /\ Begins(new, hist) /\ Content(new) \in states
                 /\ Len(snap[checkpointTime]) <= lastUpload /\ \A l \in M : l = log \/ End(l) <= lastUpload
      BY <1>0, <2>1, <2>2, LogUploaded
    <2>3. Of(checkpointTime)' = Recovered(snap[checkpointTime], M)
      BY <1>0, <2>1 DEF Of
    <2> HIDE DEF M, new
    <2>4. UsableIsWhole'
      <3> SUFFICES ASSUME NEW t \in Id, Usable(t)
                   PROVE  Whole(t)' /\ Content(Of(t)') \in states'
        BY <1>2 DEF UsableIsWhole
      <3>1. CASE t = checkpointTime
        BY <1>0, <2>1, <2>2, <2>3, <3>1 DEF Whole, Of
      <3>2. CASE t # checkpointTime
        <4>1. snap'[t] = snap[t] /\ logs'[t] = logs[t] /\ states' = states
          BY <1>0, <2>1, <3>2
        <4>2. Whole(t) /\ Content(Of(t)) \in states
          BY <1>0 DEF RecoveryParts, UsableIsWhole
        <4> QED BY <4>1, <4>2 DEF Whole, Of
      <3> QED BY <3>1, <3>2
    <2>5. UploadsFit'
      <3> SUFFICES ASSUME Usable(checkpointTime)
                   PROVE  UploadsFit'
        BY <1>0, <1>2 DEF UploadsFit
      <3>1. /\ Len(log.writes) \in Nat /\ End(log) = lastUpload + Len(log.writes) /\ End(log) \in Nat
            /\ Len(log.writes) <= LogLimit /\ log.first = lastUpload + 1
        BY <1>0, <2>0, EndAfter DEF RecoveryParts, LogFits
      <3>2. /\ Begins(new, hist) /\ Len(new) = End(log) /\ Len(snap[checkpointTime]) <= lastUpload
            /\ Committed(hist, Len(snap[checkpointTime]), states) /\ Len(snap[checkpointTime]) \in Nat
        BY <1>0, <2>2 DEF RecoveryParts, UploadsFit, RTypeOK
      <3>3. /\ Len(snap[checkpointTime]) <= lastUpload' /\ lastUpload' <= End(log)
            /\ End(log) <= lastUpload' + LogLimit
        BY <1>1, <2>0, <3>1, <3>2, RocksStoreAssumption
      <3>4. ASSUME NEW l \in M
            PROVE  End(l) <= lastUpload' \/ l.first = lastUpload' + 1
        <4>1. CASE l = log
          BY <1>1, <3>1, <4>1
        <4>2. CASE l # log
          <5>1. End(l) <= lastUpload /\ End(l) \in Int
            BY <2>1, <2>2, <4>2 DEF End, Log
          <5> QED BY <1>1, <2>0, <3>1, <5>1
        <4> QED BY <4>1, <4>2
      <3>5. Of(checkpointTime)' = new
        BY <2>2, <2>3
      <3>6. pc' # "log"
        BY <1>1
      <3> QED BY <1>0, <2>1, <3>2, <3>3, <3>4, <3>5, <3>6 DEF UploadsFit
    <2>6. HistExtends'
      <3> SUFFICES ASSUME ~ chosen, current # 0, current \notin givenUp, disk = "whole"
                   PROVE  Begins(Of(current)', hist)
        BY <1>0, <1>1 DEF HistExtends, Checkpointing
      <3>1. current \in Id /\ Usable(current)
        BY CurrentIsWhole
      <3>2. CASE current = checkpointTime
        BY <1>0, <2>2, <2>3, <3>1, <3>2
      <3>3. CASE current # checkpointTime
        <4>1. Begins(Of(current), hist)
          BY <1>0 DEF RecoveryParts, HistExtends, Recovering, Checkpointing
        <4>2. Of(current)' = Of(current)
          BY <1>0, <2>1, <3>1, <3>3 DEF Of
        <4> QED BY <4>1, <4>2
      <3> QED BY <3>2, <3>3
    <2> QED BY <1>3, <2>4, <2>5, <2>6 DEF RecoveryParts
  <1> QED BY <1>1, <1>4, <1>5

LEMMA NotDueStep ==
    ASSUME RecoveryInv, NotDue
    PROVE  RecoveryParts'
  <1> USE DEF local, upload, remote, ghost
  <1>0. RecoveryParts /\ pc = "due" /\ pc' = "idle" /\ UNCHANGED <<local, upload, remote, ghost>>
    BY DEF RecoveryInv, NotDue
  <1>1. UsableIsWhole'
    BY <1>0, RemoteStays DEF RecoveryParts
  <1>2. UploadsFit' /\ HistExtends'
    BY <1>0 DEF RecoveryParts, UploadsFit, HistExtends, Of, Usable, Recovering, Checkpointing
  <1> QED BY <1>0, <1>1, <1>2 DEF RecoveryParts, HistCommitted, CheckpointFits, LogFits, ReplayFits, Serving, Recovering,
             Checkpointing

\* What is known while a checkpoint is uploaded.
LEMMA CheckpointKnown ==
    ASSUME RecoveryInv, Checkpointing
    PROVE  /\ checkpointTime \in Id /\ logs[checkpointTime] = {} /\ checkpoint \in Seq(Writes) /\ hist \in Seq(Writes)
           /\ Begins(checkpoint, hist) /\ Content(checkpoint) \in states
           /\ Recovers(checkpoint, {}, checkpoint) /\ Recovered(checkpoint, {}) = checkpoint
           /\ disk = "whole" /\ ~ Recovering
  <1>0. CheckpointFits /\ HistCommitted /\ checkpoint \in Seq(Writes) /\ hist \in Seq(Writes)
    BY DEF RecoveryInv, RecoveryParts, RTypeOK
  <1>1. /\ checkpointTime \in Id /\ logs[checkpointTime] = {} /\ Begins(checkpoint, hist)
        /\ Committed(hist, Len(checkpoint), states)
    BY <1>0 DEF CheckpointFits
  <1>2. Content(checkpoint) \in states
    <2>1. checkpoint = SubSeq(hist, 1, Len(checkpoint))
      BY <1>0, <1>1, BeginsIs
    <2>2. Len(checkpoint) \in Len(checkpoint) .. Len(hist)
      BY <1>0, <1>1 DEF Begins
    <2>3. Content(SubSeq(hist, 1, Len(checkpoint))) \in states
      BY <1>1, <2>2 DEF Committed
    <2> QED BY <2>1, <2>3
  <1>3. disk = "whole" /\ ~ Recovering
    BY <1>0 DEF HistCommitted, Checkpointing, Serving, Recovering
  <1> QED BY <1>0, <1>1, <1>2, <1>3, NoLogsRecovered

\* A checkpoint that fails leaves the process ahead of the current snapshot.
LEMMA HistStillExtends ==
    ASSUME RecoveryInv, Checkpointing, ~ chosen, current # 0, current \notin givenUp
    PROVE  Begins(Of(current), hist)
  <1>1. Begins(Of(current), checkpoint)
    BY CheckpointKnown DEF RecoveryInv, RecoveryParts, HistExtends
  <1>2. Of(current) \in Seq(Writes)
    BY CurrentIsWhole
  <1> QED BY <1>1, <1>2, CheckpointKnown, BeginsChain

LEMMA BeginCheckpointStep ==
    ASSUME RecoveryInv, BeginCheckpoint
    PROVE  RecoveryParts'
  <1> USE DEF local, upload, remote, ghost
  <1>0. /\ RecoveryParts /\ RTypeOK /\ SnapshotsInOrder /\ pc = "due" /\ pc' = "files"
        /\ checkpointTime' = checkpointTime + 1 /\ checkpointTime < MaxCheckpoints /\ checkpoint' = hist
        /\ UNCHANGED <<local, lastUpload, lastCheck, snapshotUploaded, stopped, log, remote, ghost>>
    BY DEF RecoveryInv, BeginCheckpoint
  <1>1. UsableIsWhole'
    BY <1>0, RemoteStays DEF RecoveryParts
  <1>2. /\ checkpointTime' \in Id /\ checkpointTime' > checkpointTime /\ current # checkpointTime'
    BY <1>0, RocksStoreAssumption DEF RTypeOK, SnapshotsInOrder, Id
  <1>3. logs[checkpointTime'] = {} /\ snapState[checkpointTime'] = "none"
    BY <1>0, <1>2 DEF SnapshotsInOrder
  <1>4. hist \in Seq(Writes) /\ Len(hist) \in Nat /\ lastUpload <= Len(hist)
    BY <1>0 DEF RTypeOK
  <1>5. Committed(hist, Len(hist), states)
    <2>1. Content(hist) \in states
      BY <1>0 DEF RecoveryParts, HistCommitted, Serving, Recovering
    <2>2. hist = SubSeq(hist, 1, Len(hist))
      BY <1>4, BeginsItself, BeginsIs
    <2>3. \A i \in Len(hist) .. Len(hist) : i = Len(hist)
      BY <1>4
    <2> QED BY <2>1, <2>2, <2>3 DEF Committed
  <1>6. CheckpointFits'
    BY <1>0, <1>2, <1>3, <1>4, <1>5, BeginsItself DEF CheckpointFits
  <1>7. HistExtends'
    BY <1>0 DEF RecoveryParts, HistExtends, Of, Recovering, Checkpointing
  <1> QED BY <1>0, <1>1, <1>6, <1>7 DEF RecoveryParts, HistCommitted, LogFits, UploadsFit, ReplayFits, Serving, Recovering

\* A checkpoint is given up if the process goes on putting logs beside it.
LEMMA FailureGivesUp ==
    ASSUME RecoveryInv, Checkpointing, NEW ok \in BOOLEAN, GiveUpUnless(ok)
    PROVE  /\ givenUp \subseteq givenUp'
           /\ \A t \in givenUp' : t \in givenUp \/ t = checkpointTime
           /\ ok => givenUp' = givenUp
           /\ ~ ok /\ snapshotUploaded => checkpointTime \in givenUp'
  BY DEF GiveUpUnless

LEMMA UploadFilesStep ==
    ASSUME RecoveryInv, NEW ok \in BOOLEAN, UploadFiles(ok)
    PROVE  RecoveryParts'
  <1> USE DEF local, upload, remote, ghost
  <1>0. /\ RecoveryParts /\ RTypeOK /\ pc = "files" /\ Checkpointing /\ current # checkpointTime
        /\ UNCHANGED <<local, upload, logs, current, written, states, chosen>>
        /\ snapState \in [Id -> {"none", "partial", "complete"}] /\ snap \in [Id -> Seq(Writes)]
        /\ snapState[checkpointTime] # "complete" /\ GiveUpUnless(ok)
    BY DEF RecoveryInv, RecoveryParts, RTypeOK, UploadFiles, CheckpointFits, Checkpointing
  <1>1. /\ checkpointTime \in Id /\ logs[checkpointTime] = {} /\ checkpoint \in Seq(Writes)
        /\ Content(checkpoint) \in states
        /\ Recovers(checkpoint, {}, checkpoint) /\ Recovered(checkpoint, {}) = checkpoint /\ disk = "whole"
    BY <1>0, CheckpointKnown
  <1>2. \A t \in Id : t # checkpointTime => snapState'[t] = snapState[t] /\ snap'[t] = snap[t]
    BY <1>0 DEF UploadFiles
  <1>g. /\ givenUp \subseteq givenUp' /\ \A t \in givenUp' : t \in givenUp \/ t = checkpointTime
        /\ ~ ok /\ snapshotUploaded => checkpointTime \in givenUp'
    BY <1>0, FailureGivesUp
  <1>3. ASSUME NEW t \in Id, t # checkpointTime, Usable(t)'
        PROVE  Whole(t)' /\ Content(Of(t)') \in states'
    <2>1. Usable(t) /\ snap'[t] = snap[t] /\ logs'[t] = logs[t] /\ states' = states
      BY <1>0, <1>2, <1>3, <1>g DEF Usable
    <2>2. Whole(t) /\ Content(Of(t)) \in states
      BY <1>0, <2>1 DEF RecoveryParts, UsableIsWhole
    <2> QED BY <2>1, <2>2 DEF Whole, Of
  <1>4. current \in Id => Of(current)' = Of(current)
    BY <1>0, <1>2 DEF Of
  <1>7. current # 0 => current \in Id
    BY <1>0, RocksStoreAssumption DEF RTypeOK, Id
  <1>5. snapState'[checkpointTime] = "complete" => snap'[checkpointTime] = checkpoint
    BY <1>0, <1>1 DEF UploadFiles
  <1>6. UsableIsWhole'
    <2>1. ASSUME Usable(checkpointTime)'
          PROVE  Whole(checkpointTime)' /\ Content(Of(checkpointTime)') \in states'
      <3>1. snap'[checkpointTime] = checkpoint /\ logs'[checkpointTime] = {} /\ checkpointTime' = checkpointTime
        BY <1>0, <1>1, <1>5, <2>1 DEF Usable
      <3> QED BY <1>0, <1>1, <3>1 DEF Whole, Of
    <2> QED BY <1>0, <1>3, <2>1 DEF UsableIsWhole
  <1>8. CASE ok
    <2>1. pc' = "current" /\ snapState'[checkpointTime] = "complete" /\ snap'[checkpointTime] = checkpoint
      BY <1>0, <1>1, <1>8 DEF UploadFiles
    <2>4. CheckpointFits'
      BY <1>0, <2>1 DEF RecoveryParts, CheckpointFits
    <2>5. HistExtends'
      BY <1>0, <1>4, <1>7, <1>g, <2>1 DEF RecoveryParts, HistExtends, Recovering, Checkpointing
    <2> QED BY <1>0, <1>1, <1>6, <2>1, <2>4, <2>5 DEF RecoveryParts, HistCommitted, LogFits, UploadsFit, ReplayFits, Recovering
  <1>9. CASE ~ ok
    <2>1. pc' = "idle"
      BY <1>9 DEF UploadFiles
    <2>3. HistExtends'
      BY <1>0, <1>4, <1>7, <1>g, <2>1, HistStillExtends DEF HistExtends, Checkpointing
    <2>4. UploadsFit'
      BY <1>0, <1>1, <1>9, <1>g, <2>1 DEF UploadsFit, Usable
    <2> QED BY <1>0, <1>1, <1>6, <2>1, <2>3, <2>4 DEF RecoveryParts, HistCommitted, LogFits, CheckpointFits, ReplayFits,
               Recovering, Checkpointing
  <1> QED BY <1>8, <1>9

LEMMA WriteCurrentStep ==
    ASSUME SafeFaults, RecoveryInv, NEW ok \in BOOLEAN, WriteCurrent(ok)
    PROVE  RecoveryParts'
  <1> USE DEF local, upload, remote, ghost
  <1>0. /\ RecoveryParts /\ RTypeOK /\ pc = "current" /\ Checkpointing /\ current # checkpointTime
        /\ UNCHANGED <<hist, disk, upload, snapState, snap, logs, written, states>>
        /\ snapState[checkpointTime] = "complete" /\ snap[checkpointTime] = checkpoint /\ GiveUpUnless(ok)
    BY DEF RecoveryInv, RecoveryParts, WriteCurrent, CheckpointFits, Checkpointing, SnapshotsInOrder
  <1>1. /\ checkpointTime \in Id /\ logs[checkpointTime] = {} /\ checkpoint \in Seq(Writes) /\ hist \in Seq(Writes)
        /\ Recovered(checkpoint, {}) = checkpoint /\ disk = "whole" /\ Begins(checkpoint, hist)
    BY <1>0, CheckpointKnown
  <1>g. /\ givenUp \subseteq givenUp'
        /\ ~ ok /\ snapshotUploaded => checkpointTime \in givenUp'
    BY <1>0, FailureGivesUp
  <1>2. /\ pc' = (IF ok THEN "delete" ELSE "idle")
        /\ current' = checkpointTime \/ (~ ok /\ current' = current /\ chosen' = chosen)
    BY DEF WriteCurrent, NameCurrent
  <1>3. Of(checkpointTime)' = checkpoint
    BY <1>0, <1>1 DEF Of
  <1>4. UsableIsWhole'
    <2>1. \A t \in Id : Usable(t)' => Usable(t)
      BY <1>0, <1>2, <1>g DEF Usable
    <2> QED BY <1>0, <2>1, UsableStays DEF RecoveryParts
  <1>5. HistExtends'
    <2>1. CASE current' = checkpointTime
      <3>1. Begins(checkpoint, checkpoint) /\ Of(current)' = checkpoint
        BY <1>0, <1>1, <1>3, <2>1, BeginsItself DEF Of
      <3> QED BY <1>0, <1>1, <3>1 DEF HistExtends
    <2>2. CASE ~ ok /\ current' = current /\ chosen' = chosen
      BY <1>0, <1>2, <1>g, <2>2, HistStillExtends DEF HistExtends, Of, Checkpointing
    <2> QED BY <1>2, <2>1, <2>2
  <1>6. UploadsFit'
    BY <1>0, <1>1, <1>2, <1>g DEF UploadsFit, Usable
  <1>7. CheckpointFits'
    BY <1>0, <1>2 DEF RecoveryParts, CheckpointFits, Checkpointing
  <1> QED BY <1>0, <1>1, <1>2, <1>4, <1>5, <1>6, <1>7 DEF RecoveryParts, HistCommitted, LogFits, ReplayFits, Recovering

\* The deletion leaves the last checkpoint, and what is still complete, as it was.
LEMMA DeletionSpares ==
    ASSUME RecoveryInv, NEW ok \in BOOLEAN, DeleteOldSnapshots(ok)
    PROVE  /\ snap'[checkpointTime] = snap[checkpointTime] /\ logs'[checkpointTime] = logs[checkpointTime]
           /\ \A t \in Id : snapState'[t] = "complete" =>
                  snapState[t] = "complete" /\ snap'[t] = snap[t] /\ logs'[t] = logs[t]
  <1>1. PICK cut \in 1 .. MaxCheckpoints + 1 :
           LET old == {t \in Stored : t < cut /\ ~ Kept(t)}
           IN  /\ snapState' = [t \in Id |-> IF t \notin old THEN snapState[t]
                                             ELSE IF ok THEN "none" ELSE "partial"]
               /\ snap' = [t \in Id |-> IF t \in old THEN <<>> ELSE snap[t]]
               /\ logs' = [t \in Id |-> IF t \in old THEN {} ELSE logs[t]]
    BY DEF DeleteOldSnapshots
  <1>2. checkpointTime \in Id
    BY DEF RecoveryInv, RecoveryParts, CheckpointFits, DeleteOldSnapshots, Checkpointing
  <1>3. Kept(checkpointTime)
    BY LastCheckpointKept DEF RecoveryInv
  <1> QED BY <1>1, <1>2, <1>3

LEMMA DeleteStep ==
    ASSUME SafeFaults, RecoveryInv, NEW ok \in BOOLEAN, DeleteOldSnapshots(ok)
    PROVE  RecoveryParts'
  <1> USE DEF local, upload, remote, ghost
  <1>0. /\ RecoveryParts /\ RTypeOK /\ pc = "delete" /\ pc' = "idle" /\ Checkpointing /\ current = checkpointTime
        /\ UNCHANGED <<local, checkpointTime, stopped, log, checkpoint, current, written, states, chosen>>
        /\ snap[checkpointTime] = checkpoint /\ GiveUpUnless(ok)
        /\ IF ok THEN CheckpointUploaded ELSE UNCHANGED <<snapshotUploaded, lastCheck, lastUpload>>
    BY DEF RecoveryInv, RecoveryParts, DeleteOldSnapshots, CheckpointFits, Checkpointing, SnapshotsInOrder
  <1>1. /\ checkpointTime \in Id /\ logs[checkpointTime] = {} /\ checkpoint \in Seq(Writes) /\ Begins(checkpoint, hist)
        /\ Recovered(checkpoint, {}) = checkpoint /\ disk = "whole"
    BY <1>0, CheckpointKnown
  <1>2. /\ snap'[checkpointTime] = checkpoint /\ logs'[checkpointTime] = {}
        /\ \A t \in Id : snapState'[t] = "complete" =>
               snapState[t] = "complete" /\ snap'[t] = snap[t] /\ logs'[t] = logs[t]
    BY <1>0, <1>1, DeletionSpares
  <1>g. /\ givenUp \subseteq givenUp'
        /\ ~ ok /\ snapshotUploaded => checkpointTime \in givenUp'
    BY <1>0, FailureGivesUp
  <1>3. UsableIsWhole'
    <2>1. \A t \in Id : Usable(t)' => Usable(t) /\ snap'[t] = snap[t] /\ logs'[t] = logs[t]
      BY <1>0, <1>2, <1>g DEF Usable
    <2> QED BY <1>0, <2>1, UsableStays DEF RecoveryParts
  <1>4. Of(checkpointTime)' = checkpoint
    BY <1>0, <1>1, <1>2 DEF Of
  <1>5. UploadsFit'
    <2>1. CASE ok
      <3>1. Len(checkpoint) \in Nat /\ LogLimit \in Nat /\ Len(checkpoint) <= Len(checkpoint) + LogLimit
        BY <1>1, RocksStoreAssumption
      <3>2. lastUpload' = Len(checkpoint) /\ Committed(hist, Len(checkpoint), states)
        BY <1>0, <2>1 DEF CheckpointUploaded, RecoveryParts, CheckpointFits
      <3> QED BY <1>0, <1>1, <1>2, <1>4, <3>1, <3>2 DEF UploadsFit
    <2>2. CASE ~ ok
      BY <1>0, <1>1, <1>g, <2>2 DEF UploadsFit, Usable
    <2> QED BY <2>1, <2>2
  <1>6. HistExtends'
    BY <1>0, <1>1, <1>4 DEF HistExtends, Checkpointing
  <1> QED BY <1>0, <1>1, <1>3, <1>5, <1>6 DEF RecoveryParts, HistCommitted, LogFits, CheckpointFits, ReplayFits, Recovering,
             Checkpointing

LEMMA SetCurrentStep ==
    ASSUME SafeFaults, RecoveryInv, NEW t \in Id, NEW ok \in BOOLEAN, SetCurrentSnapshot(t, ok)
    PROVE  RecoveryParts'
  <1> USE DEF local, upload, remote, ghost
  <1>0. /\ RecoveryParts /\ Serving /\ ~ Checkpointing
        /\ (current' = t /\ chosen' = TRUE) \/ (current' = current /\ chosen' = chosen)
        /\ snapState[t] = "complete" /\ Operator # {}
        /\ UNCHANGED <<pc, hist, disk, lastUpload, lastCheck, snapshotUploaded, checkpointTime,
                       log, checkpoint, snapState, snap, logs, written, states, givenUp>>
    BY DEF RecoveryInv, SetCurrentSnapshot, NameCurrent, SafeFaults
  <1>1. \A u \in Id : Usable(u)' => Usable(u)
    BY <1>0 DEF Usable
  <1>2. UsableIsWhole'
    BY <1>0, <1>1, UsableStays DEF RecoveryParts
  <1>3. UploadsFit'
    BY <1>0, <1>1 DEF RecoveryParts, UploadsFit, Of
  <1>4. HistExtends'
    BY <1>0 DEF RecoveryParts, HistExtends, Of, Recovering, Checkpointing
  <1> QED BY <1>0, <1>2, <1>3, <1>4 DEF RecoveryParts, HistCommitted, LogFits, CheckpointFits, ReplayFits, Recovering,
             Checkpointing, Serving

LEMMA RestStep ==
    ASSUME RecoveryInv, UNCHANGED vars
    PROVE  RecoveryParts'
  <1> USE DEF local, upload, remote, ghost
  <1>0. RecoveryParts /\ UNCHANGED <<pc, local, upload, remote, ghost>>
    BY DEF RecoveryInv, vars
  <1>1. UsableIsWhole'
    BY <1>0, RemoteStays DEF RecoveryParts
  <1>2. UploadsFit' /\ HistExtends'
    BY <1>0 DEF RecoveryParts, UploadsFit, HistExtends, Of, Usable, Recovering, Checkpointing
  <1>3. CheckpointFits' /\ LogFits' /\ ReplayFits'
    BY <1>0 DEF RecoveryParts, CheckpointFits, LogFits, ReplayFits, Of, Checkpointing
  <1> QED BY <1>0, <1>1, <1>2, <1>3 DEF RecoveryParts, HistCommitted, Serving, Recovering

LEMMA RecoveryInit ==
    ASSUME Init
    PROVE  RecoveryInv
  <1>1. RTypeOK /\ InHand
    BY InitType
  <1>2. SnapshotsInOrder /\ CurrentIsComplete
    BY DEF Init, SnapshotsInOrder, CurrentIsComplete
  <1>3. UsableIsWhole /\ HistCommitted
    BY DEF Init, UsableIsWhole, Usable, HistCommitted, Serving
  <1>4. CheckpointFits /\ LogFits /\ UploadsFit /\ HistExtends /\ ReplayFits
    BY DEF Init, CheckpointFits, LogFits, UploadsFit, HistExtends, ReplayFits, Checkpointing
  <1> QED BY <1>1, <1>2, <1>3, <1>4 DEF RecoveryInv, RecoveryParts

LEMMA RecoveryStep ==
    ASSUME SafeFaults, RecoveryInv, [Next]_vars
    PROVE  RecoveryInv'
  <1>1. RTypeOK' /\ InHand'
    BY NextType DEF RecoveryInv
  <1>2. SnapshotsInOrder' /\ CurrentIsComplete'
    BY NextSnapshots DEF RecoveryInv, SafeFaults
  <1>3. RecoveryParts'
    <2>1. CASE Start \/ Load \/ Replay \/ Write \/ BeginUpload \/ NotDue \/ BeginCheckpoint
      BY <2>1, StartStep, LoadStep, ReplayStep, WriteStep, BeginUploadStep, NotDueStep, BeginCheckpointStep
    <2>2. ASSUME NEW kind \in Crashes, Crash(kind) PROVE RecoveryParts'
      BY <2>2, CrashStep
    <2>3. ASSUME NEW ok \in Outcome("log"), UploadLog(ok) PROVE RecoveryParts'
      BY <2>3, UploadLogStep DEF Outcome
    <2>4. ASSUME NEW ok \in Outcome("files"), UploadFiles(ok) PROVE RecoveryParts'
      BY <2>4, UploadFilesStep DEF Outcome
    <2>5. ASSUME NEW ok \in Outcome("current"), WriteCurrent(ok) PROVE RecoveryParts'
      BY <2>5, WriteCurrentStep DEF Outcome
    <2>6. ASSUME NEW ok \in Outcome("delete"), DeleteOldSnapshots(ok) PROVE RecoveryParts'
      BY <2>6, DeleteStep DEF Outcome
    <2>7. ASSUME NEW t \in Id, NEW ok \in Outcome("current"), SetCurrentSnapshot(t, ok) PROVE RecoveryParts'
      BY <2>7, SetCurrentStep DEF Outcome
    <2>8. CASE UNCHANGED vars
      BY <2>8, RestStep
    <2> QED BY <2>1, <2>2, <2>3, <2>4, <2>5, <2>6, <2>7, <2>8 DEF Next
  <1> QED BY <1>1, <1>2, <1>3 DEF RecoveryInv

\* Every reachable state satisfies the inductive invariant: each snapshot that a recovery may
\* have to use, unless it was given up, is, with the logs beside it, a state that the store once
\* was in, and what the process has applied, is uploading or is replaying continues it.
THEOREM RecoveryInvariant ==
    ASSUME SafeFaults
    PROVE  Spec => []RecoveryInv
  <1>1. Init => RecoveryInv
    BY RecoveryInit
  <1>2. RecoveryInv /\ [Next]_vars => RecoveryInv'
    BY RecoveryStep
  <1> QED BY <1>1, <1>2, PTL DEF Spec

\* A recovery, whenever it happens, ends in a state that the store once was in, unless it uses a
\* checkpoint that was given up: old logs are never mixed with another snapshot
\* (rocks_store.rs:1152-1173, rocks_fs.rs:504-543).
THEOREM RecoveryStaysCommitted ==
    ASSUME SafeFaults
    PROVE  Spec => []SettledIsCommitted
  <1>1. RecoveryInv => SettledIsCommitted
    <2> SUFFICES ASSUME RecoveryInv, current \notin givenUp PROVE Content(Recoverable) \in states
      BY DEF SettledIsCommitted, RecoveryIsCommitted
    <2>1. CASE current = 0
      BY <2>1 DEF Recoverable, RecoveryInv, RecoveryParts, HistCommitted
    <2>2. CASE current # 0
      BY <2>2, CurrentIsWhole DEF Recoverable, Of
    <2> QED BY <2>1, <2>2
  <1> QED BY <1>1, RecoveryInvariant, PTL

\* What a serving process counts as uploaded to its current snapshot is there for a recovery,
\* unless that snapshot was given up (rocks_store.rs:1163-1174, 1305-1311).
THEOREM UploadedStaysRecoverable ==
    ASSUME SafeFaults
    PROVE  Spec => []UploadedIsRecoverable
  <1>1. RecoveryInv => UploadedIsRecoverable
    <2> SUFFICES ASSUME RecoveryInv, Serving, snapshotUploaded, current = checkpointTime, current \notin givenUp
                 PROVE  IsPrefix(SubSeq(hist, 1, lastUpload), Recoverable)
      BY DEF UploadedIsRecoverable
    <2>0. /\ hist \in Seq(Writes) /\ lastUpload \in Nat /\ lastUpload <= Len(hist) /\ Len(hist) \in Nat
          /\ pc \in {"idle", "log", "due"} \/ Checkpointing
      BY DEF RecoveryInv, RTypeOK, Serving, Checkpointing
    <2>1. checkpointTime \in Id
      BY <2>0 DEF RecoveryInv, RecoveryParts, CheckpointFits, UploadsFit
    <2>2. current # 0 /\ Recoverable = Of(current)
      BY <2>1 DEF Id, Recoverable, Of
    <2>3. Of(current) \in Seq(Writes) /\ Usable(current)
      BY <2>2, CurrentIsWhole
    <2>4. Begins(Of(current), hist) /\ lastUpload <= Len(Of(current))
      <3>1. CASE pc \in {"idle", "log", "due"}
        BY <2>3, <3>1 DEF RecoveryInv, RecoveryParts, UploadsFit
      <3>2. CASE Checkpointing
        <4>1. Of(current) = checkpoint
          BY <3>2, CheckpointKnown DEF RecoveryInv, RecoveryParts, CheckpointFits, Checkpointing, Of
        <4> QED BY <3>2, <4>1 DEF RecoveryInv, RecoveryParts, CheckpointFits
      <3> QED BY <2>0, <3>1, <3>2
    <2> DEFINE r == Of(current)
               s == SubSeq(hist, 1, lastUpload)
    <2>5. s \in Seq(Writes) /\ Len(s) = lastUpload /\ \A i \in 1 .. lastUpload : s[i] = hist[i]
      BY <2>0
    <2> HIDE DEF s, r
    <2>6. r \in Seq(Writes) /\ Begins(r, hist) /\ lastUpload <= Len(r)
      BY <2>3, <2>4 DEF r
    <2>7. Begins(s, r)
      BY <2>0, <2>5, <2>6 DEF Begins
    <2>8. IsPrefix(s, r)
      BY <2>5, <2>6, <2>7, BeginsIsPrefix
    <2> QED BY <2>2, <2>8 DEF s, r
  <1> QED BY <1>1, RecoveryInvariant, PTL

KeepsWrites == chosen \/ chosen' \/ current \in givenUp \/ IsPrefix(Recoverable, Recoverable')

LEMMA SameRecoverable ==
    ASSUME RecoveryInv, current # 0, current \notin givenUp, snap'[current] = snap[current], logs'[current] = logs[current],
           current' = current
    PROVE  KeepsWrites
  <1>1. Of(current) \in Seq(Writes) /\ Recoverable = Of(current)
    BY CurrentIsWhole DEF Recoverable, Of
  <1>2. Recoverable' = Recoverable
    BY DEF Recoverable
  <1> QED BY <1>1, <1>2, BeginsItself, BeginsIsPrefix DEF KeepsWrites

LEMMA NothingRecoverable ==
    ASSUME Recoverable = <<>>, \/ Recoverable' = <<>>
                               \/ Recoverable' \in Seq(Writes)
    PROVE  KeepsWrites
  <1>0. <<>> \in Seq(Writes) /\ Len(<<>>) = 0
    OBVIOUS
  <1>1. Recoverable \in Seq(Writes) /\ Recoverable' \in Seq(Writes) /\ Len(Recoverable) = 0
    BY <1>0
  <1>2. Begins(Recoverable, Recoverable')
    BY <1>1 DEF Begins
  <1> QED BY <1>1, <1>2, BeginsIsPrefix DEF KeepsWrites

\* Only two steps name a snapshot.
LEMMA OnlyNamed ==
    ASSUME [Next]_vars, current' # current
    PROVE  \/ \E ok \in Outcome("current") : WriteCurrent(ok)
           \/ \E t \in Id, ok \in Outcome("current") : SetCurrentSnapshot(t, ok)
  BY DEF Next, vars, remote, Start, Load, Open, Replay, Crash, Write, BeginUpload, UploadLog, NotDue,
         BeginCheckpoint, UploadFiles, DeleteOldSnapshots

\* A snapshot that is named after its files were uploaded has no logs yet.
LEMMA NamedRecoverable ==
    ASSUME RecoveryInv, NEW ok, WriteCurrent(ok), current' # current
    PROVE  Recoverable' = checkpoint /\ checkpoint \in Seq(Writes)
  <1>1. pc = "current" /\ Checkpointing /\ current' = checkpointTime /\ UNCHANGED <<snap, logs>>
    BY DEF WriteCurrent, NameCurrent, Checkpointing
  <1>2. /\ checkpointTime \in Id /\ checkpoint \in Seq(Writes) /\ logs[checkpointTime] = {}
        /\ Recovered(checkpoint, {}) = checkpoint
    BY <1>1, CheckpointKnown
  <1>3. snap[checkpointTime] = checkpoint
    BY <1>1 DEF RecoveryInv, RecoveryParts, CheckpointFits
  <1> QED BY <1>1, <1>2, <1>3 DEF Recoverable, Id

LEMMA StepKeepsWrites ==
    ASSUME SafeFaults, RecoveryInv, RecoveryInv', [Next]_vars
    PROVE  KeepsWrites
  <1> USE DEF local, upload, remote, ghost
  <1>0. CASE current = 0
    <2>1. Recoverable = <<>>
      BY <1>0 DEF Recoverable
    <2>2. CASE current' = current
      BY <1>0, <2>1, <2>2, NothingRecoverable DEF Recoverable
    <2>3. ASSUME NEW ok \in Outcome("current"), WriteCurrent(ok), current' # current PROVE KeepsWrites
      BY <2>1, <2>3, NamedRecoverable, NothingRecoverable
    <2>4. ASSUME NEW t \in Id, NEW ok \in Outcome("current"), SetCurrentSnapshot(t, ok), current' # current PROVE KeepsWrites
      BY <2>4 DEF SetCurrentSnapshot, NameCurrent, KeepsWrites
    <2> QED BY <2>2, <2>3, <2>4, OnlyNamed
  <1>2. CASE current # 0 /\ current \in givenUp
    BY <1>2 DEF KeepsWrites
  <1>1. CASE current # 0 /\ current \notin givenUp
    <2>0. current \in Id
      BY <1>1, CurrentIsWhole
    <2>1. CASE UNCHANGED <<current, snap, logs>>
      BY <1>1, <2>1, SameRecoverable
    <2>2. CASE Start \/ Load \/ Replay \/ Write \/ BeginUpload \/ NotDue \/ BeginCheckpoint \/ UNCHANGED vars
      BY <2>1, <2>2 DEF Start, Load, Open, Replay, Write, BeginUpload, NotDue, BeginCheckpoint, vars
    <2>3. ASSUME NEW kind \in Crashes, Crash(kind) PROVE KeepsWrites
      BY <2>1, <2>3 DEF Crash
    <2>4. ASSUME NEW ok \in Outcome("log"), UploadLog(ok) PROVE KeepsWrites
      <3> DEFINE M == {l \in logs[checkpointTime] : l.first # log.first} \cup {log}
      <3>1. /\ pc = "log" /\ current' = current /\ snap' = snap
            /\ logs' = logs \/ logs' = [logs EXCEPT ![checkpointTime] = M]
        BY <2>4 DEF UploadLog
      <3>2. logs \in [Id -> SUBSET Log] /\ log \in Log /\ checkpointTime \in Id
        BY <3>1 DEF RecoveryInv, RTypeOK, RecoveryParts, LogFits, UploadsFit
      <3>3. CASE logs' = [logs EXCEPT ![checkpointTime] = M] /\ current = checkpointTime
        <4>1. logs'[current] = M /\ M \in SUBSET Log /\ Usable(checkpointTime)
          BY <1>1, <3>2, <3>3, CurrentIsWhole
        <4> DEFINE new == SubSeq(hist, 1, End(log))
        <4>2. /\ new \in Seq(Writes) /\ Recovered(snap[checkpointTime], M) = new
              /\ Begins(Of(checkpointTime), new)
          BY <3>1, <4>1, LogUploaded
        <4>3. Recoverable = Of(checkpointTime) /\ Of(checkpointTime) \in Seq(Writes)
          BY <1>1, <3>3, CurrentIsWhole DEF Recoverable, Of
        <4> HIDE DEF M, new
        <4>4. Recoverable' = new
          BY <1>1, <3>1, <3>3, <4>1, <4>2 DEF Recoverable
        <4> QED BY <4>2, <4>3, <4>4, BeginsIsPrefix DEF KeepsWrites
      <3>4. CASE logs' = logs \/ current # checkpointTime
        <4>1. logs'[current] = logs[current]
          BY <2>0, <3>1, <3>2, <3>4
        <4> QED BY <1>1, <3>1, <4>1, SameRecoverable
      <3> QED BY <3>1, <3>3, <3>4
    <2>5. ASSUME NEW ok \in Outcome("files"), UploadFiles(ok) PROVE KeepsWrites
      <3>1. /\ current' = current /\ logs' = logs /\ current # checkpointTime
            /\ snap' = snap \/ snap' = [snap EXCEPT ![checkpointTime] = checkpoint]
        BY <2>5 DEF UploadFiles, RecoveryInv, SnapshotsInOrder
      <3>2. snap \in [Id -> Seq(Writes)]
        BY DEF RecoveryInv, RTypeOK
      <3>3. CASE snap' = snap
        BY <1>1, <3>1, <3>3, SameRecoverable
      <3>4. CASE snap' = [snap EXCEPT ![checkpointTime] = checkpoint]
        <4>1. snap'[current] = snap[current]
          BY <2>0, <3>1, <3>2, <3>4
        <4> QED BY <1>1, <3>1, <4>1, SameRecoverable
      <3> QED BY <3>1, <3>3, <3>4
    <2>6. ASSUME NEW ok \in Outcome("current"), WriteCurrent(ok) PROVE KeepsWrites
      <3>1. CASE current' = current
        BY <2>1, <2>6, <3>1 DEF WriteCurrent
      <3>2. CASE current' # current
        <4> SUFFICES ASSUME ~ chosen PROVE IsPrefix(Recoverable, Recoverable')
          BY DEF KeepsWrites
        <4>1. pc = "current" /\ Checkpointing
          BY <2>6 DEF WriteCurrent, Checkpointing
        <4>2. Recoverable' = checkpoint /\ checkpoint \in Seq(Writes) /\ disk = "whole" /\ ~ Recovering
          BY <2>6, <3>2, <4>1, CheckpointKnown, NamedRecoverable
        <4>5. Begins(Of(current), checkpoint)
          BY <1>1, <4>1, <4>2 DEF RecoveryInv, RecoveryParts, HistExtends
        <4>6. Recoverable = Of(current) /\ Of(current) \in Seq(Writes)
          BY <1>1, CurrentIsWhole DEF Recoverable, Of
        <4> QED BY <4>2, <4>5, <4>6, BeginsIsPrefix
      <3> QED BY <3>1, <3>2
    <2>7. ASSUME NEW ok \in Outcome("delete"), DeleteOldSnapshots(ok) PROVE KeepsWrites
      <3>1. ok \in BOOLEAN /\ current' = current /\ current = checkpointTime
        BY <2>7 DEF DeleteOldSnapshots, Outcome, RecoveryInv, SnapshotsInOrder
      <3>2. snap'[current] = snap[current] /\ logs'[current] = logs[current]
        BY <2>7, <3>1, DeletionSpares
      <3> QED BY <1>1, <3>1, <3>2, SameRecoverable
    <2>8. ASSUME NEW t \in Id, NEW ok \in Outcome("current"), SetCurrentSnapshot(t, ok) PROVE KeepsWrites
      <3>1. (chosen' = TRUE) \/ UNCHANGED <<current, snap, logs>>
        BY <2>8 DEF SetCurrentSnapshot, NameCurrent
      <3> QED BY <2>1, <3>1 DEF KeepsWrites
    <2> QED BY <2>2, <2>3, <2>4, <2>5, <2>6, <2>7, <2>8 DEF Next
  <1> QED BY <1>0, <1>1, <1>2

\* Nothing but an operator's choice, or a checkpoint that was given up, makes a recovery lose a
\* write that it would have brought back before (rocks_fs.rs:490-503, rocks_store.rs:1281-1315).
THEOREM RecoveryNeverLoses ==
    ASSUME SafeFaults
    PROVE  Spec => RecoveryKeepsWrites
  <1>1. RecoveryInv /\ RecoveryInv' /\ [Next]_vars => KeepsWrites
    BY StepKeepsWrites
  <1>2. [KeepsWrites]_vars => [chosen \/ chosen' \/ current \in givenUp \/ IsPrefix(Recoverable, Recoverable')]_vars
    BY DEF KeepsWrites
  <1> QED BY <1>1, <1>2, RecoveryInvariant, PTL DEF Spec, RecoveryKeepsWrites
=============================================================================
