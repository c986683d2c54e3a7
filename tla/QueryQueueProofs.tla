-------------------------- MODULE QueryQueueProofs --------------------------
(***************************************************************************)
(* Proofs about QueryQueue, for any processes, callers, paths and rows,    *)
(* and any processes that crash, fail and cancel.                          *)
(*                                                                         *)
(* QInv is inductive: what a processQuery call that is under way knows of  *)
(* its row (CallOfRow), what a caller knows (CallersHaveRows), and what    *)
(* the chain of its process owes it (LateCallersAreAwaited).  With it      *)
(* every step of the processes is a step of the store or leaves the store  *)
(* alone, so that they inherit what is proved about CacheQueue.            *)
(***************************************************************************)
EXTENDS QueryQueue, CacheQueueRefinement

\* A call that is under way uses the id of the row it retrieved, which has left the
\* pending rows for good, and runs in a process the row is for.
CallOfRow == \A i \in Id : exec[i].pc \in {"running", "timedOut", "finished"} =>
  /\ exec[i].as = i
  /\ exec[i].node \in Process
  /\ status[i] \notin {"unborn", "pending"}
  /\ Owner[pathOf[i]] \in {NoProcess, exec[i].node}

\* A caller knows its process, and, once it has added it, its row.
CallersHaveRows == \A c \in Client :
  /\ client[c].pc # "idle" => client[c].node \in Process
  /\ client[c].pc \in {"await", "awaitNext", "block", "stream"} => client[c].id \in Id \ Unborn

\* Who came during a pass is awaited by the chain, which goes on.
LateCallersAreAwaited == \A c \in Client : client[c].pc = "awaitNext" =>
  recon[client[c].node].pc # "idle" /\ recon[client[c].node].again

QInv == QTypeOK /\ OneRowPerPath /\ CallOfRow /\ LeaseHeld /\ CallersHaveRows /\ LateCallersAreAwaited

-----------------------------------------------------------------------------
(* Steps of the processes are steps of the store *)

LEMMA KeysFindTheirRow ==
  ASSUME TypeOK, NEW i \in Id
  PROVE  Find(i) \subseteq {i}
<1>1. i \in Nat
  BY CacheQueueAssumption DEF Id
<1>2. i \notin Path \cup {None}
  BY <1>1, CacheQueueAssumption
<1>3. \A j \in Id : pathOf[j] # i
  BY <1>2 DEF TypeOK
<1> QED
  BY <1>3 DEF Find, Rows

\* A row is found by a path, and only by that of its own.
LEMMA PathsFindRows ==
  ASSUME TypeOK, NEW i \in Id, NEW r \in Find(pathOf[i])
  PROVE  r \in Id /\ pathOf[i] \in Path /\ pathOf[r] = pathOf[i]
<1>1. r \in Id /\ r \in Nat
  BY CacheQueueAssumption DEF Find, Rows, Id
<1>2. r \notin Path \cup {None}
  BY <1>1, CacheQueueAssumption
<1>3. pathOf[i] \in Path \cup {None}
  BY DEF TypeOK
<1>4. pathOf[r] = pathOf[i]
  BY <1>2, <1>3 DEF Find
<1>5. pathOf[r] # None
  BY <1>1 DEF TypeOK, Find, Rows
<1> QED
  BY <1>1, <1>3, <1>4, <1>5

LEMMA CancelIsStoreStep ==
  ASSUME NEW n \in Process, NEW i \in Id, CancelAndStop(n, i)
  PROVE  [Next]_storeVars
BY DEF CancelAndStop, NoRow, Next, Key

LEMMA StepIsStoreStep ==
  ASSUME QInv, [QNext]_vars
  PROVE  [Next]_storeVars
<1> USE QueryQueueAssumption DEF QInv, QTypeOK
<1>1. CASE Store
  BY <1>1 DEF Store, Next
<1>2. ASSUME NEW c \in Client, NEW n \in Process, PollAnswered(c, n) \/ PollMissed(c, n) PROVE [Next]_storeVars
  BY <1>2 DEF PollAnswered, PollMissed, Next
<1>3. ASSUME NEW c \in Client, AddToQueue(c) PROVE [Next]_storeVars
  BY <1>3 DEF AddToQueue, Next
<1>4. ASSUME NEW c \in Client, GetResultBlocking(c) PROVE [Next]_storeVars
  <2>1. client[c].id \in Id /\ client[c].id \notin Unborn /\ Subscribe(c, client[c].id)
    BY <1>4 DEF GetResultBlocking, CallersHaveRows
  <2> QED
    BY <2>1 DEF Next, Key
<1>5. ASSUME NEW c \in Client, Blocking(c) PROVE [Next]_storeVars
  BY <1>5 DEF Blocking, Next
<1>6. ASSUME NEW c \in Client, AwaitStream(c) PROVE [Next]_storeVars
  BY <1>6 DEF AwaitStream
<1>7. ASSUME NEW n \in Process, ReadToCancel(n) \/ ReadListAndSend(n) \/ ReconcileFails(n) \/ Crash(n)
      PROVE  [Next]_storeVars
  BY <1>7 DEF ReadToCancel, ReadListAndSend, ReconcileFails, Crash
<1>8. ASSUME NEW n \in Process, NEW i \in Id, CancelOne(n, i) \/ ManualCancel(n, i) PROVE [Next]_storeVars
  BY <1>8, CancelIsStoreStep DEF CancelOne, ManualCancel
<1>9. ASSUME NEW n \in Process, NEW i \in Id, RetrieveForProcessing(n, i) PROVE [Next]_storeVars
  <2>1. CASE UNCHANGED storeVars
    BY <2>1
  <2>2. ASSUME NEW r \in Find(pathOf[i]), Retrieve(pathOf[i], n) PROVE [Next]_storeVars
    BY <2>2, PathsFindRows DEF Next
  <2> QED
    BY <1>9, <2>1, <2>2 DEF RetrieveForProcessing
<1>10. ASSUME NEW i \in Id, SetCancelHandler(i) \/ UpdateHeartBeat(i) \/ SetResultAndRemoveQuery(i)
       PROVE  [Next]_storeVars
  <2>1. exec[i].as = i
    BY <1>10 DEF SetCancelHandler, UpdateHeartBeat, SetResultAndRemoveQuery, CallOfRow
  <2>2. CASE SetCancelHandler(i)
    BY <2>1, <2>2 DEF SetCancelHandler, NoRow, Next, Key
  <2>3. CASE UpdateHeartBeat(i)
    BY <2>1, <2>3 DEF UpdateHeartBeat, Next, Key
  <2>4. CASE SetResultAndRemoveQuery(i)
    BY <2>1, <2>4 DEF SetResultAndRemoveQuery, NoRow, Next, Key
  <2> QED
    BY <1>10, <2>2, <2>3, <2>4
<1>11. ASSUME NEW i \in Id, QueryEnds(i) \/ CancelTimedOut(i) \/ ExecutionTimeout(i) \/ StorageError(i)
       PROVE  [Next]_storeVars
  BY <1>11 DEF QueryEnds, CancelTimedOut, ExecutionTimeout, StorageError
<1>12. CASE UNCHANGED vars
  BY <1>12 DEF vars
<1> QED
  BY <1>1, <1>2, <1>3, <1>4, <1>5, <1>6, <1>7, <1>8, <1>9, <1>10, <1>11, <1>12
  DEF QNext, Caller, Reconcile, Processing

\* A row that was started never waits again.
LEMMA StartedStays ==
  ASSUME TypeOK, [Next]_storeVars, NEW j \in Id, status[j] \notin {"unborn", "pending"}
  PROVE  status'[j] \notin {"unborn", "pending"} /\ pathOf'[j] = pathOf[j]
<1> USE DEF TypeOK
<1>1. pathOf'[j] = pathOf[j] /\ pathOf[j] # None
  BY StepOnEnded
<1>2. status'[j] # "unborn"
  BY <1>1, NextTypeOK
<1>3. status'[j] # "pending"
  <2> DEFINE Goal == status'[j] # "pending"
  <2>1. ASSUME NEW p \in Path, NEW i \in Id, Add(p, i) \/ ReadResult(p, i) PROVE Goal
    BY <2>1 DEF Add, ReadResult, Fresh, Unborn, rowVars, storeVars
  <2>2. ASSUME NEW p \in Path, NEW n \in Process, Retrieve(p, n) PROVE Goal
    BY <2>2 DEF Retrieve, Find, Rows, End
  <2>3. ASSUME NEW key \in Key, Cancel(key) \/ Heartbeat(key) PROVE Goal
    BY <2>3 DEF Cancel, Heartbeat, Find, Rows, End
  <2>4. ASSUME NEW key \in Key, NEW h \in Handle, MergeExtra(key, h) PROVE Goal
    BY <2>4 DEF MergeExtra
  <2>5. ASSUME NEW key \in Key, NEW r \in BOOLEAN, Ack(key, r) PROVE Goal
    BY <2>5 DEF Ack, Find, Rows, End
  <2>6. ASSUME NEW key \in Key, NEW w \in Waiter, Subscribe(w, key) PROVE Goal
    BY <2>6 DEF Subscribe, queueVars
  <2>7. ASSUME NEW i \in Id, ExpireResult(i) \/ Broadcast(i) \/ CompactItem(i) \/ CompactPayload(i) PROVE Goal
    BY <2>7 DEF ExpireResult, Broadcast, CompactItem, CompactPayload, End, Rows, rowVars
  <2>8. ASSUME NEW w \in Waiter, LookupFirst(w) \/ StartWaiting(w) \/ TakeEvent(w) \/ TimeOut(w) \/ Lagged(w) PROVE Goal
    BY <2>8 DEF LookupFirst, StartWaiting, TakeEvent, TimeOut, Lagged, rowVars, queueVars
  <2>9. CASE Truncate \/ Tick \/ UNCHANGED storeVars
    BY <2>9 DEF Truncate, Tick, storeVars
  <2> QED
    BY <2>1, <2>2, <2>3, <2>4, <2>5, <2>6, <2>7, <2>8, <2>9 DEF Next
<1> QED
  BY <1>1, <1>2, <1>3

LEMMA BornStays ==
  ASSUME TypeOK, [Next]_storeVars
  PROVE  Unborn' \subseteq Unborn
BY StepOnEnded, NextTypeOK DEF TypeOK, Unborn

-----------------------------------------------------------------------------
(* Type correctness *)

ClientType == [Client -> [pc : {"idle", "add", "await", "awaitNext", "block", "stream"},
                          node : Process \cup {None}, id : Id \cup {None}]]
ReconType == [Process -> [pc : {"idle", "toCancel", "cancel"}, todo : SUBSET Id, again : BOOLEAN]]
ExecType == [Id -> [pc : {"none", "running", "timedOut", "finished", "done", "lost"},
                    node : Process \cup {None}, as : Id \cup {None},
                    handle : Handle \cup {None}, query : BOOLEAN]]
CounterType == [Process -> 0..MaxId]

\* The variables of the processes, their types unexpanded.
NodesTypeOK ==
  /\ client \in ClientType /\ recon \in ReconType /\ sent \subseteq Process \X Id
  /\ exec \in ExecType /\ counter \in CounterType /\ up \subseteq Process

LEMMA TypesOfBoth == QTypeOK <=> TypeOK /\ NodesTypeOK
BY DEF QTypeOK, NodesTypeOK, ClientType, ReconType, ExecType, CounterType

LEMMA TypesOfBothNext == QTypeOK' <=> TypeOK' /\ NodesTypeOK'
BY DEF QTypeOK, NodesTypeOK, ClientType, ReconType, ExecType, CounterType

LEMMA CallReconcileType ==
  ASSUME NEW n, recon \in ReconType, CallReconcile(n)
  PROVE  recon' \in ReconType
BY DEF CallReconcile, ReconType

LEMMA EndsType ==
  ASSUME exec \in ExecType, NEW J
  PROVE  Ends(J) \in ExecType
BY DEF ExecType, Ends

\* The record an action writes into the row of one call or one client.
LEMMA OneClientType ==
  ASSUME client \in ClientType, NEW c \in Client, NEW x, client' = [client EXCEPT ![c] = x],
         x \in [pc : {"idle", "add", "await", "awaitNext", "block", "stream"},
                node : Process \cup {None}, id : Id \cup {None}]
  PROVE  client' \in ClientType
BY DEF ClientType

LEMMA NextNodesTypeOK == QInv /\ [QNext]_vars => NodesTypeOK'
<1> SUFFICES ASSUME QInv, [QNext]_vars PROVE NodesTypeOK'
  OBVIOUS
<1> USE QueryQueueAssumption
<1>0. TypeOK /\ NodesTypeOK
  BY TypesOfBoth DEF QInv
<1> USE DEF NodesTypeOK
<1>1. CASE Store
  BY <1>0, <1>1 DEF Store, nodeVars
<1>2. ASSUME NEW c \in Client, NEW n \in Process, PollAnswered(c, n) PROVE NodesTypeOK'
  BY <1>0, <1>2 DEF PollAnswered, nodeVars
<1>3. ASSUME NEW c \in Client, NEW n \in Process, PollMissed(c, n) PROVE NodesTypeOK'
  BY <1>0, <1>3, OneClientType DEF PollMissed
<1>4. ASSUME NEW c \in Client, AddToQueue(c) PROVE NodesTypeOK'
  <2>1. recon' \in ReconType
    BY <1>0, <1>4, CallReconcileType DEF AddToQueue
  <2>2. client' \in ClientType
    <3> DEFINE a == AwaitPc(client[c].node)
    <3>1. PICK i \in Id : client' = [client EXCEPT ![c].pc = a, ![c].id = i]
      BY <1>4 DEF AddToQueue
    <3>2. a \in {"await", "awaitNext"}
      BY DEF AwaitPc
    <3> HIDE DEF a
    <3> DEFINE x == [client[c] EXCEPT !.pc = a, !.id = i]
    <3>3. client' = [client EXCEPT ![c] = x]
      BY <1>0, <3>1 DEF ClientType
    <3>4. x \in [pc : {"idle", "add", "await", "awaitNext", "block", "stream"},
                node : Process \cup {None}, id : Id \cup {None}]
      BY <1>0, <3>2 DEF ClientType
    <3> HIDE DEF x
    <3> QED
      BY <1>0, <3>3, <3>4, OneClientType
  <2> QED
    BY <1>0, <1>4, <2>1, <2>2 DEF AddToQueue
<1>5. ASSUME NEW c \in Client, GetResultBlocking(c) \/ AwaitStream(c) PROVE NodesTypeOK'
  BY <1>0, <1>5, OneClientType DEF GetResultBlocking, AwaitStream, Idle
<1>6. ASSUME NEW c \in Client, Blocking(c) PROVE NodesTypeOK'
  BY <1>0, <1>6 DEF Blocking, nodeVars
<1>7. ASSUME NEW n \in Process, ReadToCancel(n) PROVE NodesTypeOK'
  <2>1. PICK T \in SUBSET Id : recon' = [recon EXCEPT ![n].pc = "cancel", ![n].todo = T]
    BY <1>7 DEF ReadToCancel, ToCancel, Rows
  <2>2. recon' \in ReconType
    BY <1>0, <2>1 DEF ReconType
  <2> QED
    BY <1>0, <1>7, <2>2 DEF ReadToCancel
<1>8. ASSUME NEW n \in Process, ReadListAndSend(n) PROVE NodesTypeOK'
  <2>1. ToProcess(n) \subseteq Id
    BY DEF ToProcess, Visible, Rows
  <2>2. recon' \in ReconType
    BY <1>0, <1>8 DEF ReadListAndSend, ReconType
  <2>3. Promoted(n) \in ClientType
    BY <1>0 DEF Promoted, ClientType
  <2>4. Released(n) \in ClientType
    BY <1>0 DEF Released, AfterReconcile, Idle, ClientType
  <2> QED
    BY <1>0, <1>8, <2>1, <2>2, <2>3, <2>4 DEF ReadListAndSend
<1>9. ASSUME NEW n \in Process, ReconcileFails(n) PROVE NodesTypeOK'
  <2>1. client' \in ClientType
    BY <1>0, <1>9 DEF ReconcileFails, Idle, ClientType
  <2>2. recon' \in ReconType
    BY <1>0, <1>9 DEF ReconcileFails, ReconType
  <2> QED
    BY <1>0, <1>9, <2>1, <2>2 DEF ReconcileFails
<1>10. ASSUME NEW n \in Process, Crash(n) PROVE NodesTypeOK'
  <2>1. client' \in ClientType
    BY <1>0, <1>10 DEF Crash, Idle, ClientType
  <2>2. recon' \in ReconType
    BY <1>0, <1>10 DEF Crash, ReconType
  <2>3. exec' \in ExecType
    <3> DEFINE Lost(i) == [exec[i] EXCEPT !.pc = IF @ = "done" THEN @ ELSE "lost", !.query = FALSE]
    <3>1. exec' = [i \in Id |-> IF exec[i].node = n THEN Lost(i) ELSE exec[i]]
      BY <1>10 DEF Crash
    <3>2. ASSUME NEW i \in Id
          PROVE  Lost(i) \in [pc : {"none", "running", "timedOut", "finished", "done", "lost"},
                              node : Process \cup {None}, as : Id \cup {None},
                              handle : Handle \cup {None}, query : BOOLEAN]
      BY <1>0 DEF ExecType
    <3> HIDE DEF Lost
    <3> QED
      BY <1>0, <3>1, <3>2 DEF ExecType
  <2> QED
    BY <1>0, <1>10, <2>1, <2>2, <2>3 DEF Crash
<1>11. ASSUME NEW n \in Process, NEW i \in Id, CancelOne(n, i) \/ ManualCancel(n, i) PROVE NodesTypeOK'
  <2>1. exec' \in ExecType
    BY <1>0, <1>11, EndsType DEF CancelOne, ManualCancel, CancelAndStop
  <2>2. recon' \in ReconType
    BY <1>0, <1>11 DEF CancelOne, ManualCancel, ReconType
  <2> QED
    BY <1>0, <1>11, <2>1, <2>2 DEF CancelOne, ManualCancel
<1>12. ASSUME NEW n \in Process, NEW i \in Id, RetrieveForProcessing(n, i) PROVE NodesTypeOK'
  <2>1. exec' \in ExecType
    <3>1. CASE exec' = exec
      BY <1>0, <3>1
    <3>2. ASSUME NEW r \in Find(pathOf[i]),
                 exec' = [exec EXCEPT ![r] = [pc |-> "running", node |-> n, as |-> r,
                                             handle |-> None, query |-> TRUE]]
          PROVE  exec' \in ExecType
      BY <1>0, <3>2, PathsFindRows DEF ExecType
    <3> QED
      BY <1>12, <3>1, <3>2 DEF RetrieveForProcessing
  <2> QED
    BY <1>0, <1>12, <2>1 DEF RetrieveForProcessing
<1>13. ASSUME NEW i \in Id, SetCancelHandler(i) PROVE NodesTypeOK'
  <2> DEFINE n == exec[i].node
             h == counter[n] + 1
  <2>1. /\ h \in Handle
        /\ counter' = [counter EXCEPT ![n] = h]
        /\ exec' = [exec EXCEPT ![i].handle = h]
    BY <1>13 DEF SetCancelHandler
  <2>2. h \in 0..MaxId
    BY <2>1, CacheQueueAssumption
  <2>3. counter' \in CounterType
    BY <1>0, <2>1, <2>2 DEF CounterType
  <2>4. exec' \in ExecType
    BY <1>0, <2>1 DEF ExecType
  <2> QED
    BY <1>0, <1>13, <2>3, <2>4 DEF SetCancelHandler
<1>14. ASSUME NEW i \in Id, UpdateHeartBeat(i) PROVE NodesTypeOK'
  BY <1>0, <1>14 DEF UpdateHeartBeat, nodeVars
<1>15. ASSUME NEW i \in Id, QueryEnds(i) PROVE NodesTypeOK'
  BY <1>0, <1>15, EndsType DEF QueryEnds
<1>16. ASSUME NEW i \in Id, CancelTimedOut(i) PROVE NodesTypeOK'
  <2>1. PICK J : exec' = [Ends(J) EXCEPT ![i].pc = "finished"]
    BY <1>16 DEF CancelTimedOut
  <2>2. exec' \in ExecType
    BY <1>0, <2>1, EndsType DEF ExecType
  <2> QED
    BY <1>0, <1>16, <2>2 DEF CancelTimedOut
<1>17. ASSUME NEW i \in Id, ExecutionTimeout(i) \/ StorageError(i) PROVE NodesTypeOK'
  <2>1. exec' \in ExecType
    BY <1>0, <1>17 DEF ExecutionTimeout, StorageError, ExecType
  <2> QED
    BY <1>0, <1>17, <2>1 DEF ExecutionTimeout, StorageError
<1>18. ASSUME NEW i \in Id, SetResultAndRemoveQuery(i) PROVE NodesTypeOK'
  <2>1. exec' \in ExecType
    BY <1>0, <1>18 DEF SetResultAndRemoveQuery, ExecType
  <2>2. recon' \in ReconType
    BY <1>0, <1>18, CallReconcileType DEF SetResultAndRemoveQuery
  <2> QED
    BY <1>0, <1>18, <2>1, <2>2 DEF SetResultAndRemoveQuery
<1>19. CASE UNCHANGED vars
  BY <1>0, <1>19 DEF vars, nodeVars
<1> QED
  BY <1>1, <1>2, <1>3, <1>4, <1>5, <1>6, <1>7, <1>8, <1>9, <1>10, <1>11, <1>12, <1>13, <1>14, <1>15,
     <1>16, <1>17, <1>18, <1>19
  DEF QNext, Caller, Reconcile, Processing

LEMMA NextQTypeOK == QInv /\ [QNext]_vars => QTypeOK'
<1> SUFFICES ASSUME QInv, [QNext]_vars PROVE QTypeOK'
  OBVIOUS
<1>1. TypeOK'
  BY StepIsStoreStep, NextTypeOK DEF QInv, QTypeOK
<1> QED
  BY <1>1, NextNodesTypeOK, TypesOfBothNext

-----------------------------------------------------------------------------
(* Calls and their rows *)

\* What a step does to the call of row j and to the row.  A call goes on as the same
\* call; one that ends well leaves its row; a row becomes active only by a retrieval, which starts
\* the call.
Going == {"running", "timedOut", "finished"}
GoesOn(j) ==
  /\ exec'[j].pc \in Going => exec[j].pc \in Going /\ exec'[j].as = exec[j].as /\ exec'[j].node = exec[j].node
  /\ status'[j] = "active" => /\ status[j] = "active"
                              /\ exec[j].pc \in Going \cup {"lost"} => exec'[j].pc \in Going \cup {"lost"}
Started(j) == \E n \in Process :
  /\ exec'[j] = [pc |-> "running", node |-> n, as |-> j, handle |-> None, query |-> TRUE]
  /\ status'[j] = "active" /\ MayTake(n, j) /\ pathOf' = pathOf

\* Queries that end end no call but those that listen.
LEMMA EndsOnCalls ==
  ASSUME exec \in ExecType, NEW J, NEW j \in Id
  PROVE  /\ Ends(J)[j].as = exec[j].as /\ Ends(J)[j].node = exec[j].node
         /\ Ends(J)[j].pc = exec[j].pc \/ (exec[j].pc = "running" /\ Ends(J)[j].pc = "finished")
BY DEF Ends, ExecType

LEMMA CancelOnCalls ==
  ASSUME QInv, NEW n \in Process, NEW i \in Id, CancelAndStop(n, i), NEW j \in Id
  PROVE  GoesOn(j)
<1>1. PICK J : exec' = Ends(J) \/ exec' = exec
  BY DEF CancelAndStop
<1>2. status'[j] = "active" => status[j] = "active"
  BY DEF CancelAndStop, Cancel, NoRow, storeVars, End, QInv, QTypeOK, TypeOK, Find, Rows
<1>3. exec \in ExecType
  BY DEF QInv, QTypeOK, ExecType
<1> QED
  BY <1>1, <1>2, <1>3, EndsOnCalls DEF GoesOn, Going

LEMMA RetrievalOnCalls ==
  ASSUME QInv, NEW n \in Process, NEW i \in Id, RetrieveForProcessing(n, i), NEW j \in Id
  PROVE  GoesOn(j) \/ Started(j)
<1>1. CASE UNCHANGED <<storeVars, exec>>
  BY <1>1 DEF GoesOn, storeVars
<1>2. CASE \E r \in Find(pathOf[i]) :
          /\ Retrieve(pathOf[i], n)
          /\ exec' = IF r \in payload
                     THEN [exec EXCEPT ![r] = [pc |-> "running", node |-> n, as |-> r,
                                               handle |-> None, query |-> TRUE]]
                     ELSE exec
  <2>1. PICK r \in Find(pathOf[i]) :
          /\ Retrieve(pathOf[i], n)
          /\ exec' = IF r \in payload
                     THEN [exec EXCEPT ![r] = [pc |-> "running", node |-> n, as |-> r,
                                               handle |-> None, query |-> TRUE]]
                     ELSE exec
    BY <1>2
  <2>2. PICK q \in Find(pathOf[i]) :
          /\ CanRetrieve(q, n)
          /\ \/ q \in payload /\ status' = [status EXCEPT ![q] = "active"] /\ pathOf' = pathOf
             \/ q \notin payload /\ status' = [status EXCEPT ![q] = "dropped"] /\ pathOf' = pathOf
    BY <2>1 DEF Retrieve, End
  <2>3. q = r /\ r \in Id
    BY PathsFindRows DEF QInv, QTypeOK, OneRowPerPath, Find
  <2>4. status \in [Id -> Status] /\ exec \in ExecType
    BY DEF QInv, QTypeOK, TypeOK, ExecType
  <2>5. CASE r \in payload /\ j = r
    <3>1. exec'[j] = [pc |-> "running", node |-> n, as |-> j, handle |-> None, query |-> TRUE]
      BY <2>1, <2>4, <2>5 DEF ExecType
    <3>2. status'[j] = "active" /\ MayTake(n, j) /\ pathOf' = pathOf
      BY <2>2, <2>3, <2>4, <2>5 DEF CanRetrieve
    <3> QED
      BY <3>1, <3>2 DEF Started
  <2>6. CASE ~(r \in payload /\ j = r)
    <3>1. exec'[j] = exec[j]
      BY <2>1, <2>4, <2>6 DEF ExecType
    <3>2. status'[j] = "active" => status[j] = "active"
      BY <2>2, <2>3, <2>4, <2>6
    <3> QED
      BY <3>1, <3>2 DEF GoesOn
  <2> QED
    BY <2>5, <2>6
<1> QED
  BY <1>1, <1>2 DEF RetrieveForProcessing

\* The end of a call leaves no row of its own behind.
LEMMA ResultOnCalls ==
  ASSUME QInv, NEW i \in Id, SetResultAndRemoveQuery(i), NEW j \in Id
  PROVE  GoesOn(j)
<1>1. exec[i].as = i /\ exec[i].pc = "finished"
  BY DEF SetResultAndRemoveQuery, QInv, CallOfRow
<1>2. exec' = [exec EXCEPT ![i].pc = "done"] /\ exec \in ExecType
  BY DEF SetResultAndRemoveQuery, QInv, QTypeOK, ExecType
<1>3. /\ status'[j] = "active" => status[j] = "active"
      /\ status'[i] # "active"
  <2> USE DEF QInv, QTypeOK, TypeOK
  <2>1. CASE NoRow(i)
    BY <2>1 DEF NoRow, storeVars, Find, Rows
  <2>2. CASE Ack(i, TRUE)
    <3>1. PICK k \in Find(i) : status' = [status EXCEPT ![k] = "acked"]
      BY <2>2 DEF Ack, End
    <3>2. k = i
      BY <3>1, KeysFindTheirRow
    <3> QED
      BY <3>1, <3>2
  <2> QED
    BY <1>1, <2>1, <2>2 DEF SetResultAndRemoveQuery
<1> QED
  BY <1>1, <1>2, <1>3 DEF GoesOn, Going, ExecType

LEMMA StepOnCalls ==
  ASSUME QInv, [QNext]_vars, NEW j \in Id
  PROVE  GoesOn(j) \/ Started(j)
<1>0. status \in [Id -> Status] /\ exec \in ExecType
  BY DEF QInv, QTypeOK, TypeOK, ExecType
<1>1. CASE Store
  BY <1>0, <1>1 DEF Store, Tick, Broadcast, ExpireResult, nodeVars, rowVars, GoesOn
<1>2. ASSUME NEW c \in Client, NEW n \in Process, PollAnswered(c, n) \/ PollMissed(c, n) PROVE GoesOn(j)
  BY <1>0, <1>2 DEF PollAnswered, PollMissed, ReadResult, nodeVars, storeVars, rowVars, GoesOn
<1>3. ASSUME NEW c \in Client, AddToQueue(c) PROVE GoesOn(j)
  BY <1>0, <1>3 DEF AddToQueue, Add, storeVars, GoesOn
<1>4. ASSUME NEW c \in Client, GetResultBlocking(c) \/ AwaitStream(c) PROVE GoesOn(j)
  BY <1>4 DEF GetResultBlocking, AwaitStream, Subscribe, queueVars, storeVars, GoesOn
<1>5. ASSUME NEW c \in Client, Blocking(c) PROVE GoesOn(j)
  BY <1>5 DEF Blocking, LookupFirst, StartWaiting, TakeEvent, TimeOut, Lagged, nodeVars, queueVars, rowVars, GoesOn
<1>6. ASSUME NEW n \in Process, ReadToCancel(n) \/ ReadListAndSend(n) \/ ReconcileFails(n) PROVE GoesOn(j)
  BY <1>6 DEF ReadToCancel, ReadListAndSend, ReconcileFails, storeVars, GoesOn
<1>7. ASSUME NEW n \in Process, Crash(n) PROVE GoesOn(j)
  BY <1>0, <1>7 DEF Crash, storeVars, GoesOn, Going, ExecType
<1>8. ASSUME NEW n \in Process, NEW i \in Id, CancelOne(n, i) \/ ManualCancel(n, i) PROVE GoesOn(j)
  BY <1>8, CancelOnCalls DEF CancelOne, ManualCancel
<1>9. ASSUME NEW n \in Process, NEW i \in Id, RetrieveForProcessing(n, i) PROVE GoesOn(j) \/ Started(j)
  BY <1>9, RetrievalOnCalls
<1>10. ASSUME NEW i \in Id, SetCancelHandler(i) PROVE GoesOn(j)
  BY <1>0, <1>10 DEF SetCancelHandler, MergeExtra, NoRow, storeVars, GoesOn, Going, ExecType
<1>11. ASSUME NEW i \in Id, UpdateHeartBeat(i) PROVE GoesOn(j)
  BY <1>11 DEF UpdateHeartBeat, Heartbeat, nodeVars, GoesOn
<1>12. ASSUME NEW i \in Id, QueryEnds(i) PROVE GoesOn(j)
  BY <1>0, <1>12 DEF QueryEnds, Ends, storeVars, GoesOn, Going, ExecType
<1>13. ASSUME NEW i \in Id, CancelTimedOut(i) PROVE GoesOn(j)
  <2>1. PICK J : exec' = [Ends(J) EXCEPT ![i].pc = "finished"]
    BY <1>13 DEF CancelTimedOut
  <2>2. exec[i].pc = "timedOut" /\ status' = status
    BY <1>13 DEF CancelTimedOut, storeVars
  <2>3. /\ Ends(J)[j].as = exec[j].as /\ Ends(J)[j].node = exec[j].node
        /\ Ends(J)[j].pc = exec[j].pc \/ (exec[j].pc = "running" /\ Ends(J)[j].pc = "finished")
    BY <1>0, EndsOnCalls
  <2>4. /\ exec'[j].as = exec[j].as /\ exec'[j].node = exec[j].node
        /\ \/ j # i /\ exec'[j].pc = Ends(J)[j].pc
           \/ j = i /\ exec'[j].pc = "finished"
    BY <1>0, <2>1, <2>3, EndsType DEF ExecType
  <2> QED
    BY <2>2, <2>3, <2>4 DEF GoesOn, Going
<1>14. ASSUME NEW i \in Id, ExecutionTimeout(i) PROVE GoesOn(j)
  BY <1>0, <1>14 DEF ExecutionTimeout, storeVars, GoesOn, Going, ExecType
<1>15. ASSUME NEW i \in Id, StorageError(i) PROVE GoesOn(j)
  BY <1>0, <1>15 DEF StorageError, storeVars, GoesOn, Going, ExecType
<1>16. ASSUME NEW i \in Id, SetResultAndRemoveQuery(i) PROVE GoesOn(j)
  BY <1>16, ResultOnCalls
<1>17. CASE UNCHANGED vars
  BY <1>17 DEF vars, nodeVars, storeVars, GoesOn
<1> QED
  BY <1>1, <1>2, <1>3, <1>4, <1>5, <1>6, <1>7, <1>8, <1>9, <1>10, <1>11, <1>12, <1>13, <1>14, <1>15,
     <1>16, <1>17
  DEF QNext, Caller, Reconcile, Processing

-----------------------------------------------------------------------------
(* The invariant *)

LEMMA NextCalls == QInv /\ [QNext]_vars => CallOfRow' /\ LeaseHeld'
<1> SUFFICES ASSUME QInv, [QNext]_vars PROVE CallOfRow' /\ LeaseHeld'
  OBVIOUS
<1>0. TypeOK /\ CallOfRow /\ LeaseHeld /\ [Next]_storeVars
  BY StepIsStoreStep DEF QInv, QTypeOK
<1>1. ASSUME NEW j \in Id, exec'[j].pc \in Going
      PROVE  /\ exec'[j].as = j
             /\ exec'[j].node \in Process
             /\ status'[j] \notin {"unborn", "pending"}
             /\ Owner[pathOf'[j]] \in {NoProcess, exec'[j].node}
  <2>1. CASE GoesOn(j)
    BY <1>0, <1>1, <2>1, StartedStays DEF GoesOn, Going, CallOfRow
  <2>2. CASE Started(j)
    BY <2>2 DEF Started, MayTake
  <2> QED
    BY <2>1, <2>2, StepOnCalls
<1>2. ASSUME NEW j \in Id, status'[j] = "active"
      PROVE  exec'[j].pc \in Going \cup {"lost"}
  <2>1. CASE GoesOn(j)
    BY <1>0, <1>2, <2>1 DEF GoesOn, Going, LeaseHeld, Active
  <2>2. CASE Started(j)
    BY <2>2 DEF Started, Going
  <2> QED
    BY <2>1, <2>2, StepOnCalls
<1> QED
  BY <1>1, <1>2 DEF CallOfRow, LeaseHeld, Active, Going

\* A step that leaves the callers and the chains alone leaves alone what they know.
LEMMA CallersStayServed ==
  ASSUME QInv, [QNext]_vars, client' = client, recon' = recon
  PROVE  CallersHaveRows' /\ LateCallersAreAwaited'
BY StepIsStoreStep, BornStays DEF QInv, QTypeOK, CallersHaveRows, LateCallersAreAwaited

\* So does one that sends one caller on with what it knew.
LEMMA OneCallerGoesOn ==
  ASSUME QInv, [QNext]_vars, NEW c \in Client, recon' = recon, NEW x,
         client' = [client EXCEPT ![c] = x],
         x = Idle \/ (x.pc = "add" /\ x.node \in Process)
  PROVE  CallersHaveRows' /\ LateCallersAreAwaited'
<1>1. Unborn' \subseteq Unborn
  BY StepIsStoreStep, BornStays DEF QInv, QTypeOK
<1>2. client \in ClientType
  BY DEF QInv, QTypeOK, ClientType
<1>3. ASSUME NEW d \in Client PROVE client'[d] = IF d = c THEN x ELSE client[d]
  BY <1>2 DEF ClientType
<1> QED
  BY <1>1, <1>3 DEF QInv, CallersHaveRows, LateCallersAreAwaited, Idle

\* A call of reconcileQueue keeps the chain going.
LEMMA ChainGoesOn ==
  ASSUME recon \in ReconType, NEW n \in Process, CallReconcile(n), NEW m \in Process
  PROVE  /\ recon[m].pc # "idle" /\ recon[m].again => recon'[m].pc # "idle" /\ recon'[m].again
         /\ recon[n].pc # "idle" => recon'[n].pc # "idle" /\ recon'[n].again
BY DEF CallReconcile, ReconType

LEMMA NextCallers == QInv /\ [QNext]_vars => CallersHaveRows' /\ LateCallersAreAwaited'
<1> SUFFICES ASSUME QInv, [QNext]_vars PROVE CallersHaveRows' /\ LateCallersAreAwaited'
  OBVIOUS
<1> DEFINE Goal == CallersHaveRows' /\ LateCallersAreAwaited'
<1>0. /\ client \in ClientType /\ recon \in ReconType
      /\ CallersHaveRows /\ LateCallersAreAwaited
      /\ Unborn' \subseteq Unborn
  BY StepIsStoreStep, BornStays DEF QInv, QTypeOK, ClientType, ReconType
<1>1. CASE Store
  BY <1>1, CallersStayServed DEF Store, nodeVars
<1>2. ASSUME NEW c \in Client, NEW n \in Process, PollAnswered(c, n) PROVE Goal
  BY <1>2, CallersStayServed DEF PollAnswered, nodeVars
<1>3. ASSUME NEW c \in Client, NEW n \in Process, PollMissed(c, n) PROVE Goal
  BY <1>3, OneCallerGoesOn DEF PollMissed
<1>4. ASSUME NEW c \in Client, AddToQueue(c) PROVE Goal
  <2> DEFINE n == client[c].node
  <2>1. PICK i \in Id : Add(KeyOf[c], i) /\ client' = [client EXCEPT ![c].pc = AwaitPc(n), ![c].id = i]
    BY <1>4 DEF AddToQueue
  <2>2. n \in Process /\ CallReconcile(n)
    BY <1>0, <1>4 DEF AddToQueue, CallersHaveRows
  <2>3. i \notin Unborn'
    <3>1. status \in [Id -> Status] /\ Find(KeyOf[c]) \subseteq Rows
      BY DEF QInv, QTypeOK, TypeOK, Find
    <3> QED
      BY <2>1, <3>1 DEF Add, Unborn, Rows, storeVars
  <2>4. /\ client'[c].id = i /\ client'[c].node = n /\ client'[c].pc = AwaitPc(n)
        /\ \A d \in Client \ {c} : client'[d] = client[d]
    BY <1>0, <2>1 DEF ClientType
  <2>5. CallersHaveRows'
    BY <1>0, <2>2, <2>3, <2>4 DEF CallersHaveRows
  <2>6. ASSUME NEW d \in Client, client'[d].pc = "awaitNext"
        PROVE  recon'[client'[d].node].pc # "idle" /\ recon'[client'[d].node].again
    <3>1. CASE d = c
      BY <1>0, <2>2, <2>4, <2>6, <3>1, ChainGoesOn DEF AwaitPc
    <3>2. CASE d # c
      <4>1. client'[d] = client[d] /\ client[d].node \in Process
        BY <1>0, <2>4, <2>6, <3>2 DEF CallersHaveRows
      <4> QED
        BY <1>0, <2>2, <2>6, <4>1, ChainGoesOn DEF LateCallersAreAwaited
    <3> QED
      BY <3>1, <3>2
  <2> QED
    BY <2>5, <2>6 DEF LateCallersAreAwaited
<1>5. ASSUME NEW c \in Client, GetResultBlocking(c) \/ AwaitStream(c) PROVE Goal
  BY <1>5, OneCallerGoesOn DEF GetResultBlocking, AwaitStream
<1>6. ASSUME NEW c \in Client, Blocking(c) PROVE Goal
  BY <1>6, CallersStayServed DEF Blocking, nodeVars
<1>7. ASSUME NEW n \in Process, ReadToCancel(n) \/ \E i \in Id : CancelOne(n, i) PROVE Goal
  <2>1. client' = client /\ \A m \in Process : recon[m].pc # "idle" => recon'[m].pc # "idle" /\ recon'[m].again = recon[m].again
    BY <1>0, <1>7 DEF ReadToCancel, CancelOne, ReconType
  <2> QED
    BY <1>0, <2>1 DEF CallersHaveRows, LateCallersAreAwaited
<1>8. ASSUME NEW n \in Process, ReadListAndSend(n) PROVE Goal
  <2>1. CASE client' = Promoted(n) /\ recon' = [recon EXCEPT ![n].pc = "toCancel", ![n].again = FALSE]
    <3>1. ASSUME NEW c \in Client
          PROVE  \/ c \notin Waiting(n) /\ client'[c] = client[c]
                 \/ /\ c \in Waiting(n) /\ client'[c].pc = "await"
                    /\ client'[c].node = client[c].node /\ client'[c].id = client[c].id
      BY <1>0, <2>1 DEF Promoted, ClientType
    <3>2. \A m \in Process \ {n} : recon'[m] = recon[m]
      BY <1>0, <2>1 DEF ReconType
    <3> QED
      BY <1>0, <3>1, <3>2 DEF CallersHaveRows, LateCallersAreAwaited, Waiting
  <2>2. CASE client' = Released(n) /\ recon' = [recon EXCEPT ![n].pc = "idle"]
    <3>1. ASSUME NEW c \in Client
          PROVE  \/ c \notin Waiting(n) /\ client'[c] = client[c]
                 \/ c \in Waiting(n) /\ client'[c] = Idle
                 \/ /\ c \in Waiting(n) /\ client'[c].pc \in {"block", "stream"}
                    /\ client'[c].node = client[c].node /\ client'[c].id = client[c].id
      BY <1>0, <2>2 DEF Released, AfterReconcile, ClientType
    <3>2. \A m \in Process \ {n} : recon'[m] = recon[m]
      BY <1>0, <2>2 DEF ReconType
    <3> QED
      BY <1>0, <3>1, <3>2 DEF CallersHaveRows, LateCallersAreAwaited, Waiting, Idle
  <2> QED
    BY <1>8, <2>1, <2>2 DEF ReadListAndSend
<1>9. ASSUME NEW n \in Process, ReconcileFails(n) \/ Crash(n) PROVE Goal
  <2>1. ASSUME NEW c \in Client
        PROVE  \/ client'[c] = Idle
               \/ client'[c] = client[c] /\ ~(client[c].node = n /\ client[c].pc \in {"await", "awaitNext"})
    BY <1>0, <1>9 DEF ReconcileFails, Crash, Waiting, ClientType
  <2>2. \A m \in Process \ {n} : recon'[m] = recon[m]
    BY <1>0, <1>9 DEF ReconcileFails, Crash, ReconType
  <2> QED
    BY <1>0, <2>1, <2>2 DEF CallersHaveRows, LateCallersAreAwaited, Idle
<1>10. ASSUME NEW n \in Process, NEW i \in Id, ManualCancel(n, i) \/ RetrieveForProcessing(n, i) PROVE Goal
  BY <1>10, CallersStayServed DEF ManualCancel, RetrieveForProcessing
<1>11. ASSUME NEW i \in Id, \/ SetCancelHandler(i) \/ UpdateHeartBeat(i) \/ QueryEnds(i)
                           \/ CancelTimedOut(i) \/ ExecutionTimeout(i) \/ StorageError(i)
       PROVE  Goal
  BY <1>11, CallersStayServed
  DEF SetCancelHandler, UpdateHeartBeat, QueryEnds, CancelTimedOut, ExecutionTimeout, StorageError, nodeVars
<1>12. ASSUME NEW i \in Id, SetResultAndRemoveQuery(i) PROVE Goal
  <2>1. client' = client /\ CallReconcile(exec[i].node) /\ exec[i].node \in Process
    BY <1>12 DEF SetResultAndRemoveQuery, QInv, CallOfRow
  <2> QED
    BY <1>0, <2>1, ChainGoesOn DEF CallersHaveRows, LateCallersAreAwaited
<1>13. CASE UNCHANGED vars
  BY <1>13, CallersStayServed DEF vars, nodeVars
<1> QED
  BY <1>1, <1>2, <1>3, <1>4, <1>5, <1>6, <1>7, <1>8, <1>9, <1>10, <1>11, <1>12, <1>13
  DEF QNext, Caller, Reconcile, Processing

LEMMA InitQInv == QInit => QInv
<1> SUFFICES ASSUME QInit PROVE QInv
  OBVIOUS
<1>1. TypeOK
  BY InitTypeOK DEF QInit
<1>2. NodesTypeOK
  BY CacheQueueAssumption
  DEF QInit, NodesTypeOK, Idle, NoExec, ClientType, ReconType, ExecType, CounterType
<1>3. OneRowPerPath /\ LeaseHeld
  BY DEF QInit, Init, OneRowPerPath, LeaseHeld, Rows, Active
<1>4. CallOfRow /\ CallersHaveRows /\ LateCallersAreAwaited
  BY DEF QInit, CallOfRow, CallersHaveRows, LateCallersAreAwaited, Idle, NoExec
<1> QED
  BY <1>1, <1>2, <1>3, <1>4, TypesOfBoth DEF QInv

LEMMA NextQInv == QInv /\ [QNext]_vars => QInv'
<1> SUFFICES ASSUME QInv, [QNext]_vars PROVE QInv'
  OBVIOUS
<1>1. OneRowPerPath'
  BY StepIsStoreStep, NextOneRowPerPath DEF QInv, QTypeOK
<1> QED
  BY <1>1, NextQTypeOK, NextCalls, NextCallers DEF QInv

\* The invariant behind the theorems below.
THEOREM QueueInvariant == QSpec => []QInv
BY InitQInv, NextQInv, PTL DEF QSpec

-----------------------------------------------------------------------------
(* What it is for *)

\* The state of the processes has the declared shape.
THEOREM QueueTypeCorrect == QSpec => []QTypeOK
<1>1. QInv => QTypeOK
  BY DEF QInv
<1> QED
  BY <1>1, QueueInvariant, PTL

\* A slot is held by a call that is under way, or one that was lost.
THEOREM LeasesAreHeld == QSpec => []LeaseHeld
<1>1. QInv => LeaseHeld
  BY DEF QInv
<1> QED
  BY <1>1, QueueInvariant, PTL

\* Queries of persistent keys run where their streams are.
THEOREM QueriesRunAtOwner == QSpec => []RunsAtOwner
<1>1. QInv => RunsAtOwner
  BY DEF QInv, CallOfRow, RunsAtOwner
<1> QED
  BY <1>1, QueueInvariant, PTL

\* However processes interleave, crash, fail and cancel, the store sees a sequence of its
\* own commands: whatever is proved of it holds of the whole.
THEOREM QueueUsesStore == QSpec => Spec
<1>1. QInit => Init
  BY DEF QInit
<1> QED
  BY <1>1, StepIsStoreStep, QueueInvariant, PTL DEF QSpec, Spec

\* So the processes together keep the promises of the abstract queue.
THEOREM QueueImplementsJobQueue == QSpec => ImplementsJobQueue
BY QueueUsesStore, StoreImplementsJobQueue, PTL
-----------------------------------------------------------------------------
(* What its steps may never do *)

LEMMA ServesLateCallers ==
  ASSUME QInv, [QNext]_vars, NEW c \in Client, client[c].pc = "awaitNext"
  PROVE  client'[c].pc \notin {"block", "stream"}
<1> DEFINE Goal == client'[c].pc \notin {"block", "stream"}
<1>0. client \in ClientType /\ LateCallersAreAwaited
  BY DEF QInv, QTypeOK, ClientType
<1>1. CASE client' = client
  BY <1>1
<1>2. ASSUME NEW d \in Client, AddToQueue(d) PROVE Goal
  <2>1. PICK i : client' = [client EXCEPT ![d].pc = AwaitPc(client[d].node), ![d].id = i]
    BY <1>2 DEF AddToQueue
  <2>2. d # c
    BY <1>2 DEF AddToQueue
  <2> QED
    BY <1>0, <2>1, <2>2 DEF ClientType
<1>3. ASSUME NEW d \in Client, GetResultBlocking(d) \/ AwaitStream(d) \/ \E n \in Process : PollMissed(d, n)
      PROVE  Goal
  BY <1>0, <1>3 DEF GetResultBlocking, AwaitStream, PollMissed, Idle, ClientType
<1>4. ASSUME NEW n \in Process, ReadListAndSend(n) PROVE Goal
  <2>1. CASE client' = Promoted(n)
    BY <1>0, <2>1 DEF Promoted, ClientType
  <2>2. CASE client' = Released(n) /\ ~recon[n].again
    BY <1>0, <2>2 DEF Released, Waiting, LateCallersAreAwaited
  <2> QED
    BY <1>4, <2>1, <2>2 DEF ReadListAndSend
<1>5. ASSUME NEW n \in Process, ReconcileFails(n) \/ Crash(n) PROVE Goal
  <2>1. client'[c] \in {client[c], Idle}
    BY <1>0, <1>5 DEF ReconcileFails, Crash, ClientType
  <2> QED
    BY <2>1 DEF Idle
<1>6. CASE Store \/ UNCHANGED vars
  BY <1>1, <1>6 DEF Store, vars, nodeVars
<1>7. ASSUME NEW d \in Client, Blocking(d) \/ \E n \in Process : PollAnswered(d, n) PROVE Goal
  BY <1>1, <1>7 DEF Blocking, PollAnswered, nodeVars
<1>8. ASSUME NEW n \in Process, \/ ReadToCancel(n)
                                \/ \E i \in Id : CancelOne(n, i) \/ ManualCancel(n, i) \/ RetrieveForProcessing(n, i)
      PROVE  Goal
  BY <1>1, <1>8 DEF ReadToCancel, CancelOne, ManualCancel, RetrieveForProcessing
<1>9. ASSUME NEW i \in Id, \/ SetCancelHandler(i) \/ UpdateHeartBeat(i) \/ QueryEnds(i) \/ CancelTimedOut(i)
                           \/ ExecutionTimeout(i) \/ StorageError(i) \/ SetResultAndRemoveQuery(i)
      PROVE  Goal
  BY <1>1, <1>9 DEF SetCancelHandler, UpdateHeartBeat, QueryEnds, CancelTimedOut, ExecutionTimeout, StorageError,
     SetResultAndRemoveQuery, nodeVars
<1> QED
  BY <1>2, <1>3, <1>4, <1>5, <1>6, <1>7, <1>8, <1>9 DEF QNext, Caller, Reconcile, Processing

\* A caller that shares a pass is never sent on by one that began before its row was there.
THEOREM LateCallersAreServed == QSpec => ReconcileServesLateCallers
<1>1. QInv /\ [QNext]_vars =>
        \A c \in Client : client[c].pc = "awaitNext" => client'[c].pc \notin {"block", "stream"}
  BY ServesLateCallers
<1> QED
  BY <1>1, QueueInvariant, PTL DEF QSpec, ReconcileServesLateCallers

\* A lookup, an expiry and an event only use a result up.
ResultsOnlyAge == \A j \in Id : result'[j] = "fresh" => result[j] = "fresh"

LEMMA LookupsAgeResults ==
  ASSUME TypeOK, NEW key, NEW j \in Id
  PROVE  ResultsOnlyAge \/ result' # Consumed(key, j)
BY DEF TypeOK, ResultType, Consumed, ResultsOnlyAge

LEMMA ResultIsOwn ==
  ASSUME QInv, [QNext]_vars, NEW j \in Id, result[j] = "none", result'[j] = "fresh"
  PROVE  exec[j].pc = "finished" /\ exec'[j].pc = "done"
<1> DEFINE Goal == exec[j].pc = "finished" /\ exec'[j].pc = "done"
<1>0. TypeOK /\ exec \in ExecType /\ result \in ResultType
  BY DEF QInv, QTypeOK, TypeOK, ExecType
<1>1. CASE ResultsOnlyAge
  BY <1>1 DEF ResultsOnlyAge
<1>2. CASE result' = result
  BY <1>2
<1>3. ASSUME NEW i \in Id, SetResultAndRemoveQuery(i) PROVE Goal
  <2>1. exec[i].pc = "finished" /\ exec[i].as = i /\ exec' = [exec EXCEPT ![i].pc = "done"]
    BY <1>3 DEF SetResultAndRemoveQuery, QInv, CallOfRow
  <2>2. CASE NoRow(i)
    BY <1>2, <2>2 DEF NoRow, storeVars
  <2>3. CASE Ack(i, TRUE)
    <3>1. PICK k \in Find(i) : result' = [result EXCEPT ![k] = "fresh"]
      BY <2>3 DEF Ack
    <3>2. k = i
      BY <1>0, <3>1, KeysFindTheirRow
    <3>3. j = i
      BY <1>0, <1>2, <3>1, <3>2 DEF ResultType
    <3> QED
      BY <1>0, <2>1, <3>3 DEF ExecType
  <2> QED
    BY <1>3, <2>1, <2>2, <2>3 DEF SetResultAndRemoveQuery
<1>4. CASE Store
  <2>1. ASSUME NEW i \in Id, ExpireResult(i) PROVE Goal
    BY <1>0, <1>2, <2>1 DEF ExpireResult, ResultType
  <2>2. CASE Tick \/ \E i \in Id : Broadcast(i)
    BY <1>2, <2>2 DEF Tick, Broadcast
  <2> QED
    BY <1>4, <2>1, <2>2 DEF Store
<1>5. ASSUME NEW c \in Client, NEW n \in Process, PollAnswered(c, n) \/ PollMissed(c, n) PROVE Goal
  BY <1>0, <1>1, <1>2, <1>5, LookupsAgeResults DEF PollAnswered, PollMissed, ReadResult, storeVars
<1>6. ASSUME NEW c \in Client, Blocking(c) PROVE Goal
  <2>1. CASE LookupFirst(c)
    <3>1. CASE \E i \in Id : result' = Consumed(waiter[c].key, i)
      BY <1>0, <1>1, <3>1, LookupsAgeResults
    <3> QED
      BY <1>2, <2>1, <3>1 DEF LookupFirst, Lookup
  <2>2. CASE TakeEvent(c)
    BY <1>0, <1>1, <2>2 DEF TakeEvent, ResultType, ResultsOnlyAge
  <2>3. CASE Lagged(c) \/ TimeOut(c) \/ StartWaiting(c)
    BY <1>2, <2>3 DEF Lagged, TimeOut, StartWaiting, queueVars
  <2> QED
    BY <1>6, <2>1, <2>2, <2>3 DEF Blocking
<1>7. ASSUME NEW c \in Client, AddToQueue(c) \/ GetResultBlocking(c) \/ AwaitStream(c) PROVE Goal
  BY <1>2, <1>7 DEF AddToQueue, Add, GetResultBlocking, AwaitStream, Subscribe, queueVars, storeVars
<1>8. ASSUME NEW n \in Process, ReadToCancel(n) \/ ReadListAndSend(n) \/ ReconcileFails(n) \/ Crash(n) PROVE Goal
  BY <1>2, <1>8 DEF ReadToCancel, ReadListAndSend, ReconcileFails, Crash, storeVars
<1>9. ASSUME NEW n \in Process, NEW i \in Id, CancelOne(n, i) \/ ManualCancel(n, i) PROVE Goal
  BY <1>2, <1>9 DEF CancelOne, ManualCancel, CancelAndStop, Cancel, NoRow, storeVars
<1>10. ASSUME NEW n \in Process, NEW i \in Id, RetrieveForProcessing(n, i) PROVE Goal
  BY <1>2, <1>10 DEF RetrieveForProcessing, Retrieve, storeVars
<1>11. ASSUME NEW i \in Id, SetCancelHandler(i) \/ UpdateHeartBeat(i) PROVE Goal
  BY <1>2, <1>11 DEF SetCancelHandler, UpdateHeartBeat, MergeExtra, Heartbeat, NoRow, storeVars
<1>12. ASSUME NEW i \in Id, QueryEnds(i) \/ CancelTimedOut(i) \/ ExecutionTimeout(i) \/ StorageError(i)
       PROVE  Goal
  BY <1>2, <1>12 DEF QueryEnds, CancelTimedOut, ExecutionTimeout, StorageError, storeVars
<1>13. CASE UNCHANGED vars
  BY <1>2, <1>13 DEF vars, storeVars
<1> QED
  BY <1>3, <1>4, <1>5, <1>6, <1>7, <1>8, <1>9, <1>10, <1>11, <1>12, <1>13
  DEF QNext, Caller, Reconcile, Processing

\* A call whose row was cancelled under it does not answer for the row that took its path.
THEOREM ResultsAreOwn == QSpec => ResultFromOwnCall
<1>1. QInv /\ [QNext]_vars => \A i \in Id :
        result[i] = "none" /\ result'[i] = "fresh" => exec[i].pc = "finished" /\ exec'[i].pc = "done"
  BY ResultIsOwn
<1> QED
  BY <1>1, QueueInvariant, PTL DEF QSpec, ResultFromOwnCall
=============================================================================
