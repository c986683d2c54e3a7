----------------------------- MODULE QueryQueue -----------------------------
(***************************************************************************)
(* The query queue of the API and refresh-worker processes (QueryQueue.ts) *)
(* over the queue of Cube Store (CacheQueue): callers of executeInQueue,   *)
(* the reconciliation loop of each process, and the processQuery calls it  *)
(* starts.  A step is what runs between two awaits, with the one storage   *)
(* command that the await sends.                                           *)
(*                                                                         *)
(* Rows live in Cube Store and are named by their id; a processQuery call  *)
(* that retrieved a row is named by the id of that row.                    *)
(***************************************************************************)
EXTENDS CacheQueue

CONSTANTS
  Client,      \* callers that repeat their request until it is answered
  KeyOf,       \* KeyOf[c]: the path of the query c asks for
  ForceBuild,  \* callers whose query has forceBuild: they take no earlier result
  IsJob,       \* callers whose query has isJob: they do not wait for the result
  Crashable,   \* processes that may die
  Failing,     \* processes whose storage commands may fail
  Cancelling   \* processes whose users cancel queries by hand

ASSUME QueryQueueAssumption ==
  /\ Waiter = Client
  /\ KeyOf \in [Client -> Path]
  /\ ForceBuild \subseteq Client /\ IsJob \subseteq Client
  /\ Handle \in {{}, 1..MaxId}      \* a driver without cancellation has no handles
  /\ Crashable \subseteq Process /\ Failing \subseteq Process /\ Cancelling \subseteq Process

VARIABLES
  client,   \* client[c]: where its executeInQueue call is, on which process,
            \* and the row id addToQueue returned
  recon,    \* recon[n]: reconcileQueueImpl of process n, the rows it still has
            \* to cancel, and reconcileAgain
  sent,     \* processQuery calls started and not yet at the store: <<process, listed id>>
  exec,     \* exec[i]: the processQuery call that retrieved row i: the id it
            \* uses, its cancel handle, and whether its query runs
  counter,  \* counter[n]: cancelHandlerCounter of process n
  up        \* processes that are alive

nodeVars == <<client, recon, sent, exec, counter, up>>
vars == <<storeVars, nodeVars>>

\* A persistent query is streamed by the process whose id its key carries.
Persistent(p) == Owner[p] # NoProcess

Idle == [pc |-> "idle", node |-> None, id |-> None]
NoExec == [pc |-> "none", node |-> None, as |-> None, handle |-> None, query |-> FALSE]

QInit ==
  /\ Init
  /\ client = [c \in Client |-> Idle]
  /\ recon = [n \in Process |-> [pc |-> "idle", todo |-> {}, again |-> FALSE]]
  /\ sent = {}
  /\ exec = [i \in Id |-> NoExec]
  /\ counter = [n \in Process |-> 0]
  /\ up = Process

-----------------------------------------------------------------------------
(* executeInQueue *)

\* Mutant of CallReconcile: reconcileAgain is not set.
CallReconcileOnce(n) == recon' =
  IF recon[n].pc = "idle" THEN [recon EXCEPT ![n].pc = "toCancel", ![n].again = FALSE] ELSE recon

\* reconcileQueue starts a pass or asks the running chain for one more; every
\* caller awaits the whole chain.  A caller that came during a pass is in
\* "awaitNext" until the next pass starts.
CallReconcile(n) == recon' =
  IF recon[n].pc = "idle" THEN [recon EXCEPT ![n].pc = "toCancel", ![n].again = FALSE]
                          ELSE [recon EXCEPT ![n].again = TRUE]
AwaitPc(n) == IF recon[n].pc = "idle" THEN "await" ELSE "awaitNext"

\* A call on process n.
Asks(c, n) ==
  /\ client[c].pc = "idle" /\ waiter[c].pc = "idle"
  /\ n \in up
  /\ Owner[KeyOf[c]] \in {NoProcess, n}

\* getResult answers at once.
PollAnswered(c, n) ==
  /\ Asks(c, n) /\ c \notin ForceBuild /\ ~Persistent(KeyOf[c])
  /\ \E i \in Id : ReadResult(KeyOf[c], i)
  /\ UNCHANGED nodeVars

\* There is no result, or, for a forced build, no row: on to addToQueue.  The
\* result of a stream says that there was one, and is no answer.
PollMissed(c, n) ==
  /\ Asks(c, n)
  /\ \/ c \in ForceBuild /\ Find(KeyOf[c]) = {} /\ UNCHANGED storeVars
     \/ c \notin ForceBuild /\ Lookup(KeyOf[c]) = {} /\ UNCHANGED storeVars
     \/ /\ c \notin ForceBuild /\ Persistent(KeyOf[c])
        /\ \E i \in Id : ReadResult(KeyOf[c], i)
  /\ client' = [client EXCEPT ![c] = [pc |-> "add", node |-> n, id |-> None]]
  /\ UNCHANGED <<recon, sent, exec, counter, up>>

\* addToQueue, then reconcileQueue.
AddToQueue(c) == LET n == client[c].node IN
  /\ client[c].pc = "add"
  /\ \E i \in Id : /\ Add(KeyOf[c], i)
                   /\ client' = [client EXCEPT ![c].pc = AwaitPc(n), ![c].id = i]
  /\ CallReconcile(n)
  /\ UNCHANGED <<sent, exec, counter, up>>

\* getResultBlocking of the id; the answer, or ContinueWaitError, ends the call.
GetResultBlocking(c) ==
  /\ client[c].pc = "block"
  /\ Subscribe(c, client[c].id)
  /\ client' = [client EXCEPT ![c] = Idle]
  /\ UNCHANGED <<recon, sent, exec, counter, up>>

\* The stream has started, or it has not for ten times the timeout.
AwaitStream(c) ==
  /\ client[c].pc = "stream"
  /\ client' = [client EXCEPT ![c] = Idle]
  /\ UNCHANGED <<storeVars, recon, sent, exec, counter, up>>

Blocking(c) ==
  /\ LookupFirst(c) \/ StartWaiting(c) \/ TakeEvent(c) \/ TimeOut(c) \/ Lagged(c)
  /\ UNCHANGED nodeVars

-----------------------------------------------------------------------------
(* reconcileQueue *)

\* The queries that processCancel of row i's definition cancels on process n: what
\* n itself registered under the handle, or the last stream of n with that key.
Cancelled(n, i) == {j \in Id :
  /\ exec[j].node = n /\ exec[j].query
  /\ IF Persistent(pathOf[i])
     THEN pathOf[j] = pathOf[i] /\ \A k \in Id : k > j /\ pathOf[k] = pathOf[i] => exec[k].node = None
     ELSE extra[i] # None /\ exec[j].handle = extra[i]}

\* A query of J ends; a call that gave up on it no longer listens.
Ends(J) == [j \in Id |->
  IF j \in J THEN [exec[j] EXCEPT !.query = FALSE, !.pc = IF @ = "running" THEN "finished" ELSE @]
  ELSE exec[j]]

\* QUEUE CANCEL of row i by process n, and the cancel message if it was there.
CancelAndStop(n, i) ==
  \/ /\ Cancel(i)
     /\ exec' = Ends(IF i \in payload THEN Cancelled(n, i) ELSE {})
  \/ NoRow(i) /\ UNCHANGED exec

\* Mutant of ReadToCancel: stalled rows are left out.
ReadOrphanedOnly(n) ==
  /\ recon[n].pc = "toCancel"
  /\ recon' = [recon EXCEPT ![n].pc = "cancel", ![n].todo = ToCancel \cap Pending]
  /\ UNCHANGED <<storeVars, client, sent, exec, counter, up>>

ReadToCancel(n) ==
  /\ recon[n].pc = "toCancel"
  /\ recon' = [recon EXCEPT ![n].pc = "cancel", ![n].todo = ToCancel]
  /\ UNCHANGED <<storeVars, client, sent, exec, counter, up>>

\* getQueryAndRemove of one of them; they are sent at once and served in any order.
CancelOne(n, i) ==
  /\ recon[n].pc = "cancel"
  /\ i \in recon[n].todo
  /\ CancelAndStop(n, i)
  /\ recon' = [recon EXCEPT ![n].todo = @ \ {i}]
  /\ UNCHANGED <<client, sent, counter, up>>

\* Mutant of ToProcess: keys for ids.
ToProcessKeys(n) == {pathOf[i] : i \in Visible(n) \cap Pending}

\* The rows a pass tries to process: as many as there are free slots, one if none.
ToProcess(n) ==
  LET active == Visible(n) \cap Active
      pending == Visible(n) \cap Pending
      limit == IF Cardinality(active) >= Concurrency THEN 1 ELSE Concurrency - Cardinality(active)
  IN {i \in pending : Cardinality({j \in pending : Before(j, i)}) < limit}

Waiting(n) == {c \in Client : client[c].node = n /\ client[c].pc \in {"await", "awaitNext"}}

\* What a caller does when its chain has ended.
AfterReconcile(c) ==
  IF Persistent(KeyOf[c]) THEN [client[c] EXCEPT !.pc = "stream"]
  ELSE IF c \in IsJob THEN Idle ELSE [client[c] EXCEPT !.pc = "block"]

Released(n) == [c \in Client |-> IF c \in Waiting(n) THEN AfterReconcile(c) ELSE client[c]]

\* The next pass of the chain serves who came during this one.
Promoted(n) == [c \in Client |->
  IF c \in Waiting(n) THEN [client[c] EXCEPT !.pc = "await"] ELSE client[c]]

\* getActiveAndToProcess and the end of the pass.
ReadListAndSend(n) ==
  /\ recon[n].pc = "cancel"
  /\ recon[n].todo = {}
  /\ sent' = sent \cup ({n} \X ToProcess(n))
  /\ \/ /\ recon[n].again
        /\ recon' = [recon EXCEPT ![n].pc = "toCancel", ![n].again = FALSE]
        /\ client' = Promoted(n)
     \/ /\ ~recon[n].again
        /\ recon' = [recon EXCEPT ![n].pc = "idle"]
        /\ client' = Released(n)
  /\ UNCHANGED <<storeVars, exec, counter, up>>

\* A storage error ends the chain: its callers fail, the pass asked for is dropped.
ReconcileFails(n) ==
  /\ n \in Failing
  /\ recon[n].pc # "idle"
  /\ recon' = [recon EXCEPT ![n] = [pc |-> "idle", todo |-> {}, again |-> FALSE]]
  /\ client' = [c \in Client |-> IF c \in Waiting(n) THEN Idle ELSE client[c]]
  /\ UNCHANGED <<storeVars, sent, exec, counter, up>>

-----------------------------------------------------------------------------
(* processQuery *)

\* Mutant of RetrieveForProcessing: the call keeps the id it was started with.
RetrieveKeepsListedId(n, i) ==
  /\ <<n, i>> \in sent
  /\ sent' = sent \ {<<n, i>>}
  /\ \/ \E r \in Find(pathOf[i]) :
          /\ Retrieve(pathOf[i], n)
          /\ exec' = [exec EXCEPT ![r] = [pc |-> "running", node |-> n, as |-> i,
                                         handle |-> None, query |-> TRUE]]
     \/ /\ \A r \in Find(pathOf[i]) : ~CanRetrieve(r, n)
        /\ UNCHANGED <<storeVars, exec>>
  /\ UNCHANGED <<client, recon, counter, up>>

\* retrieveForProcessing goes by path, the id comes from the reply.
RetrieveForProcessing(n, i) ==
  /\ <<n, i>> \in sent
  /\ sent' = sent \ {<<n, i>>}
  /\ \/ \E r \in Find(pathOf[i]) :
          /\ Retrieve(pathOf[i], n)
          /\ exec' = IF r \in payload
                     THEN [exec EXCEPT ![r] = [pc |-> "running", node |-> n, as |-> r,
                                               handle |-> None, query |-> TRUE]]
                     ELSE exec
     \/ /\ \A r \in Find(pathOf[i]) : ~CanRetrieve(r, n)
        /\ UNCHANGED <<storeVars, exec>>
  /\ UNCHANGED <<client, recon, counter, up>>

\* A driver with cancellation registers a query, but no stream, under the next handle of the
\* process and merges the handle into the row, if the row is still there.
SetCancelHandler(i) == LET n == exec[i].node
                           h == counter[n] + 1 IN
  /\ exec[i].pc = "running" /\ exec[i].handle = None
  /\ h \in Handle /\ ~Persistent(pathOf[i])
  /\ counter' = [counter EXCEPT ![n] = h]
  /\ exec' = [exec EXCEPT ![i].handle = h]
  /\ MergeExtra(exec[i].as, h) \/ NoRow(exec[i].as)
  /\ UNCHANGED <<client, recon, sent, up>>

UpdateHeartBeat(i) ==
  /\ exec[i].pc = "running"
  /\ Heartbeat(exec[i].as)
  /\ UNCHANGED nodeVars

QueryEnds(i) ==
  /\ exec[i].query
  /\ exec' = Ends({i})
  /\ UNCHANGED <<storeVars, client, recon, sent, counter, up>>

\* executionTimeout, of a query: the call gives up, the query itself runs on.
ExecutionTimeout(i) ==
  /\ exec[i].pc = "running" /\ ~Persistent(pathOf[i])
  /\ exec' = [exec EXCEPT ![i].pc = "timedOut"]
  /\ UNCHANGED <<storeVars, client, recon, sent, counter, up>>

\* getQueryDef, and the cancel message if the row is still there.
CancelTimedOut(i) == LET e == exec[i] IN
  /\ e.pc = "timedOut"
  /\ exec' = [Ends(IF e.as \in Rows \cap payload THEN Cancelled(e.node, e.as) ELSE {})
               EXCEPT ![i].pc = "finished"]
  /\ UNCHANGED <<storeVars, client, recon, sent, counter, up>>

\* Mutant of SetResultAndRemoveQuery: the row is acknowledged by path.
SetResultByPath(i) ==
  /\ exec[i].pc = "finished"
  /\ Ack(pathOf[i], TRUE) \/ NoRow(pathOf[i])
  /\ exec' = [exec EXCEPT ![i].pc = "done"]
  /\ CallReconcile(exec[i].node)
  /\ UNCHANGED <<client, sent, counter, up>>

\* setResultAndRemoveQuery, which reports an orphaned result when the row is gone,
\* then reconcileQueue.
SetResultAndRemoveQuery(i) ==
  /\ exec[i].pc = "finished"
  /\ Ack(exec[i].as, TRUE) \/ NoRow(exec[i].as)
  /\ exec' = [exec EXCEPT ![i].pc = "done"]
  /\ CallReconcile(exec[i].node)
  /\ UNCHANGED <<client, sent, counter, up>>

\* A storage error is logged and the call ends: before the query started, or with
\* no acknowledgement.  Nothing gives the row back.
StorageError(i) ==
  /\ exec[i].node \in Failing
  /\ exec[i].pc \in {"running", "timedOut", "finished"}
  /\ exec[i].pc = "running" => exec[i].handle = None
  /\ exec' = [exec EXCEPT ![i].pc = "lost", ![i].query = @ /\ exec[i].pc # "running"]
  /\ UNCHANGED <<storeVars, client, recon, sent, counter, up>>

-----------------------------------------------------------------------------
(* The surroundings *)

\* cancelQuery of the queue's API, on process n.
ManualCancel(n, i) ==
  /\ n \in up \cap Cancelling
  /\ Find(i) # {}
  /\ CancelAndStop(n, i)
  /\ UNCHANGED <<client, recon, sent, counter, up>>

\* The process dies with its calls, its queries and its handles; the clients see
\* the connection break and ask another process.
Crash(n) ==
  /\ n \in up \cap Crashable
  /\ up' = up \ {n}
  /\ recon' = [recon EXCEPT ![n] = [pc |-> "idle", todo |-> {}, again |-> FALSE]]
  /\ sent' = {s \in sent : s[1] # n}
  /\ exec' = [i \in Id |-> IF exec[i].node = n
       THEN [exec[i] EXCEPT !.pc = IF @ = "done" THEN @ ELSE "lost", !.query = FALSE] ELSE exec[i]]
  /\ client' = [c \in Client |-> IF client[c].node = n THEN Idle ELSE client[c]]
  /\ UNCHANGED <<storeVars, counter>>

Store ==
  /\ Tick \/ \E i \in Id : Broadcast(i) \/ ExpireResult(i)
  /\ UNCHANGED nodeVars

Caller(c) ==
  \/ \E n \in Process : PollAnswered(c, n) \/ PollMissed(c, n)
  \/ AddToQueue(c) \/ GetResultBlocking(c) \/ Blocking(c) \/ AwaitStream(c)

Reconcile(n) == ReadToCancel(n) \/ ReadListAndSend(n) \/ \E i \in Id : CancelOne(n, i)

Processing(i) ==
  \/ \E n \in Process : RetrieveForProcessing(n, i)
  \/ QueryEnds(i) \/ CancelTimedOut(i) \/ SetResultAndRemoveQuery(i)

QNext ==
  \/ Store
  \/ \E c \in Client : Caller(c)
  \/ \E n \in Process : \/ Reconcile(n) \/ ReconcileFails(n) \/ Crash(n)
                        \/ \E i \in Id : ManualCancel(n, i)
  \/ \E i \in Id : \/ Processing(i) \/ SetCancelHandler(i) \/ UpdateHeartBeat(i)
                   \/ ExecutionTimeout(i) \/ StorageError(i)

QSpec == QInit /\ [][QNext]_vars

\* Time passes, committed events are broadcast, callers repeat their request, the
\* pass of a live process goes on, a started processQuery call ends.  Nothing is
\* assumed of heartbeats, cancellations, failures and crashes.
Fairness ==
  /\ WF_vars(Tick /\ UNCHANGED nodeVars)
  /\ \A c \in Client : WF_vars(Caller(c))
  /\ \A n \in Process : WF_vars(Reconcile(n))
  /\ \A i \in Id : WF_vars(Processing(i))

FairQSpec == QSpec /\ Fairness
-----------------------------------------------------------------------------
(* Properties *)

QTypeOK ==
  /\ TypeOK
  /\ client \in [Client -> [pc : {"idle", "add", "await", "awaitNext", "block", "stream"},
                            node : Process \cup {None}, id : Id \cup {None}]]
  /\ recon \in [Process -> [pc : {"idle", "toCancel", "cancel"}, todo : SUBSET Id, again : BOOLEAN]]
  /\ sent \subseteq Process \X Id
  /\ exec \in [Id -> [pc : {"none", "running", "timedOut", "finished", "done", "lost"},
                      node : Process \cup {None}, as : Id \cup {None},
                      handle : Handle \cup {None}, query : BOOLEAN]]
  /\ counter \in [Process -> 0..MaxId]
  /\ up \subseteq Process

\* A row is active only while its processQuery call is under way or was lost to a
\* crash or a storage error: a call that ends well has ended its row, which would
\* otherwise hold a slot until the heartbeat timeout.
LeaseHeld == \A i \in Active : exec[i].pc \in {"running", "timedOut", "finished", "lost"}

\* Only the call that retrieved a row publishes its result.  A call whose row was
\* cancelled under it must not answer for the row that took its path.
ResultFromOwnCall == [][\A i \in Id :
  result[i] = "none" /\ result'[i] = "fresh" => exec[i].pc = "finished" /\ exec'[i].pc = "done"]_vars

\* A caller that awaited reconcileQueue goes on only after a pass that began when
\* its row was already in the queue, though passes are shared.
ReconcileServesLateCallers == [][\A c \in Client :
  client[c].pc = "awaitNext" => client'[c].pc \notin {"block", "stream"}]_vars

\* A query of a persistent key runs in the process whose key it is: its stream is
\* an object of that process.
RunsAtOwner == \A i \in Id : exec[i].pc = "running" => Owner[pathOf[i]] \in {NoProcess, exec[i].node}

\* No row stays for ever: it is processed, or its process died and a pass of
\* another one finds it stalled, or it is orphaned.
RowsLeave == \A i \in Id : i \in Rows ~> i \notin Rows
=============================================================================
