------------------------ MODULE CacheQueueRefinement ------------------------
(***************************************************************************)
(* CacheQueue implements JobQueue, for every value of the constants.       *)
(*                                                                         *)
(* Each step of the store is a step of one job or of one caller, or is not *)
(* seen by either.  The steps that need more than the shape of the state   *)
(* are those that answer: an answer is given once per request              *)
(* (OpenUnanswered), and it is of a finished job (Provenance).             *)
(***************************************************************************)
EXTENDS CacheQueueProofs

\* A request that is under way has not been answered.
OpenUnanswered == \A w \in Waiter : waiter[w].pc # "idle" => waiter[w].answer = None

LEMMA NextOpenUnanswered ==
  TypeOK /\ OpenUnanswered /\ [Next]_storeVars => OpenUnanswered'
<1> SUFFICES ASSUME TypeOK, OpenUnanswered, [Next]_storeVars, NEW w \in Waiter,
                    waiter'[w].pc # "idle"
             PROVE  waiter'[w].answer = None
  BY DEF OpenUnanswered
<1> QED
  BY StepOnWaiters DEF OpenUnanswered

LEMMA RequestsAreAnsweredOnce == Spec => []OpenUnanswered
<1>1. Init => OpenUnanswered
  BY DEF Init, OpenUnanswered
<1> QED
  BY <1>1, NextOpenUnanswered, TypeCorrect, PTL DEF Spec

-----------------------------------------------------------------------------
(* Rows and jobs *)

LEMMA JobOfRow ==
  ASSUME TypeOK, NEW i \in Id
  PROVE  /\ JobOf[i] = "new" <=> status[i] = "unborn"
         /\ JobOf[i] = "queued" <=> status[i] = "pending"
         /\ JobOf[i] = "running" <=> status[i] = "active"
         /\ JobOf[i] = "finished" <=> status[i] \in {"acked", "ackedEmpty"}
         /\ JobOf[i] = "dropped" <=> status[i] = "dropped"
BY DEF JobOf, JobName, TypeOK, Status, Ended

LEMMA JobsAreRows == TypeOK => Jobs!Live = Rows /\ Jobs!Running = Active /\ Jobs!Job = Id
BY JobOfRow DEF Jobs!Live, Jobs!Running, Jobs!Job, Id, Rows, Active

\* A change of one row's status is a change of one job.
LEMMA JobMoves ==
  ASSUME TypeOK, NEW i \in Id, NEW s \in Status, status' = [status EXCEPT ![i] = s]
  PROVE  JobOf' = [JobOf EXCEPT ![i] = JobName(s)]
<1>1. status'[i] = s /\ \A j \in Id : j # i => status'[j] = status[j]
  BY DEF TypeOK
<1>2. JobOf' = [j \in Id |-> JobName(status'[j])]
  BY DEF JobOf
<1>3. [JobOf EXCEPT ![i] = JobName(s)] = [j \in Id |-> IF j = i THEN JobName(s) ELSE JobName(status[j])]
  BY DEF JobOf
<1> QED
  BY <1>1, <1>2, <1>3

\* The two modules count alike.
LEMMA SameCardinality == \A S : Jobs!Cardinality(S) = Cardinality(S)
BY DEF Cardinality, Jobs!Cardinality

LEMMA JobStays == status' = status => JobOf' = JobOf
BY DEF JobOf

LEMMA CallersStay == waiter' = waiter => AskedBy' = AskedBy /\ AnswerTo' = AnswerTo
BY DEF AskedBy, AnswerTo

LEMMA StutterStep ==
  ASSUME status' = status, pathOf' = pathOf, waiter' = waiter
  PROVE  UNCHANGED Jobs!jobVars
BY JobStays, CallersStay DEF Jobs!jobVars

-----------------------------------------------------------------------------
(* Steps of a row *)

LEMMA AddSubmits ==
  ASSUME TypeOK, NEW p \in Path, NEW i \in Id, Add(p, i)
  PROVE  Jobs!Submit(p, i) \/ UNCHANGED Jobs!jobVars
<1>1. CASE UNCHANGED storeVars
  BY <1>1, StutterStep DEF storeVars
<1>2. CASE ~UNCHANGED storeVars
  <2>1. /\ Find(p) = {} /\ i \in Fresh
        /\ status' = [status EXCEPT ![i] = "pending"]
        /\ pathOf' = [pathOf EXCEPT ![i] = p]
        /\ waiter' = waiter
    BY <1>2 DEF Add
  <2>2. JobOf[i] = "new"
    BY <2>1, JobOfRow DEF Fresh, Unborn
  <2>3. \A k \in Jobs!Live : pathOf[k] # p
    BY <2>1, JobsAreRows DEF Find
  <2>4. JobOf' = [JobOf EXCEPT ![i] = "queued"]
    BY <2>1, JobMoves DEF Status, JobName
  <2> QED
    BY <2>1, <2>2, <2>3, <2>4, CallersStay DEF Jobs!Submit
<1> QED
  BY <1>1, <1>2

\* A row that leaves without an acknowledgement is a dropped job.
LEMMA EndDrops ==
  ASSUME TypeOK, NEW i \in Rows, End(i, "dropped"), waiter' = waiter
  PROVE  Jobs!Drop({i})
<1>1. i \in Id /\ status' = [status EXCEPT ![i] = "dropped"] /\ pathOf' = pathOf
  BY DEF Rows, End
<1>2. JobOf' = [JobOf EXCEPT ![i] = "dropped"]
  BY <1>1, JobMoves DEF Status, Ended, JobName
<1>3. JobOf' = [j \in Id |-> IF j \in {i} THEN "dropped" ELSE JobOf[j]]
  BY <1>1, <1>2 DEF JobOf
<1> QED
  BY <1>1, <1>3, JobsAreRows, CallersStay DEF Jobs!Drop

LEMMA RetrieveStarts ==
  ASSUME TypeOK, NEW p \in Path, NEW n \in Process, Retrieve(p, n)
  PROVE  \E i \in Id : Jobs!Start(i) \/ (i \in Rows /\ Jobs!Drop({i}))
<1>1. PICK i \in Find(p) :
        /\ CanRetrieve(i, n)
        /\ waiter' = waiter
        /\ \/ status' = [status EXCEPT ![i] = "active"] /\ pathOf' = pathOf
           \/ End(i, "dropped")
  BY DEF Retrieve
<1>2. i \in Id /\ i \in Rows
  BY DEF Find, Rows
<1>3. CASE End(i, "dropped")
  BY <1>1, <1>2, <1>3, EndDrops
<1>4. CASE status' = [status EXCEPT ![i] = "active"] /\ pathOf' = pathOf
  <2>1. JobOf' = [JobOf EXCEPT ![i] = "running"]
    BY <1>2, <1>4, JobMoves DEF Status, JobName
  <2>2. JobOf[i] = "queued" /\ Jobs!Cardinality(Jobs!Running) < Concurrency
    BY <1>1, <1>2, JobOfRow, JobsAreRows, SameCardinality DEF CanRetrieve
  <2>3. Jobs!Start(i)
    BY <1>1, <1>4, <2>1, <2>2, CallersStay DEF Jobs!Start
  <2> QED
    BY <1>2, <2>3
<1> QED
  BY <1>1, <1>3, <1>4

LEMMA AckFinishes ==
  ASSUME TypeOK, NEW key \in Key, NEW withResult \in BOOLEAN, Ack(key, withResult)
  PROVE  \E i \in Id : Jobs!Finish(i)
<1>1. PICK i \in Find(key) : /\ End(i, IF withResult THEN "acked" ELSE "ackedEmpty")
                             /\ waiter' = waiter
  BY DEF Ack
<1>2. i \in Id /\ i \in Rows
  BY DEF Find, Rows
<1>3. PICK s \in {"acked", "ackedEmpty"} : status' = [status EXCEPT ![i] = s]
  BY <1>1 DEF End
<1>4. pathOf' = pathOf
  BY <1>1 DEF End
<1>5. JobOf' = [JobOf EXCEPT ![i] = "finished"]
  BY <1>2, <1>3, JobMoves DEF Status, Ended, JobName
<1> QED
  BY <1>1, <1>2, <1>4, <1>5, JobsAreRows, CallersStay DEF Jobs!Finish

LEMMA TruncateDrops ==
  ASSUME TypeOK, Truncate
  PROVE  (Rows # {} /\ Jobs!Drop(Rows)) \/ UNCHANGED Jobs!jobVars
<1>1. status' = [i \in Id |-> IF i \in Rows THEN "dropped" ELSE status[i]]
      /\ pathOf' = pathOf /\ waiter' = waiter
  BY DEF Truncate
<1>2. CASE Rows = {}
  <2>1. status' = status
    BY <1>1, <1>2 DEF TypeOK
  <2> QED
    BY <1>1, <2>1, StutterStep
<1>3. CASE Rows # {}
  <2>1. JobOf' = [j \in Id |-> IF j \in Rows THEN "dropped" ELSE JobOf[j]]
    BY <1>1 DEF JobOf, JobName
  <2> QED
    BY <1>1, <1>3, <2>1, JobsAreRows, CallersStay DEF Jobs!Drop
<1> QED
  BY <1>2, <1>3

-----------------------------------------------------------------------------
(* Steps of a caller *)

LEMMA SubscribeAsks ==
  ASSUME TypeOK, NEW w \in Waiter, NEW key \in Key, Subscribe(w, key)
  PROVE  Jobs!Ask(w, key)
<1>1. /\ status' = status /\ pathOf' = pathOf
      /\ waiter' = [waiter EXCEPT ![w] = [pc |-> "subscribed", key |-> key, event |-> None, answer |-> None]]
  BY DEF Subscribe, queueVars
<1>2. AskedBy' = [AskedBy EXCEPT ![w] = key] /\ AnswerTo' = [AnswerTo EXCEPT ![w] = None]
  BY <1>1 DEF AskedBy, AnswerTo, TypeOK, WaiterType
<1> QED
  BY <1>1, <1>2, JobStays DEF Jobs!Ask

\* What the end of a request does to its caller.
LEMMA ReturnAnswers ==
  ASSUME TypeOK, NEW w \in Waiter, NEW a, Return(w, a)
  PROVE  AskedBy' = AskedBy /\ AnswerTo' = [AnswerTo EXCEPT ![w] = a]
BY DEF Return, AskedBy, AnswerTo, TypeOK, WaiterType

\* A request is answered with an acknowledged row of its key.
LEMMA AnswerAnswers ==
  ASSUME TypeOK, OpenUnanswered, NEW w \in Waiter, NEW i \in Id,
         waiter[w].pc # "idle", Return(w, i), status' = status, pathOf' = pathOf,
         status[i] \in {"acked", "ackedEmpty"}, Matches(waiter[w].key, i)
  PROVE  Jobs!Answer(w, i)
<1>1. AnswerTo[w] = None
  BY DEF OpenUnanswered, AnswerTo
<1>2. AskedBy[w] = i \/ AskedBy[w] = pathOf[i]
  BY DEF Matches, AskedBy
<1> QED
  BY <1>1, <1>2, JobOfRow, JobStays, ReturnAnswers DEF Jobs!Answer

LEMMA LookupAnswers ==
  ASSUME TypeOK, OpenUnanswered, Provenance, NEW w \in Waiter, LookupFirst(w)
  PROVE  (\E i \in Id : Jobs!Answer(w, i)) \/ UNCHANGED Jobs!jobVars
<1>1. waiter[w].pc # "idle" /\ status' = status /\ pathOf' = pathOf
  BY DEF LookupFirst, rowVars
<1>2. ASSUME NEW i \in Lookup(waiter[w].key), Return(w, i) PROVE \E j \in Id : Jobs!Answer(w, j)
  <2>1. i \in Id /\ result[i] # "none" /\ Matches(waiter[w].key, i)
    BY DEF Lookup, Latest, Matches
  <2>2. status[i] \in {"acked", "ackedEmpty"}
    BY <2>1 DEF Provenance
  <2> QED
    BY <1>1, <1>2, <2>1, <2>2, AnswerAnswers
<1>3. ASSUME waiter' = [waiter EXCEPT ![w].pc = "missed"] PROVE UNCHANGED Jobs!jobVars
  <2>1. AskedBy' = AskedBy /\ AnswerTo' = AnswerTo
    BY <1>3 DEF AskedBy, AnswerTo, TypeOK, WaiterType
  <2> QED
    BY <1>1, <2>1, JobStays DEF Jobs!jobVars
<1> QED
  BY <1>2, <1>3 DEF LookupFirst

LEMMA EventAnswers ==
  ASSUME TypeOK, OpenUnanswered, Provenance, NEW w \in Waiter, TakeEvent(w)
  PROVE  \E i \in Id : Jobs!Answer(w, i)
<1> DEFINE i == waiter[w].event
<1>1. /\ waiter[w].pc # "idle" /\ i # None /\ Return(w, i)
      /\ status' = status /\ pathOf' = pathOf
  BY DEF TakeEvent, rowVars
<1>2. i \in Id
  BY <1>1 DEF TypeOK, WaiterType
<1>3. status[i] \in {"acked", "ackedEmpty"} /\ Matches(waiter[w].key, i)
  BY <1>1 DEF Provenance
<1> QED
  BY <1>1, <1>2, <1>3, AnswerAnswers

\* Hearing an event, beginning to wait and giving up are not seen by the caller.
LEMMA CallerStutters ==
  ASSUME TypeOK, OpenUnanswered, NEW w \in Waiter, StartWaiting(w) \/ TimeOut(w) \/ Lagged(w)
  PROVE  UNCHANGED Jobs!jobVars
<1>1. status' = status /\ pathOf' = pathOf
  BY DEF StartWaiting, TimeOut, Lagged, queueVars
<1>2. CASE waiter' = [waiter EXCEPT ![w].pc = "waiting"]
  <2>1. AskedBy' = AskedBy /\ AnswerTo' = AnswerTo
    BY <1>2 DEF AskedBy, AnswerTo, TypeOK, WaiterType
  <2> QED
    BY <1>1, <2>1, JobStays DEF Jobs!jobVars
<1>3. CASE waiter[w].pc # "idle" /\ Return(w, None)
  <2>1. AskedBy' = AskedBy /\ AnswerTo' = [AnswerTo EXCEPT ![w] = None]
    BY <1>3, ReturnAnswers
  <2>2. AnswerTo' = AnswerTo
    BY <1>3, <2>1 DEF OpenUnanswered, AnswerTo
  <2> QED
    BY <1>1, <2>1, <2>2, JobStays DEF Jobs!jobVars
<1> QED
  BY <1>2, <1>3 DEF StartWaiting, TimeOut, Lagged

LEMMA BroadcastStutters ==
  ASSUME TypeOK, NEW i \in Id, Broadcast(i)
  PROVE  UNCHANGED Jobs!jobVars
<1>1. /\ status' = status /\ pathOf' = pathOf
      /\ waiter' = [w \in Waiter |-> IF Hears(w, i) THEN [waiter[w] EXCEPT !.event = i] ELSE waiter[w]]
  BY DEF Broadcast, rowVars
<1>2. \A w \in Waiter : waiter'[w].key = waiter[w].key /\ waiter'[w].answer = waiter[w].answer
  BY <1>1 DEF TypeOK, WaiterType
<1>3. AskedBy' = AskedBy /\ AnswerTo' = AnswerTo
  BY <1>2 DEF AskedBy, AnswerTo
<1> QED
  BY <1>1, <1>3, JobStays DEF Jobs!jobVars

-----------------------------------------------------------------------------
(* The refinement *)

LEMMA InitMaps == Init => Jobs!Init
BY DEF Init, Jobs!Init, Jobs!Job, Id, JobOf, JobName, AskedBy, AnswerTo

LEMMA NextMaps ==
  TypeOK /\ Provenance /\ OpenUnanswered /\ [Next]_storeVars => [Jobs!Next]_(Jobs!jobVars)
<1> SUFFICES ASSUME TypeOK, Provenance, OpenUnanswered, [Next]_storeVars
             PROVE  Jobs!Next \/ UNCHANGED Jobs!jobVars
  OBVIOUS
<1> DEFINE Goal == Jobs!Next \/ UNCHANGED Jobs!jobVars
<1>0. /\ Jobs!Job = Id /\ Jobs!Live = Rows
      /\ \A J : J \subseteq Rows /\ Jobs!Drop(J) => Jobs!Next
      /\ \A i \in Id : Jobs!Start(i) \/ Jobs!Finish(i) => Jobs!Next
      /\ \A i \in Id, p \in Path : Jobs!Submit(p, i) => Jobs!Next
      /\ \A w \in Waiter, i \in Id : Jobs!Answer(w, i) => Jobs!Next
      /\ \A w \in Waiter, key \in Key : Jobs!Ask(w, key) => Jobs!Next
  BY JobsAreRows DEF Jobs!Next, Key
<1>1. ASSUME NEW p \in Path, NEW i \in Id, Add(p, i) PROVE Goal
  BY <1>0, <1>1, AddSubmits
<1>2. ASSUME NEW p \in Path, NEW i \in Id, ReadResult(p, i) PROVE Goal
  BY <1>2, StutterStep DEF ReadResult, rowVars
<1>3. ASSUME NEW p \in Path, NEW n \in Process, Retrieve(p, n) PROVE Goal
  BY <1>0, <1>3, RetrieveStarts
<1>4. ASSUME NEW key \in Key, Cancel(key) PROVE Goal
  <2>1. PICK i \in Find(key) : End(i, "dropped") /\ waiter' = waiter
    BY <1>4 DEF Cancel
  <2>2. i \in Rows
    BY DEF Find
  <2> QED
    BY <1>0, <2>1, <2>2, EndDrops
<1>5. ASSUME NEW key \in Key, Heartbeat(key) PROVE Goal
  BY <1>5, StutterStep DEF Heartbeat
<1>6. ASSUME NEW key \in Key, NEW h \in Handle, MergeExtra(key, h) PROVE Goal
  BY <1>6, StutterStep DEF MergeExtra
<1>7. ASSUME NEW key \in Key, NEW r \in BOOLEAN, Ack(key, r) PROVE Goal
  BY <1>0, <1>7, AckFinishes
<1>8. ASSUME NEW key \in Key, NEW w \in Waiter, Subscribe(w, key) PROVE Goal
  BY <1>0, <1>8, SubscribeAsks
<1>9. ASSUME NEW i \in Id, ExpireResult(i) \/ CompactPayload(i) PROVE Goal
  BY <1>9, StutterStep DEF ExpireResult, CompactPayload, rowVars
<1>10. ASSUME NEW i \in Id, CompactItem(i) PROVE Goal
  BY <1>0, <1>10, EndDrops DEF CompactItem
<1>11. ASSUME NEW i \in Id, Broadcast(i) PROVE Goal
  BY <1>11, BroadcastStutters
<1>12. ASSUME NEW w \in Waiter, LookupFirst(w) PROVE Goal
  BY <1>0, <1>12, LookupAnswers
<1>13. ASSUME NEW w \in Waiter, TakeEvent(w) PROVE Goal
  BY <1>0, <1>13, EventAnswers
<1>14. ASSUME NEW w \in Waiter, StartWaiting(w) \/ TimeOut(w) \/ Lagged(w) PROVE Goal
  BY <1>14, CallerStutters
<1>15. CASE Truncate
  BY <1>0, <1>15, TruncateDrops
<1>16. CASE Tick
  BY <1>16, StutterStep DEF Tick
<1>17. CASE UNCHANGED storeVars
  BY <1>17, StutterStep DEF storeVars
<1> QED
  BY <1>1, <1>2, <1>3, <1>4, <1>5, <1>6, <1>7, <1>8, <1>9, <1>10, <1>11, <1>12, <1>13, <1>14,
     <1>15, <1>16, <1>17 DEF Next

\* The queue of Cube Store keeps every promise of the abstract job queue: one live
\* job per path, bounded concurrency, one end for each job, and answers that are
\* outcomes of finished jobs the caller asked for.
THEOREM StoreImplementsJobQueue == Spec => ImplementsJobQueue
BY InitMaps, NextMaps, TypeCorrect, ProvenanceHolds, RequestsAreAnsweredOnce,
   PTL DEF Spec, ImplementsJobQueue, Jobs!Spec
=============================================================================
