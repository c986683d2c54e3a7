-------------------------- MODULE CacheQueueProofs --------------------------
(***************************************************************************)
(* Proofs about CacheQueue, for any paths, processes, waiters, timeouts,   *)
(* concurrency and number of rows.                                         *)
(*                                                                         *)
(* TypeOK is inductive by itself.  The other invariants are proved one     *)
(* after the other, each from those before it; the only one that needs a   *)
(* strengthening is AnswerIsAcked: an answer comes from a result row or    *)
(* from an event, and both exist only for acknowledged rows (Provenance).  *)
(***************************************************************************)
EXTENDS CacheQueue, FiniteSetTheorems, TLAPS

-----------------------------------------------------------------------------
(* Type correctness *)

LEMMA InitTypeOK == Init => TypeOK
BY CacheQueueAssumption DEF Init, TypeOK, WaiterType, ResultType, Status, Ended

\* The end of a blocking request leaves a well-typed waiter.
LEMMA ReturnType ==
  ASSUME TypeOK, NEW w \in Waiter, NEW a \in Id \cup {None}, Return(w, a)
  PROVE  waiter' \in WaiterType
BY DEF TypeOK, WaiterType, Return

LEMMA NextTypeOK == TypeOK /\ [Next]_storeVars => TypeOK'
<1> SUFFICES ASSUME TypeOK, [Next]_storeVars PROVE TypeOK'
  OBVIOUS
<1> USE CacheQueueAssumption DEF TypeOK, Status, Ended
<1>1. ASSUME NEW p \in Path, NEW i \in Id, Add(p, i) PROVE TypeOK'
  BY <1>1 DEF Add, Fresh, Unborn, storeVars
<1>2. ASSUME NEW p \in Path, NEW i \in Id, ReadResult(p, i) PROVE TypeOK'
  BY <1>2 DEF ReadResult, Lookup, Consumed, ResultType, rowVars
<1>3. ASSUME NEW p \in Path, NEW n \in Process, Retrieve(p, n) PROVE TypeOK'
  BY <1>3 DEF Retrieve, Find, Rows, End
<1>4. ASSUME NEW key \in Key, Cancel(key) PROVE TypeOK'
  BY <1>4 DEF Cancel, Find, Rows, End
<1>5. ASSUME NEW key \in Key, Heartbeat(key) PROVE TypeOK'
  BY <1>5 DEF Heartbeat, Find, Rows
<1>6. ASSUME NEW key \in Key, NEW h \in Handle, MergeExtra(key, h) PROVE TypeOK'
  BY <1>6 DEF MergeExtra, Find, Rows
<1>7. ASSUME NEW key \in Key, NEW r \in BOOLEAN, Ack(key, r) PROVE TypeOK'
  BY <1>7 DEF Ack, Find, Rows, End, ResultType
<1>8. ASSUME NEW key \in Key, NEW w \in Waiter, Subscribe(w, key) PROVE TypeOK'
  BY <1>8 DEF Subscribe, WaiterType, queueVars
<1>9. ASSUME NEW i \in Id, ExpireResult(i) \/ CompactItem(i) \/ CompactPayload(i) PROVE TypeOK'
  BY <1>9 DEF ResultType, ExpireResult, CompactItem, CompactPayload, End, Rows, rowVars
<1>10. ASSUME NEW i \in Id, Broadcast(i) PROVE TypeOK'
  BY <1>10 DEF Broadcast, WaiterType, rowVars
<1>11. ASSUME NEW w \in Waiter, LookupFirst(w) PROVE TypeOK'
  <2>1. ASSUME NEW i \in Lookup(waiter[w].key), result' = Consumed(waiter[w].key, i), Return(w, i)
        PROVE  result' \in ResultType /\ waiter' \in WaiterType
    <3>1. i \in Id
      BY DEF Lookup
    <3>2. result' \in ResultType
      BY <2>1, <3>1 DEF Consumed, ResultType
    <3> QED
      BY <2>1, <3>1, <3>2, ReturnType
  <2>2. ASSUME waiter' = [waiter EXCEPT ![w].pc = "missed"], UNCHANGED result
        PROVE  result' \in ResultType /\ waiter' \in WaiterType
    BY <2>2 DEF WaiterType
  <2>3. result' \in ResultType /\ waiter' \in WaiterType
    BY <1>11, <2>1, <2>2 DEF LookupFirst
  <2> QED
    BY <1>11, <2>3 DEF LookupFirst, rowVars
<1>12. ASSUME NEW w \in Waiter, TakeEvent(w) PROVE TypeOK'
  BY <1>12, ReturnType DEF TakeEvent, ResultType, WaiterType, rowVars
<1>13. ASSUME NEW w \in Waiter, TimeOut(w) \/ Lagged(w) PROVE TypeOK'
  BY <1>13, ReturnType DEF TimeOut, Lagged, queueVars
<1>17. ASSUME NEW w \in Waiter, StartWaiting(w) PROVE TypeOK'
  <2>1. waiter' \in WaiterType
    BY <1>17 DEF StartWaiting, WaiterType
  <2> QED
    BY <1>17, <2>1 DEF StartWaiting, queueVars
<1>14. CASE Truncate
  BY <1>14 DEF Truncate, Rows, ResultType
<1>15. CASE Tick
  BY <1>15 DEF Tick
<1>16. CASE UNCHANGED storeVars
  BY <1>16 DEF storeVars
<1> QED
  BY <1>1, <1>2, <1>3, <1>4, <1>5, <1>6, <1>7, <1>8, <1>9, <1>10, <1>11, <1>12, <1>13, <1>14,
     <1>15, <1>16, <1>17 DEF Next

\* Every reachable state has the declared shape; a row has a path from its birth on.
THEOREM TypeCorrect == Spec => []TypeOK
BY InitTypeOK, NextTypeOK, PTL DEF Spec
-----------------------------------------------------------------------------
(* Rows *)

\* Every step but an insertion leaves the paths alone and adds no row; an
\* insertion adds one row, for a path that had none.
LEMMA StepOnRows ==
  ASSUME TypeOK, [Next]_storeVars
  PROVE  \/ Rows' \subseteq Rows /\ pathOf' = pathOf
         \/ \E i \in Fresh, p \in Path :
              /\ Find(p) = {}
              /\ Rows' = Rows \cup {i}
              /\ pathOf' = [pathOf EXCEPT ![i] = p]
<1> USE CacheQueueAssumption DEF TypeOK
<1> DEFINE Shrinks == Rows' \subseteq Rows /\ pathOf' = pathOf
<1>1. ASSUME NEW p \in Path, NEW i \in Id, Add(p, i), Find(p) = {}, i \in Fresh,
             status' = [status EXCEPT ![i] = "pending"]
      PROVE  Rows' = Rows \cup {i}
  BY <1>1 DEF Rows
<1>2. ASSUME NEW p \in Path, NEW i \in Id, Add(p, i)
      PROVE  \/ Shrinks
             \/ Find(p) = {} /\ i \in Fresh /\ Rows' = Rows \cup {i} /\ pathOf' = [pathOf EXCEPT ![i] = p]
  BY <1>1, <1>2 DEF Add, Rows, storeVars
<1>3. ASSUME NEW p \in Path, NEW i \in Id, ReadResult(p, i) PROVE Shrinks
  BY <1>3 DEF ReadResult, Rows, rowVars
<1>4. ASSUME NEW p \in Path, NEW n \in Process, Retrieve(p, n) PROVE Shrinks
  BY <1>4 DEF Retrieve, Find, Rows, End
<1>5. ASSUME NEW key \in Key, Cancel(key) PROVE Shrinks
  BY <1>5 DEF Cancel, Find, Rows, End
<1>6. ASSUME NEW key \in Key, Heartbeat(key) PROVE Shrinks
  BY <1>6 DEF Heartbeat, Rows
<1>7. ASSUME NEW key \in Key, NEW h \in Handle, MergeExtra(key, h) PROVE Shrinks
  BY <1>7 DEF MergeExtra, Rows
<1>8. ASSUME NEW key \in Key, NEW r \in BOOLEAN, Ack(key, r) PROVE Shrinks
  BY <1>8 DEF Ack, Find, Rows, End
<1>9. ASSUME NEW key \in Key, NEW w \in Waiter, Subscribe(w, key) PROVE Shrinks
  BY <1>9 DEF Subscribe, Rows, queueVars
<1>10. ASSUME NEW i \in Id, CompactItem(i) PROVE Shrinks
  BY <1>10 DEF CompactItem, Rows, End
<1>11. ASSUME NEW i \in Id, ExpireResult(i) \/ Broadcast(i) \/ CompactPayload(i) PROVE Shrinks
  BY <1>11 DEF ExpireResult, Broadcast, CompactPayload, Rows, rowVars
<1>12. ASSUME NEW w \in Waiter, LookupFirst(w) \/ StartWaiting(w) \/ TakeEvent(w) \/ TimeOut(w) \/ Lagged(w) PROVE Shrinks
  BY <1>12 DEF LookupFirst, StartWaiting, TakeEvent, TimeOut, Lagged, Rows, rowVars, queueVars
<1>13. CASE Truncate
  BY <1>13 DEF Truncate, Rows
<1>14. CASE Tick
  BY <1>14 DEF Tick, Rows
<1>15. CASE UNCHANGED storeVars
  BY <1>15 DEF storeVars, Rows
<1> QED
  BY <1>2, <1>3, <1>4, <1>5, <1>6, <1>7, <1>8, <1>9, <1>10, <1>11, <1>12, <1>13, <1>14, <1>15 DEF Next

LEMMA NextOneRowPerPath == TypeOK /\ OneRowPerPath /\ [Next]_storeVars => OneRowPerPath'
<1> SUFFICES ASSUME TypeOK, OneRowPerPath, [Next]_storeVars PROVE OneRowPerPath'
  OBVIOUS
<1>1. CASE Rows' \subseteq Rows /\ pathOf' = pathOf
  BY <1>1 DEF OneRowPerPath
<1>2. ASSUME NEW i \in Fresh, NEW p \in Path, Find(p) = {}, Rows' = Rows \cup {i},
             pathOf' = [pathOf EXCEPT ![i] = p]
      PROVE  OneRowPerPath'
  <2>1. i \in Id /\ i \notin Rows
    BY DEF Fresh, Unborn, Rows
  <2>2. pathOf'[i] = p
    BY <1>2, <2>1 DEF TypeOK
  <2>3. \A j \in Rows : pathOf'[j] = pathOf[j] /\ pathOf[j] # p
    BY <1>2, <2>1 DEF TypeOK, Find, Rows
  <2> QED
    BY <1>2, <2>2, <2>3 DEF OneRowPerPath
<1> QED
  BY <1>1, <1>2, StepOnRows

\* A path has at most one row, pending or active, whoever adds it how often.
THEOREM RowPerPath == Spec => []OneRowPerPath
<1>1. Init => OneRowPerPath
  BY DEF Init, OneRowPerPath, Rows
<1> QED
  BY <1>1, NextOneRowPerPath, TypeCorrect, PTL DEF Spec

-----------------------------------------------------------------------------
(* Concurrency *)

\* Only QUEUE RETRIEVE makes a row active, one at a time and below the limit.
LEMMA StepOnActive ==
  ASSUME TypeOK, [Next]_storeVars
  PROVE  \/ Active' \subseteq Active
         \/ Cardinality(Active) < Concurrency /\ \E i \in Id : Active' = Active \cup {i}
<1> USE CacheQueueAssumption DEF TypeOK
<1> DEFINE Shrinks == Active' \subseteq Active
<1>1. ASSUME NEW p \in Path, NEW i \in Id, Add(p, i) PROVE Shrinks
  BY <1>1 DEF Add, Active, storeVars
<1>2. ASSUME NEW p \in Path, NEW i \in Id, ReadResult(p, i) PROVE Shrinks
  BY <1>2 DEF ReadResult, Active, rowVars
<1>3. ASSUME NEW p \in Path, NEW n \in Process, Retrieve(p, n)
      PROVE  \/ Shrinks
             \/ Cardinality(Active) < Concurrency /\ \E i \in Id : Active' = Active \cup {i}
  <2>1. PICK i \in Find(p) :
          /\ Cardinality(Active) < Concurrency
          /\ \/ status' = [status EXCEPT ![i] = "active"]
             \/ End(i, "dropped")
    BY <1>3 DEF Retrieve, CanRetrieve
  <2>2. i \in Id
    BY DEF Find, Rows
  <2>3. CASE status' = [status EXCEPT ![i] = "active"]
    <3>1. Active' = Active \cup {i}
      BY <2>2, <2>3 DEF Active
    <3> QED
      BY <2>1, <2>2, <3>1
  <2>4. CASE End(i, "dropped")
    BY <2>2, <2>4 DEF End, Active
  <2> QED
    BY <2>1, <2>3, <2>4
<1>4. ASSUME NEW key \in Key, Cancel(key) PROVE Shrinks
  BY <1>4 DEF Cancel, Find, Rows, Active, End
<1>5. ASSUME NEW key \in Key, Heartbeat(key) PROVE Shrinks
  BY <1>5 DEF Heartbeat, Active
<1>6. ASSUME NEW key \in Key, NEW h \in Handle, MergeExtra(key, h) PROVE Shrinks
  BY <1>6 DEF MergeExtra, Active
<1>7. ASSUME NEW key \in Key, NEW r \in BOOLEAN, Ack(key, r) PROVE Shrinks
  BY <1>7 DEF Ack, Find, Rows, Active, End
<1>8. ASSUME NEW key \in Key, NEW w \in Waiter, Subscribe(w, key) PROVE Shrinks
  BY <1>8 DEF Subscribe, Active, queueVars
<1>9. ASSUME NEW i \in Id, CompactItem(i) PROVE Shrinks
  BY <1>9 DEF CompactItem, Active, End
<1>10. ASSUME NEW i \in Id, ExpireResult(i) \/ Broadcast(i) \/ CompactPayload(i) PROVE Shrinks
  BY <1>10 DEF ExpireResult, Broadcast, CompactPayload, Active, rowVars
<1>11. ASSUME NEW w \in Waiter, LookupFirst(w) \/ StartWaiting(w) \/ TakeEvent(w) \/ TimeOut(w) \/ Lagged(w) PROVE Shrinks
  BY <1>11 DEF LookupFirst, StartWaiting, TakeEvent, TimeOut, Lagged, Active, rowVars, queueVars
<1>12. CASE Truncate
  BY <1>12 DEF Truncate, Rows, Active
<1>13. CASE Tick
  BY <1>13 DEF Tick, Active
<1>14. CASE UNCHANGED storeVars
  BY <1>14 DEF storeVars, Active
<1> QED
  BY <1>1, <1>2, <1>3, <1>4, <1>5, <1>6, <1>7, <1>8, <1>9, <1>10, <1>11, <1>12, <1>13, <1>14 DEF Next

LEMMA ActiveFinite == IsFiniteSet(Active) /\ Cardinality(Active) \in Nat
<1>1. IsFiniteSet(Id)
  BY CacheQueueAssumption, FS_Interval DEF Id
<1>2. IsFiniteSet(Active)
  BY <1>1, FS_Subset DEF Active
<1> QED
  BY <1>2, FS_CardinalityType

LEMMA NextConcurrencyBound ==
  TypeOK /\ ConcurrencyBound /\ [Next]_storeVars => ConcurrencyBound'
<1> SUFFICES ASSUME TypeOK, ConcurrencyBound, [Next]_storeVars PROVE ConcurrencyBound'
  OBVIOUS
<1>1. CASE Active' \subseteq Active
  <2>1. Cardinality(Active') \in Nat /\ Cardinality(Active') <= Cardinality(Active)
    BY <1>1, ActiveFinite, FS_Subset, FS_CardinalityType
  <2> QED
    BY <2>1, ActiveFinite, CacheQueueAssumption DEF ConcurrencyBound
<1>2. ASSUME NEW i \in Id, Cardinality(Active) < Concurrency, Active' = Active \cup {i}
      PROVE  ConcurrencyBound'
  <2>1. \/ Cardinality(Active') = Cardinality(Active)
        \/ Cardinality(Active') = Cardinality(Active) + 1
    BY <1>2, ActiveFinite, FS_AddElement
  <2> QED
    BY <1>2, <2>1, ActiveFinite, CacheQueueAssumption DEF ConcurrencyBound
<1> QED
  BY <1>1, <1>2, StepOnActive

\* No more rows are active than the concurrency the processes pass.
THEOREM ConcurrencyIsBounded == Spec => []ConcurrencyBound
<1>1. Init => ConcurrencyBound
  <2>1. Init => Active = {}
    BY DEF Init, Active
  <2> QED
    BY <2>1, FS_EmptySet, CacheQueueAssumption DEF ConcurrencyBound
<1> QED
  BY <1>1, NextConcurrencyBound, TypeCorrect, PTL DEF Spec

-----------------------------------------------------------------------------
(* Answers *)

\* How a row ended, and the path of a row, never change.
LEMMA StepOnEnded ==
  ASSUME TypeOK, [Next]_storeVars, NEW j \in Id
  PROVE  /\ status[j] \in Ended => status'[j] = status[j]
         /\ pathOf[j] # None => pathOf'[j] = pathOf[j]
<1> USE CacheQueueAssumption DEF TypeOK, Ended
<1> DEFINE Keeps == /\ status[j] \in Ended => status'[j] = status[j]
                    /\ pathOf[j] # None => pathOf'[j] = pathOf[j]
<1>1. ASSUME NEW p \in Path, NEW i \in Id, Add(p, i) PROVE Keeps
  BY <1>1 DEF Add, Fresh, Unborn, storeVars
<1>2. ASSUME NEW p \in Path, NEW i \in Id, ReadResult(p, i) PROVE Keeps
  BY <1>2 DEF ReadResult, rowVars
<1>3. ASSUME NEW p \in Path, NEW n \in Process, Retrieve(p, n) PROVE Keeps
  BY <1>3 DEF Retrieve, Find, Rows, End
<1>4. ASSUME NEW key \in Key, Cancel(key) PROVE Keeps
  BY <1>4 DEF Cancel, Find, Rows, End
<1>5. ASSUME NEW key \in Key, Heartbeat(key) PROVE Keeps
  BY <1>5 DEF Heartbeat
<1>6. ASSUME NEW key \in Key, NEW h \in Handle, MergeExtra(key, h) PROVE Keeps
  BY <1>6 DEF MergeExtra
<1>7. ASSUME NEW key \in Key, NEW r \in BOOLEAN, Ack(key, r) PROVE Keeps
  BY <1>7 DEF Ack, Find, Rows, End
<1>8. ASSUME NEW key \in Key, NEW w \in Waiter, Subscribe(w, key) PROVE Keeps
  BY <1>8 DEF Subscribe, queueVars
<1>9. ASSUME NEW i \in Id, CompactItem(i) PROVE Keeps
  BY <1>9 DEF CompactItem, Rows, End
<1>10. ASSUME NEW i \in Id, ExpireResult(i) \/ Broadcast(i) \/ CompactPayload(i) PROVE Keeps
  BY <1>10 DEF ExpireResult, Broadcast, CompactPayload, rowVars
<1>11. ASSUME NEW w \in Waiter, LookupFirst(w) \/ StartWaiting(w) \/ TakeEvent(w) \/ TimeOut(w) \/ Lagged(w) PROVE Keeps
  BY <1>11 DEF LookupFirst, StartWaiting, TakeEvent, TimeOut, Lagged, rowVars, queueVars
<1>12. CASE Truncate
  BY <1>12 DEF Truncate, Rows
<1>13. CASE Tick
  BY <1>13 DEF Tick
<1>14. CASE UNCHANGED storeVars
  BY <1>14 DEF storeVars
<1> QED
  BY <1>1, <1>2, <1>3, <1>4, <1>5, <1>6, <1>7, <1>8, <1>9, <1>10, <1>11, <1>12, <1>13, <1>14 DEF Next

\* A result row that was not there before is that of a row just acknowledged, as
\* is an event that was not in the outbox.
LEMMA StepOnResults ==
  ASSUME TypeOK, [Next]_storeVars, NEW j \in Id
  PROVE  /\ result'[j] # "none" => result[j] # "none" \/ (status'[j] = "acked" /\ j \in outbox')
         /\ j \in outbox' => j \in outbox \/ status'[j] \in {"acked", "ackedEmpty"}
<1> USE CacheQueueAssumption DEF TypeOK, ResultType
<1> DEFINE Results == result'[j] # "none" => result[j] # "none" \/ (status'[j] = "acked" /\ j \in outbox')
           Events == j \in outbox' => j \in outbox \/ status'[j] \in {"acked", "ackedEmpty"}
<1>1. ASSUME NEW p \in Path, NEW i \in Id, Add(p, i) PROVE Results /\ Events
  BY <1>1 DEF Add, storeVars
<1>2. ASSUME NEW p \in Path, NEW i \in Id, ReadResult(p, i) PROVE Results /\ Events
  BY <1>2 DEF ReadResult, Lookup, Consumed
<1>3. ASSUME NEW p \in Path, NEW n \in Process, Retrieve(p, n) PROVE Results /\ Events
  BY <1>3 DEF Retrieve
<1>4. ASSUME NEW key \in Key, Cancel(key) PROVE Results /\ Events
  BY <1>4 DEF Cancel
<1>5. ASSUME NEW key \in Key, Heartbeat(key) PROVE Results /\ Events
  BY <1>5 DEF Heartbeat
<1>6. ASSUME NEW key \in Key, NEW h \in Handle, MergeExtra(key, h) PROVE Results /\ Events
  BY <1>6 DEF MergeExtra
<1>7. ASSUME NEW key \in Key, NEW r \in BOOLEAN, Ack(key, r) PROVE Results /\ Events
  BY <1>7 DEF Ack, Find, Rows, End
<1>8. ASSUME NEW key \in Key, NEW w \in Waiter, Subscribe(w, key) PROVE Results /\ Events
  BY <1>8 DEF Subscribe, queueVars
<1>9. ASSUME NEW i \in Id, CompactItem(i) \/ CompactPayload(i) PROVE Results /\ Events
  BY <1>9 DEF CompactItem, CompactPayload
<1>10. ASSUME NEW i \in Id, ExpireResult(i) \/ Broadcast(i) PROVE Results /\ Events
  BY <1>10 DEF ExpireResult, Broadcast
<1>11. ASSUME NEW w \in Waiter, LookupFirst(w) PROVE Results /\ Events
  BY <1>11 DEF LookupFirst, Lookup, Consumed
<1>12. ASSUME NEW w \in Waiter, TakeEvent(w) PROVE Results /\ Events
  BY <1>12 DEF TakeEvent
<1>13. ASSUME NEW w \in Waiter, StartWaiting(w) \/ TimeOut(w) \/ Lagged(w) PROVE Results /\ Events
  BY <1>13 DEF StartWaiting, TimeOut, Lagged, queueVars
<1>14. CASE Truncate
  BY <1>14 DEF Truncate
<1>15. CASE Tick
  BY <1>15 DEF Tick
<1>16. CASE UNCHANGED storeVars
  BY <1>16 DEF storeVars
<1> QED
  BY <1>1, <1>2, <1>3, <1>4, <1>5, <1>6, <1>7, <1>8, <1>9, <1>10, <1>11, <1>12, <1>13, <1>14,
     <1>15, <1>16 DEF Next

\* What a step does to a waiter: it hears an event of its key, starts,
\* misses the result because there is none, begins to wait, or ends; an answer
\* is a result or an event.
LEMMA StepOnWaiters ==
  ASSUME TypeOK, [Next]_storeVars, NEW w \in Waiter
  PROVE  LET a == waiter[w]
             b == waiter'[w]
         IN \/ b = a
            \/ /\ b.pc = a.pc /\ b.key = a.key /\ b.answer = a.answer
               /\ b.event \in outbox /\ Matches(a.key, b.event)
            \/ b.event = None /\ b.answer = None /\ b.pc \notin {"missed", "waiting"}
            \/ /\ a.pc # "idle" /\ b.key = a.key /\ b.answer = a.answer /\ b.event = a.event
               /\ a.pc = "missed" \/ (Lookup(a.key) = {} /\ result' = result)
            \/ /\ b.pc = "idle" /\ b.key = a.key /\ b.event = None
               /\ b.answer = a.event \/ b.answer \in Lookup(a.key)
<1> USE CacheQueueAssumption DEF TypeOK, WaiterType
<1> DEFINE a == waiter[w]
           b == waiter'[w]
           Hear == /\ b.pc = a.pc /\ b.key = a.key /\ b.answer = a.answer
                   /\ b.event \in outbox /\ Matches(a.key, b.event)
           Clear == b.event = None /\ b.answer = None /\ b.pc \notin {"missed", "waiting"}
           Wait == /\ a.pc # "idle" /\ b.key = a.key /\ b.answer = a.answer /\ b.event = a.event
                   /\ a.pc = "missed" \/ (Lookup(a.key) = {} /\ result' = result)
           Respond == /\ b.pc = "idle" /\ b.key = a.key /\ b.event = None
                      /\ b.answer = a.event \/ b.answer \in Lookup(a.key)
           Goal == b = a \/ Hear \/ Clear \/ Wait \/ Respond
<1>1. ASSUME NEW p \in Path, NEW i \in Id, Add(p, i) \/ ReadResult(p, i) PROVE b = a
  BY <1>1 DEF Add, ReadResult, storeVars
<1>2. ASSUME NEW p \in Path, NEW n \in Process, Retrieve(p, n) PROVE b = a
  BY <1>2 DEF Retrieve
<1>3. ASSUME NEW key \in Key, Cancel(key) \/ Heartbeat(key) PROVE b = a
  BY <1>3 DEF Cancel, Heartbeat
<1>4. ASSUME NEW key \in Key, NEW h \in Handle, MergeExtra(key, h) PROVE b = a
  BY <1>4 DEF MergeExtra
<1>5. ASSUME NEW key \in Key, NEW r \in BOOLEAN, Ack(key, r) PROVE b = a
  BY <1>5 DEF Ack
<1>6. ASSUME NEW key \in Key, NEW v \in Waiter, Subscribe(v, key) PROVE b = a \/ Clear
  BY <1>6 DEF Subscribe
<1>7. ASSUME NEW i \in Id, ExpireResult(i) \/ CompactItem(i) \/ CompactPayload(i) PROVE b = a
  BY <1>7 DEF ExpireResult, CompactItem, CompactPayload
<1>8. ASSUME NEW i \in Id, Broadcast(i) PROVE b = a \/ Hear
  <2>1. b = IF Hears(w, i) THEN [a EXCEPT !.event = i] ELSE a
    BY <1>8 DEF Broadcast
  <2>2. CASE Hears(w, i)
    <3>1. a \in [pc : {"idle", "subscribed", "missed", "waiting"}, key : Key \cup {None},
                 event : Id \cup {None}, answer : Id \cup {None}]
      OBVIOUS
    <3>2. b.pc = a.pc /\ b.key = a.key /\ b.answer = a.answer /\ b.event = i
      BY <2>1, <2>2, <3>1
    <3> QED
      BY <1>8, <2>2, <3>2 DEF Hears, Broadcast
  <2> QED
    BY <2>1, <2>2
<1>9. ASSUME NEW v \in Waiter, LookupFirst(v) PROVE Goal
  <2>1. ASSUME NEW i \in Lookup(waiter[v].key), Return(v, i) PROVE b = a \/ Respond
    BY <2>1 DEF Return
  <2>2. ASSUME waiter[v].pc = "subscribed", Lookup(waiter[v].key) = {}, waiter' = [waiter EXCEPT ![v].pc = "missed"], result' = result
        PROVE  b = a \/ Wait
    BY <2>2
  <2> QED
    BY <1>9, <2>1, <2>2 DEF LookupFirst
<1>10. ASSUME NEW v \in Waiter, TakeEvent(v) PROVE b = a \/ Respond
  BY <1>10 DEF TakeEvent, Return
<1>11. ASSUME NEW v \in Waiter, TimeOut(v) \/ Lagged(v) PROVE b = a \/ Clear
  BY <1>11 DEF TimeOut, Lagged, Return
<1>12. ASSUME NEW v \in Waiter, StartWaiting(v) PROVE b = a \/ Wait
  BY <1>12 DEF StartWaiting
<1>13. CASE Truncate \/ Tick \/ UNCHANGED storeVars
  BY <1>13 DEF Truncate, Tick, storeVars
<1>14. Goal
  BY <1>1, <1>2, <1>3, <1>4, <1>5, <1>6, <1>7, <1>8, <1>9, <1>10, <1>11, <1>12, <1>13 DEF Next
<1> QED
  BY <1>14

LEMMA NextProvenance == TypeOK /\ TypeOK' /\ Provenance /\ [Next]_storeVars => Provenance'
<1> SUFFICES ASSUME TypeOK, TypeOK', Provenance, [Next]_storeVars PROVE Provenance'
  OBVIOUS
<1>1. ASSUME NEW i \in Id, result'[i] # "none" PROVE status'[i] = "acked"
  BY <1>1, StepOnResults, StepOnEnded DEF Provenance, Ended
<1>2. ASSUME NEW i \in outbox' PROVE status'[i] \in {"acked", "ackedEmpty"}
  BY StepOnResults, StepOnEnded DEF Provenance, Ended, TypeOK
<1>3. ASSUME NEW w \in Waiter, waiter'[w].event # None
      PROVE  /\ status'[waiter'[w].event] \in {"acked", "ackedEmpty"}
             /\ \/ waiter'[w].key = waiter'[w].event
                \/ waiter'[w].key = pathOf'[waiter'[w].event]
  <2> DEFINE i == waiter'[w].event
  <2>1. waiter'[w].key = waiter[w].key /\ (i = waiter[w].event \/ (i \in outbox /\ Matches(waiter[w].key, i)))
    BY <1>3, StepOnWaiters
  <2>2. status[i] \in {"acked", "ackedEmpty"} /\ Matches(waiter[w].key, i)
    BY <1>3, <2>1 DEF Provenance
  <2>3. i \in Id
    BY <1>3 DEF TypeOK, WaiterType
  <2>4. status'[i] = status[i] /\ pathOf'[i] = pathOf[i]
    BY <2>2, <2>3, StepOnEnded DEF Ended, TypeOK
  <2> QED
    BY <2>1, <2>2, <2>4 DEF Matches
<1> QED
  BY <1>1, <1>2, <1>3 DEF Provenance, Matches

LEMMA NextAnswerIsAcked ==
  TypeOK /\ TypeOK' /\ Provenance /\ AnswerIsAcked /\ [Next]_storeVars => AnswerIsAcked'
<1> SUFFICES ASSUME TypeOK, TypeOK', Provenance, AnswerIsAcked, [Next]_storeVars,
                    NEW w \in Waiter, waiter'[w].answer # None
             PROVE  /\ status'[waiter'[w].answer] \in {"acked", "ackedEmpty"}
                    /\ \/ waiter'[w].key = waiter'[w].answer
                       \/ waiter'[w].key = pathOf'[waiter'[w].answer]
  BY DEF AnswerIsAcked, Matches
<1> DEFINE i == waiter'[w].answer
<1>1. i \in Id
  BY DEF TypeOK, WaiterType
<1>2. waiter'[w].key = waiter[w].key
      /\ (i = waiter[w].answer \/ i = waiter[w].event \/ i \in Lookup(waiter[w].key))
  BY StepOnWaiters
<1>3. status[i] \in {"acked", "ackedEmpty"} /\ Matches(waiter[w].key, i)
  <2>1. CASE i = waiter[w].answer
    BY <2>1 DEF AnswerIsAcked
  <2>2. CASE i = waiter[w].event
    BY <2>2 DEF Provenance
  <2>3. CASE i \in Lookup(waiter[w].key)
    <3>1. result[i] # "none" /\ (i = waiter[w].key \/ pathOf[i] = waiter[w].key)
      BY <2>3 DEF Lookup, Latest
    <3> QED
      BY <1>1, <3>1 DEF Provenance, Matches
  <2> QED
    BY <1>2, <2>1, <2>2, <2>3
<1>4. status'[i] = status[i] /\ pathOf'[i] = pathOf[i]
  BY <1>1, <1>3, StepOnEnded DEF Ended, TypeOK
<1> QED
  BY <1>2, <1>3, <1>4 DEF Matches

\* Results and events exist for acknowledged rows only.
THEOREM ProvenanceHolds == Spec => []Provenance
<1>1. Init => Provenance
  BY DEF Init, Provenance
<1> QED
  BY <1>1, NextProvenance, TypeCorrect, PTL DEF Spec

\* Whoever waits is answered with the outcome of an acknowledged row of its key.
THEOREM AnswersAreAcked == Spec => []AnswerIsAcked
<1>1. Init => AnswerIsAcked
  BY DEF Init, AnswerIsAcked
<1> QED
  BY <1>1, NextAnswerIsAcked, ProvenanceHolds, TypeCorrect, PTL DEF Spec

-----------------------------------------------------------------------------
(* Wakeups *)

\* An event leaves the outbox by its broadcast only.
LEMMA StepOnOutbox ==
  ASSUME TypeOK, [Next]_storeVars, NEW i \in outbox
  PROVE  i \in outbox' \/ Broadcast(i)
<1> DEFINE Stays == i \in outbox'
<1>1. ASSUME NEW p \in Path, NEW j \in Id, Add(p, j) \/ ReadResult(p, j) PROVE Stays
  BY <1>1 DEF Add, ReadResult, storeVars
<1>2. ASSUME NEW p \in Path, NEW n \in Process, Retrieve(p, n) PROVE Stays
  BY <1>2 DEF Retrieve
<1>3. ASSUME NEW key \in Key, Cancel(key) \/ Heartbeat(key) PROVE Stays
  BY <1>3 DEF Cancel, Heartbeat
<1>4. ASSUME NEW key \in Key, NEW h \in Handle, MergeExtra(key, h) PROVE Stays
  BY <1>4 DEF MergeExtra
<1>5. ASSUME NEW key \in Key, NEW r \in BOOLEAN, Ack(key, r) PROVE Stays
  BY <1>5 DEF Ack
<1>6. ASSUME NEW key \in Key, NEW w \in Waiter, Subscribe(w, key) PROVE Stays
  BY <1>6 DEF Subscribe, queueVars
<1>7. ASSUME NEW j \in Id, ExpireResult(j) \/ CompactItem(j) \/ CompactPayload(j) PROVE Stays
  BY <1>7 DEF ExpireResult, CompactItem, CompactPayload
<1>8. ASSUME NEW j \in Id, Broadcast(j) PROVE Stays \/ Broadcast(i)
  BY <1>8 DEF Broadcast
<1>9. ASSUME NEW w \in Waiter, LookupFirst(w) \/ StartWaiting(w) \/ TakeEvent(w) \/ TimeOut(w) \/ Lagged(w) PROVE Stays
  BY <1>9 DEF LookupFirst, StartWaiting, TakeEvent, TimeOut, Lagged, queueVars
<1>10. CASE Truncate \/ Tick \/ UNCHANGED storeVars
  BY <1>10 DEF Truncate, Tick, storeVars
<1> QED
  BY <1>1, <1>2, <1>3, <1>4, <1>5, <1>6, <1>7, <1>8, <1>9, <1>10 DEF Next

LEMMA NoneIsNoId == None \notin Id
BY CacheQueueAssumption DEF Id

LEMMA NextNoLostWakeup ==
  TypeOK /\ TypeOK' /\ NoLostWakeup /\ [Next]_storeVars => NoLostWakeup'
<1> SUFFICES ASSUME TypeOK, TypeOK', NoLostWakeup, [Next]_storeVars,
                    NEW w \in Waiter, NEW i \in Id,
                    waiter'[w].pc \in {"missed", "waiting"}, waiter'[w].key = i, waiter'[w].event = None,
                    result'[i] # "none"
             PROVE  i \in outbox'
  BY DEF NoLostWakeup
<1> USE CacheQueueAssumption
<1>1. result[i] # "none" \/ i \in outbox'
  BY StepOnResults
<1>2. CASE result[i] # "none"
  <2>1. waiter[w].pc \in {"missed", "waiting"} /\ waiter[w].key = i /\ waiter[w].event = None
    <3>1. None \notin outbox
      BY NoneIsNoId DEF TypeOK
    <3>2. waiter[w].key = i => Lookup(waiter[w].key) # {}
      BY <1>2 DEF Lookup
    <3> QED
      BY <3>1, <3>2, StepOnWaiters
  <2>2. i \in outbox
    BY <1>2, <2>1 DEF NoLostWakeup
  <2>3. ~Broadcast(i)
    <3>1. ASSUME Broadcast(i) PROVE waiter'[w].event = i
      BY <3>1, <2>1 DEF Broadcast, Hears, Matches, TypeOK, WaiterType
    <3> QED
      BY <3>1, NoneIsNoId
  <2> QED
    BY <2>2, <2>3, StepOnOutbox
<1> QED
  BY <1>1, <1>2

\* No request waits for a result that is already there and whose event is past.
THEOREM WakeupsAreNotLost == Spec => []NoLostWakeup
<1>1. Init => NoLostWakeup
  BY DEF Init, NoLostWakeup
<1> QED
  BY <1>1, NextNoLostWakeup, TypeCorrect, PTL DEF Spec

=============================================================================
