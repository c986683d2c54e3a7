----------------------------- MODULE CacheQueue -----------------------------
(***************************************************************************)
(* The query queue that Cube Store keeps in its cache store.               *)
(*                                                                         *)
(* A row of the queue is identified by its row id.  Every write runs as    *)
(* one closure on the queue's read-write loop, so an operation below is    *)
(* one atomic step; what is not atomic is the broadcast of the event of an *)
(* acknowledgement, which follows the commit, and QUEUE RESULT_BLOCKING,   *)
(* which subscribes, looks the result up and then waits.                   *)
(*                                                                         *)
(* A key is a row id or a path.  An operation whose key finds no row       *)
(* changes nothing (NoRow): a stuttering step, with no disjunct in Next.   *)
(***************************************************************************)
EXTENDS Integers, FiniteSets

CONSTANTS
  Path,              \* the paths (prefix and key) of one queue prefix
  Process,           \* process ids of the callers
  NoProcess,         \* the path is not exclusive to a process
  Owner,             \* Owner[p]: the process whose exclusive rows p holds
  Priority,          \* Priority[p]: the priority the rows of p are added with
  OrphanedAfter,     \* OrphanedAfter[p]: age at which a pending row is orphaned
  HeartbeatTimeout,  \* age at which an active row without heartbeat is stalled
  Concurrency,       \* concurrency the callers pass to QUEUE RETRIEVE
  Handle,            \* values merged into the extra column
  None,              \* no extra, no key, no event, no answer
  Waiter,            \* connections that issue QUEUE RESULT_BLOCKING
  MaxId              \* bound: rows ever added

Id == 1..MaxId
Key == Id \cup Path

ASSUME CacheQueueAssumption ==
  /\ MaxId \in Nat
  /\ Concurrency \in Nat \ {0}
  /\ HeartbeatTimeout \in Nat
  /\ Priority \in [Path -> Int]
  /\ OrphanedAfter \in [Path -> Nat]
  /\ Owner \in [Path -> Process \cup {NoProcess}]
  /\ Path \cap Nat = {}
  /\ None \notin Nat \cup Path \cup Handle

VARIABLES
  status,    \* status[i]: the status column while the row exists; after that,
             \* how it ended, which the code cannot see: it only finds no row
  pathOf,    \* pathOf[i]: the path column
  age,       \* age[i]: time since created (pending) or the heartbeat (active)
  extra,     \* extra[i]: the last value merged into the extra column
  payload,   \* ids that have a payload row
  result,    \* result[i]: the result row with primary key i
  outbox,    \* acknowledgements committed whose event is not broadcast yet
  waiter     \* waiter[w]: the RESULT_BLOCKING request of connection w

rowVars   == <<status, pathOf, age, extra, payload>>
queueVars == <<status, pathOf, age, extra, payload, result, outbox>>
storeVars == <<status, pathOf, age, extra, payload, result, outbox, waiter>>

Ended == {"acked", "ackedEmpty", "dropped"}
Status == {"unborn", "pending", "active"} \cup Ended

Rows == {i \in Id : status[i] \in {"pending", "active"}}
Pending == {i \in Id : status[i] = "pending"}
Active == {i \in Id : status[i] = "active"}

\* The row a key finds: get_row_by_key, get_single_opt_row_by_index.
Find(key) == {i \in Rows : i = key \/ pathOf[i] = key}

NoRow(key) == Find(key) = {} /\ UNCHANGED storeVars

\* The id the row sequence hands out next; ids are never used twice.
Unborn == {i \in Id : status[i] = "unborn"}
Fresh == {i \in Unborn : \A j \in Unborn : i <= j}

Init ==
  /\ status = [i \in Id |-> "unborn"]
  /\ pathOf = [i \in Id |-> None]
  /\ age = [i \in Id |-> 0]
  /\ extra = [i \in Id |-> None]
  /\ payload = {}
  /\ result = [i \in Id |-> "none"]
  /\ outbox = {}
  /\ waiter = [w \in Waiter |-> [pc |-> "idle", key |-> None, event |-> None, answer |-> None]]

-----------------------------------------------------------------------------
(* Rows *)

\* Mutant of End: the path goes with the row.
EndForgetsPath(i, how) ==
  /\ status' = [status EXCEPT ![i] = how]
  /\ age' = [age EXCEPT ![i] = 0]
  /\ extra' = [extra EXCEPT ![i] = None]
  /\ pathOf' = [pathOf EXCEPT ![i] = None]

\* The ways a row leaves the queue.
End(i, how) ==
  /\ status' = [status EXCEPT ![i] = how]
  /\ age' = [age EXCEPT ![i] = 0]
  /\ extra' = [extra EXCEPT ![i] = None]
  /\ UNCHANGED pathOf

\* Mutant of Add: it inserts without looking for a row of the path.
AddUnchecked(p, i) ==
  /\ i \in Fresh
  /\ status' = [status EXCEPT ![i] = "pending"]
  /\ pathOf' = [pathOf EXCEPT ![i] = p]
  /\ payload' = payload \cup {i}
  /\ UNCHANGED <<age, extra, result, outbox, waiter>>

\* QUEUE ADD: i is the id in the reply.  A path that has a row keeps it as it is.
Add(p, i) ==
  \/ /\ i \in Find(p)
     /\ UNCHANGED storeVars
  \/ /\ Find(p) = {}
     /\ i \in Fresh
     /\ status' = [status EXCEPT ![i] = "pending"]
     /\ pathOf' = [pathOf EXCEPT ![i] = p]
     /\ payload' = payload \cup {i}
     /\ UNCHANGED <<age, extra, result, outbox, waiter>>

\* The age over which QUEUE TO_CANCEL reports a row.
Limit(i) == IF status[i] = "pending" THEN OrphanedAfter[pathOf[i]] ELSE HeartbeatTimeout

ToCancel == {i \in Rows : age[i] > Limit(i)}

\* Mutant of MayTake: EXCLUSIVE is ignored.
MayTakeAny(n, i) == TRUE

\* An exclusive row is for the process that added it.
MayTake(n, i) == Owner[pathOf[i]] \in {NoProcess, n}

\* QUEUE LIST as process n sees it: the rows, and which comes first.
Visible(n) == {i \in Rows : MayTake(n, i)}

Before(i, j) == LET a == Priority[pathOf[i]]
                    b == Priority[pathOf[j]] IN a > b \/ (a = b /\ i < j)

\* Mutant of Cancel: an active row goes back to the pending ones.
CancelRequeues(key) == \E i \in Find(key) :
  /\ status' = [status EXCEPT ![i] = "pending"]
  /\ UNCHANGED <<pathOf, age, extra, payload, result, outbox, waiter>>

\* QUEUE CANCEL: the reply is the definition only when the payload is there.
Cancel(key) == \E i \in Find(key) :
  /\ End(i, "dropped")
  /\ payload' = payload \ {i}
  /\ UNCHANGED <<result, outbox, waiter>>

\* QUEUE HEARTBEAT: a pending row's heartbeat is never read, QUEUE RETRIEVE
\* overwrites it, so that only an active row's age is reset.
Heartbeat(key) == \E i \in Find(key) :
  /\ status[i] = "active"
  /\ age' = [age EXCEPT ![i] = 0]
  /\ UNCHANGED <<status, pathOf, extra, payload, result, outbox, waiter>>

\* QUEUE MERGE_EXTRA
MergeExtra(key, h) == \E i \in Find(key) :
  /\ extra' = [extra EXCEPT ![i] = h]
  /\ UNCHANGED <<status, pathOf, age, payload, result, outbox, waiter>>

\* Mutant of CanRetrieve: off by one.
CanRetrieveOneMore(i, n) ==
  /\ Cardinality(Active) <= Concurrency
  /\ status[i] = "pending"
  /\ MayTake(n, i)

CanRetrieve(i, n) ==
  /\ Cardinality(Active) < Concurrency            \* else NotEnoughConcurrency
  /\ status[i] = "pending"                        \* else LockFailed
  /\ MayTake(n, i)                                \* else ExclusiveAccessFailed

\* QUEUE RETRIEVE by process n; without a payload the row is deleted: NotFound.
Retrieve(p, n) == \E i \in Find(p) :
  /\ CanRetrieve(i, n)
  /\ \/ /\ i \in payload
        /\ status' = [status EXCEPT ![i] = "active"]
        /\ age' = [age EXCEPT ![i] = 0]
        /\ UNCHANGED <<pathOf, extra>>
     \/ /\ i \notin payload
        /\ End(i, "dropped")
  /\ UNCHANGED <<payload, result, outbox, waiter>>

\* Mutant of Ack: the row stays when there is a result.
AckKeepsRow(key, withResult) == \E i \in Find(key) :
  /\ IF withResult THEN UNCHANGED <<status, age, extra, pathOf>> ELSE End(i, "ackedEmpty")
  /\ payload' = payload \ {i}
  /\ result' = [result EXCEPT ![i] = IF withResult THEN "fresh" ELSE "none"]
  /\ outbox' = outbox \cup {i}
  /\ UNCHANGED waiter

\* QUEUE ACK: the status of the row is not looked at.
Ack(key, withResult) == \E i \in Find(key) :
  /\ End(i, IF withResult THEN "acked" ELSE "ackedEmpty")
  /\ payload' = payload \ {i}
  /\ result' = [result EXCEPT ![i] = IF withResult THEN "fresh" ELSE "none"]
  /\ outbox' = outbox \cup {i}
  /\ UNCHANGED waiter

\* QUEUE TRUNCATE: no event tells the waiters.
Truncate ==
  /\ status' = [i \in Id |-> IF i \in Rows THEN "dropped" ELSE status[i]]
  /\ age' = [i \in Id |-> 0]
  /\ extra' = [i \in Id |-> None]
  /\ payload' = {}
  /\ result' = [i \in Id |-> "none"]
  /\ UNCHANGED <<pathOf, outbox, waiter>>

-----------------------------------------------------------------------------
(* Results *)

\* The result row a path finds: the last one of its index.
Latest(p) == {i \in Id : /\ pathOf[i] = p /\ result[i] # "none"
                         /\ \A j \in Id : pathOf[j] = p /\ result[j] # "none" => j <= i}

\* What the lookup of a key returns: a path finds a result that is not deleted.
Lookup(key) == {i \in Id : /\ result[i] # "none"
                           /\ \/ i = key
                              \/ i \in Latest(key) /\ result[i] = "fresh"}

\* A lookup by path consumes the result, a lookup by id leaves it.
Consumed(key, i) == IF key \in Path THEN [result EXCEPT ![i] = "deleted"] ELSE result

\* QUEUE RESULT of a path; the reply is i.
ReadResult(p, i) ==
  /\ i \in Lookup(p)
  /\ result' = Consumed(p, i)
  /\ UNCHANGED <<rowVars, outbox, waiter>>

\* The scheduled deletion after an acknowledgement, or the expiry of the row.
ExpireResult(i) ==
  /\ result[i] # "none"
  /\ result' = [result EXCEPT ![i] = "none"]
  /\ UNCHANGED <<rowVars, outbox, waiter>>

-----------------------------------------------------------------------------
(* QUEUE RESULT_BLOCKING and the broadcast channel *)

Matches(key, i) == key = i \/ key = pathOf[i]

\* Opening the listener comes first: it fixes the position in the channel.
Subscribe(w, key) ==
  /\ waiter[w].pc = "idle"
  /\ waiter' = [waiter EXCEPT ![w] =
       [pc |-> "subscribed", key |-> key, event |-> None, answer |-> None]]
  /\ UNCHANGED queueVars

\* The request ends and its listener is dropped.
Return(w, answer) == waiter' = [waiter EXCEPT ![w] =
  [pc |-> "idle", key |-> waiter[w].key, event |-> None, answer |-> answer]]

LookupFirst(w) ==
  /\ waiter[w].pc = "subscribed"
  /\ \/ \E i \in Lookup(waiter[w].key) :
          /\ result' = Consumed(waiter[w].key, i)
          /\ Return(w, i)
     \/ /\ Lookup(waiter[w].key) = {}
        /\ waiter' = [waiter EXCEPT ![w].pc = "missed"]
        /\ UNCHANGED result
  /\ UNCHANGED <<rowVars, outbox>>

\* The wait begins when the reply of the lookup is there.
StartWaiting(w) ==
  /\ waiter[w].pc = "missed"
  /\ waiter' = [waiter EXCEPT ![w].pc = "waiting"]
  /\ UNCHANGED queueVars

\* Mutants of Hears: the listener is opened after the lookup; it takes any event.
HearsLate(w, i) == waiter[w].pc = "waiting" /\ waiter[w].event = None /\ Matches(waiter[w].key, i)
HearsAny(w, i) == waiter[w].pc # "idle" /\ waiter[w].event = None

\* A subscribed listener keeps every event; the wait takes the first that matches.
Hears(w, i) ==
  /\ waiter[w].pc # "idle"
  /\ waiter[w].event = None
  /\ Matches(waiter[w].key, i)

Broadcast(i) ==
  /\ i \in outbox
  /\ outbox' = outbox \ {i}
  /\ waiter' = [w \in Waiter |-> IF Hears(w, i) THEN [waiter[w] EXCEPT !.event = i] ELSE waiter[w]]
  /\ UNCHANGED <<rowVars, result>>

\* Queue v1 (by path) deletes the result row, v2 (by id) marks it deleted.
TakeEvent(w) == LET i == waiter[w].event IN
  /\ waiter[w].pc = "waiting"
  /\ i # None
  /\ result' = [result EXCEPT ![i] = IF waiter[w].key \in Path \/ @ = "none" THEN "none" ELSE "deleted"]
  /\ Return(w, i)
  /\ UNCHANGED <<rowVars, outbox>>

\* The timeout polls the listener first: an event that has arrived wins.
TimeOut(w) ==
  /\ waiter[w].pc = "waiting"
  /\ waiter[w].event = None
  /\ Return(w, None)
  /\ UNCHANGED queueVars

\* Other events overran the channel: the listener fails, an event may be lost.
Lagged(w) ==
  /\ waiter[w].pc = "waiting"
  /\ Return(w, None)
  /\ UNCHANGED queueVars

-----------------------------------------------------------------------------
(* Time: ages saturate one above the limit, where nothing changes any more. *)

Tick ==
  /\ Rows \ ToCancel # {}
  /\ age' = [i \in Id |-> IF i \in Rows \ ToCancel THEN age[i] + 1 ELSE age[i]]
  /\ UNCHANGED <<status, pathOf, extra, payload, result, outbox, waiter>>

\* The compaction filter drops rows that are past their expiry, which lies hours
\* after the orphaned time; items and payloads are dropped one by one.
Expired(i) == status[i] = "pending" => i \in ToCancel

CompactItem(i) ==
  /\ i \in Rows /\ Expired(i)
  /\ End(i, "dropped")
  /\ UNCHANGED <<payload, result, outbox, waiter>>

CompactPayload(i) ==
  /\ i \in payload /\ Expired(i)
  /\ payload' = payload \ {i}
  /\ UNCHANGED <<status, pathOf, age, extra, result, outbox, waiter>>

-----------------------------------------------------------------------------

Next ==
  \/ \E p \in Path : \/ \E i \in Id : Add(p, i) \/ ReadResult(p, i)
                     \/ \E n \in Process : Retrieve(p, n)
  \/ \E key \in Key : \/ Cancel(key) \/ Heartbeat(key)
                      \/ \E h \in Handle : MergeExtra(key, h)
                      \/ \E withResult \in BOOLEAN : Ack(key, withResult)
                      \/ key \notin Unborn /\ \E w \in Waiter : Subscribe(w, key)
  \/ \E i \in Id : ExpireResult(i) \/ Broadcast(i) \/ CompactItem(i) \/ CompactPayload(i)
  \/ \E w \in Waiter : LookupFirst(w) \/ StartWaiting(w) \/ TakeEvent(w) \/ TimeOut(w) \/ Lagged(w)
  \/ Truncate \/ Tick

Spec == Init /\ [][Next]_storeVars
-----------------------------------------------------------------------------
(* Properties *)

\* The types of waiter and result.
WaiterType == [Waiter -> [pc : {"idle", "subscribed", "missed", "waiting"}, key : Key \cup {None},
                          event : Id \cup {None}, answer : Id \cup {None}]]
ResultType == [Id -> {"none", "fresh", "deleted"}]

\* The shape of the state, and which statuses have a path.
TypeOK ==
  /\ status \in [Id -> Status]
  /\ pathOf \in [Id -> Path \cup {None}]
  /\ \A i \in Id : pathOf[i] = None <=> status[i] = "unborn"
  /\ age \in [Id -> Nat]
  /\ extra \in [Id -> Handle \cup {None}]
  /\ payload \subseteq Id
  /\ result \in ResultType
  /\ outbox \subseteq Id
  /\ waiter \in WaiterType

\* QUEUE ADD finds a row before it inserts one, in the same closure: two rows
\* of a path, one pending and one active, would run the same query twice.
OneRowPerPath == \A i, j \in Rows : pathOf[i] = pathOf[j] => i = j

\* However many processes retrieve at once, no more rows are active than the
\* concurrency they pass.
ConcurrencyBound == Cardinality(Active) <= Concurrency

\* A request that found no result for a row id, and whose result is in the store
\* by now, has heard the event or will: listening before looking up leaves no gap between the two.
NoLostWakeup == \A w \in Waiter : \A i \in Id :
  /\ waiter[w].pc \in {"missed", "waiting"} /\ waiter[w].key = i /\ waiter[w].event = None
  /\ result[i] # "none"
  => i \in outbox

\* Only an acknowledgement leaves a result row, an event to broadcast or an event
\* in a listener, and an event reaches the listeners of its own row only.
Provenance ==
  /\ \A i \in Id : result[i] # "none" => status[i] = "acked"
  /\ \A i \in outbox : status[i] \in {"acked", "ackedEmpty"}
  /\ \A w \in Waiter : LET i == waiter[w].event IN
       i # None => status[i] \in {"acked", "ackedEmpty"} /\ Matches(waiter[w].key, i)

\* An answer is the outcome of an acknowledged row of the key asked for: no
\* cancelled, expired or truncated row, and nobody else's.
AnswerIsAcked == \A w \in Waiter : LET i == waiter[w].answer IN
  i # None => status[i] \in {"acked", "ackedEmpty"} /\ Matches(waiter[w].key, i)

\* The job a row is, by its status, and the callers' side of the blocking requests.
JobName(s) == CASE s = "unborn" -> "new"
                [] s = "pending" -> "queued"
                [] s = "active" -> "running"
                [] s = "dropped" -> "dropped"
                [] OTHER -> "finished"
JobOf == [i \in Id |-> JobName(status[i])]
AskedBy == [w \in Waiter |-> waiter[w].key]
AnswerTo == [w \in Waiter |-> waiter[w].answer]

Jobs == INSTANCE JobQueue WITH
  Caller <- Waiter, job <- JobOf, path <- pathOf, asked <- AskedBy, answer <- AnswerTo

\* The queue with its rows, events and clocks keeps the promises of JobQueue.
ImplementsJobQueue == Jobs!Spec
=============================================================================
