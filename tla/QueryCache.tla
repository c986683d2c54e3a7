----------------------------- MODULE QueryCache -----------------------------
(***************************************************************************)
(* How API processes answer a query from the cache they share.  The value  *)
(* of a refresh key says whether the result that is cached still counts; a *)
(* new result comes through the queue; a request that takes too long is    *)
(* told to come back ("Continue wait") while what it began goes on.        *)
(*                                                                         *)
(* One query with one refresh key, which is the version of its data.  The  *)
(* queue is what its callers see of it: one row at most, whoever waits for *)
(* it hears its outcome, and an outcome nobody took is left for the next   *)
(* one who asks.  CacheQueue and QueryQueue are about the rest of it.      *)
(***************************************************************************)
EXTENDS Integers, FiniteSets

CONSTANTS
  Request,     \* clients, each with one request at a time
  Nobody,      \* the request is over
  MaxVersion,  \* versions of the data (bound)
  Recurs,      \* after MaxVersion the data is as it was at first, and so on
  Settings     \* who may ask, how, and the bounds for that

Version == 0..MaxVersion

\* What a query returns, and the renewalKey of a result: the value of the refresh
\* key, the empty list when its query failed, or none at all.
Failed == -1
Absent == -2
Outcome == Version \cup {Failed}
Key == Outcome \cup {Absent}

Modes == {"stale-if-slow", "stale-while-revalidate", "must-revalidate", "no-cache"}

ASSUME QueryCacheAssumption ==
  /\ MaxVersion \in Nat
  /\ Recurs \in BOOLEAN
  /\ Nobody \notin Request
  /\ Settings \subseteq [clients : SUBSET Request,       \* those that use the query
                         modes : (SUBSET Modes) \ {{}},  \* the cache modes they ask for
                         tasks : Nat,                    \* tasks of a client when it asks again (bound)
                         faults : Nat]                   \* failures, and rows, results and entries lost (bound)

VARIABLES
  setting,  \* one of Settings, for good
  version,  \* of the data
  old,      \* earlier values of the refresh key that are still cached somewhere
  row,      \* the row of the query in the queue, if there is one
  left,     \* the result in the queue that the next lookup finds
  cache,    \* the entry of the query in the cache
  tasks,    \* promises that are not settled yet
  status,   \* status[r]: what the client does
  mode,     \* mode[r]: the cacheMode of its request
  faults    \* history: how many faults there were

vars == <<setting, version, old, row, left, cache, tasks, status, mode, faults>>

Row == [pc : {"queued", "running"}, ver : Version]
Entry == [ver : Version, key : Key, req : Request \cup {Nobody}, late : BOOLEAN]

\* "own" is awaited by the call of a client, "orphan" was; "cycle" is a renew cycle,
\* "background" a renewal that nobody awaits.
Kind == {"own", "orphan", "cycle", "background"}
Task == [kind : Kind, req : Request, pc : {"key", "look", "ask", "wait", "got"}, key : Key, res : Key]

Init ==
  /\ version = 0
  /\ old = {}
  /\ row = {}
  /\ left = {}
  /\ cache = {}
  /\ tasks = {}
  /\ status = [r \in Request |-> "idle"]
  /\ setting \in Settings
  /\ mode = [r \in Request |-> CHOOSE m \in setting.modes : TRUE]
  /\ faults = 0

-----------------------------------------------------------------------------
(* cachedQueryResult: the query itself and, in most modes, a renew cycle.   *)

Begun(kind, r, pc) == [kind |-> kind, req |-> r, pc |-> pc, key |-> Absent, res |-> Absent]

Call(r, m) ==
  {Begun("own", r, IF m = "stale-while-revalidate" THEN "look" ELSE "key")}
  \cup IF m = "must-revalidate" THEN {} ELSE {Begun("cycle", r, "key")}

\* A new request has a new id: what the one before it has cached is not its own.
Ask(r) ==
  /\ r \in setting.clients /\ status[r] = "idle" /\ \A t \in tasks : t.req # r
  /\ status' = [status EXCEPT ![r] = "asked"]
  /\ \E m \in setting.modes : mode' = [mode EXCEPT ![r] = m] /\ tasks' = tasks \cup Call(r, m)
  /\ cache' = {IF e.req = r THEN [e EXCEPT !.req = Nobody] ELSE e : e \in cache}
  /\ UNCHANGED <<setting, version, old, row, left, faults>>

\* After "Continue wait" a client repeats its request under the same id.
AskAgain(r) ==
  /\ status[r] = "again" /\ Cardinality({t \in tasks : t.req = r}) <= setting.tasks
  /\ status' = [status EXCEPT ![r] = "asked"]
  /\ tasks' = tasks \cup Call(r, mode[r])
  /\ UNCHANGED <<setting, version, old, row, left, cache, mode, faults>>

\* A query that is slow is answered with what is cached in two of the modes.
ContinueWait(r) == status' = [status EXCEPT ![r] =
  IF mode[r] \in {"stale-if-slow", "stale-while-revalidate"} /\ cache # {} THEN "idle" ELSE "again"]

\* The call has taken continueWaitTimeout, by waiting for the queue; its task goes on.
CallTimesOut(t) ==
  /\ t.kind = "own" /\ t.pc = "wait"
  /\ tasks' = (tasks \ {t}) \cup {[t EXCEPT !.kind = "orphan"]}
  /\ ContinueWait(t.req)
  /\ UNCHANGED <<setting, version, old, row, left, cache, mode, faults>>

\* The queue's own continueWaitTimeout ends the task.
TaskTimesOut(t) ==
  /\ t.pc = "wait"
  /\ tasks' = tasks \ {t}
  /\ IF t.kind = "own" THEN ContinueWait(t.req) ELSE UNCHANGED status
  /\ UNCHANGED <<setting, version, old, row, left, cache, mode, faults>>

-----------------------------------------------------------------------------
(* renewQuery: the refresh key first.  Its query has an entry, a row and a   *)
(* copy in memory of its own: what is seen of them is that the value may be  *)
(* an old one, that it may fail, and that the wait for it may time out.      *)

LoadRefreshKey(t) ==
  /\ t.pc = "key"
  /\ \E k \in old \cup {version} : tasks' = (tasks \ {t}) \cup {[t EXCEPT !.pc = "look", !.key = k]}
  /\ UNCHANGED <<setting, version, old, row, left, cache, status, mode, faults>>

Fault == faults < setting.faults /\ faults' = faults + 1

\* Without its refresh key the query is run all the same.
RefreshKeyFails(t) ==
  /\ t.pc = "key" /\ Fault
  /\ tasks' = (tasks \ {t}) \cup {[t EXCEPT !.pc = "look", !.key = Failed]}
  /\ UNCHANGED <<setting, version, old, row, left, cache, status, mode>>

RefreshKeyTimesOut(t) ==
  /\ t.pc = "key" /\ Fault
  /\ tasks' = tasks \ {t}
  /\ IF t.kind = "own" THEN ContinueWait(t.req) ELSE UNCHANGED status
  /\ UNCHANGED <<setting, version, old, row, left, cache, mode>>

-----------------------------------------------------------------------------
(* cacheQueryResult                                                         *)

\* Mutant of Expired: only a query without a renewalThreshold counts.
ExpiredNever(t, e) == t.key = Absent

\* isExpired: always, when there is no renewalThreshold; isKeyMismatch.
Expired(t, e) == e.late \/ t.key = Absent
Mismatch(t, e) == t.key # Absent /\ e.key # t.key
Stale(t, e) == Expired(t, e) \/ Mismatch(t, e)

\* Mutant of SameRequest: whole ids are compared, and each attempt has its own.
SameAttempt(t, e) == FALSE

\* isSameRequest, which a renew cycle takes no account of.
SameRequest(t, e) == e.req = t.req /\ t.kind # "cycle"

MustFetch(t, e) == Stale(t, e) /\ ~SameRequest(t, e) /\ t.key # Absent

\* forceNoCache is not handed to the renew cycle.
Forced(t) == mode[t.req] = "no-cache" /\ t.kind # "cycle"

Settle(t) == status' = IF t.kind = "own" THEN [status EXCEPT ![t.req] = "idle"] ELSE status

\* The entry is used, and renewed in the background if it is stale.
UseEntry(t) ==
  /\ t.pc = "look" /\ ~Forced(t)
  /\ \E e \in cache :
       /\ ~MustFetch(t, e)
       /\ tasks' = (tasks \ {t}) \cup
            IF Stale(t, e) /\ SameRequest(t, e)
            THEN {[t EXCEPT !.kind = "background", !.pc = "ask"]} ELSE {}
  /\ Settle(t)
  /\ UNCHANGED <<setting, version, old, row, left, cache, mode, faults>>

\* fetchNew: not cached, not to be used, or not wanted.
FetchNew(t) ==
  /\ t.pc = "look"
  /\ Forced(t) \/ \A e \in cache : MustFetch(t, e)
  /\ tasks' = (tasks \ {t}) \cup {[t EXCEPT !.pc = "ask"]}
  /\ UNCHANGED <<setting, version, old, row, left, cache, status, mode, faults>>

\* executeInQueue: the result that is left there, or a row to wait for.
ExecuteInQueue(t) ==
  /\ t.pc = "ask"
  /\ \/ /\ \E v \in left : tasks' = (tasks \ {t}) \cup {[t EXCEPT !.pc = "got", !.res = v]}
        /\ left' = {}
        /\ UNCHANGED row
     \/ /\ left = {}
        /\ row' = IF row = {} THEN {[pc |-> "queued", ver |-> 0]} ELSE row
        /\ tasks' = (tasks \ {t}) \cup {[t EXCEPT !.pc = "wait"]}
        /\ UNCHANGED left
  /\ UNCHANGED <<setting, version, old, cache, status, mode, faults>>

\* Mutant of Store: an error is cached like a result.
StoreErrors(t) ==
  /\ t.pc = "got"
  /\ cache' = {[ver |-> t.res, key |-> t.key, req |-> t.req, late |-> FALSE]}
  /\ tasks' = tasks \ {t}
  /\ Settle(t)
  /\ UNCHANGED <<setting, version, old, row, left, mode, faults>>

\* The result is cached; an error takes away whatever is cached.
Store(t) ==
  /\ t.pc = "got"
  /\ cache' = IF t.res = Failed THEN {}
              ELSE {[ver |-> t.res, key |-> t.key, req |-> t.req, late |-> FALSE]}
  /\ tasks' = tasks \ {t}
  /\ Settle(t)
  /\ UNCHANGED <<setting, version, old, row, left, mode, faults>>

-----------------------------------------------------------------------------
(* The queue, the data source, the cache                                    *)

\* The query reads the data at some moment of its run.
Execute ==
  /\ \E j \in row : j.pc = "queued"
  /\ row' = {[pc |-> "running", ver |-> version]}
  /\ UNCHANGED <<setting, version, old, left, cache, tasks, status, mode, faults>>

\* The outcome goes to all who wait for the row.  One who hears the event takes the
\* result with it, one who looked it up leaves it.
Finish(v) == LET heard == {t \in tasks : t.pc = "wait"} IN
  /\ row' = {}
  /\ tasks' = (tasks \ heard) \cup {[t EXCEPT !.pc = "got", !.res = v] : t \in heard}
  /\ \/ heard # {} /\ left' = {}
     \/ left' = {v}
  /\ UNCHANGED <<setting, version, old, cache, status, mode>>

Succeed == \E j \in row : j.pc = "running" /\ Finish(j.ver) /\ UNCHANGED faults
Fail == Fault /\ \E j \in row : j.pc = "running" /\ Finish(Failed)

\* Cancelled, orphaned, evicted or expired.
Lose ==
  /\ Fault
  /\ \/ row # {} /\ row' = {} /\ UNCHANGED <<left, cache>>
     \/ left # {} /\ left' = {} /\ UNCHANGED <<row, cache>>
     \/ cache # {} /\ cache' = {} /\ UNCHANGED <<row, left>>
  /\ UNCHANGED <<setting, version, old, tasks, status, mode>>

\* The entry is older than its renewalThreshold.
Age ==
  /\ \E e \in cache : ~e.late /\ cache' = {[e EXCEPT !.late = TRUE]}
  /\ UNCHANGED <<setting, version, old, row, left, tasks, status, mode, faults>>

\* So are the earlier values of the refresh key.
Forget ==
  /\ old # {} /\ old' = {}
  /\ UNCHANGED <<setting, version, row, left, cache, tasks, status, mode, faults>>

Change ==
  /\ version < MaxVersion \/ Recurs
  /\ version' = IF version < MaxVersion THEN version + 1 ELSE 0
  /\ old' = old \cup {version}
  /\ UNCHANGED <<setting, row, left, cache, tasks, status, mode, faults>>

Client(r) == Ask(r) \/ AskAgain(r)

TaskStep(t) ==
  \/ LoadRefreshKey(t)
  \/ UseEntry(t) \/ FetchNew(t) \/ ExecuteInQueue(t) \/ Store(t) \/ TaskTimesOut(t)

Next ==
  \/ \E r \in Request : Client(r)
  \/ \E t \in tasks : TaskStep(t) \/ CallTimesOut(t) \/ RefreshKeyFails(t) \/ RefreshKeyTimesOut(t)
  \/ Execute \/ Succeed \/ Fail \/ Lose \/ Age \/ Forget \/ Change

Spec == Init /\ [][Next]_vars

\* Clients ask and ask again, promises are settled, the queue runs what is in it,
\* and time passes.  Nothing is assumed of the data, of timeouts of calls, of faults.
Fairness ==
  /\ \A r \in Request : WF_vars(Client(r))
  /\ \A pc \in {"key", "look", "ask", "wait", "got"} :
       WF_vars(\E t \in tasks : t.pc = pc /\ TaskStep(t))
  /\ WF_vars(Execute) /\ WF_vars(Succeed) /\ WF_vars(Age) /\ WF_vars(Forget)

FairSpec == Spec /\ Fairness
-----------------------------------------------------------------------------
(* Properties *)

\* The shape of the state; a client's call is pending just when a task is its own.
QueryCacheTypeOK ==
  /\ version \in Version /\ old \subseteq Version
  /\ Cardinality(row) <= 1 /\ row \subseteq Row
  /\ Cardinality(left) <= 1 /\ left \subseteq Outcome
  /\ Cardinality(cache) <= 1 /\ cache \subseteq Entry
  /\ tasks \subseteq Task
  /\ status \in [Request -> {"idle", "asked", "again"}]
  /\ setting \in Settings /\ mode \in [Request -> setting.modes]
  /\ \A r \in Request :
       Cardinality({t \in tasks : t.kind = "own" /\ t.req = r}) = IF status[r] = "asked" THEN 1 ELSE 0

\* A request that may be answered from the cache ends, however long its query runs and
\* however often the refresh key changes: what one attempt began and another task took
\* out of the queue is found by the next.  Only tasks of other requests can keep it
\* waiting, and only as long as one after another they get results and put them in the
\* place of its own: the entry is shared, and under a key that has changed a request
\* takes no other's result.  A no-cache request looks at no entry.
Waits(r) == status[r] # "idle" /\ mode[r] # "no-cache"
OthersGetResults(r) == \E t \in tasks : t.req # r /\ t.pc = "got"
RequestsEnd == \A r \in Request : []<>~Waits(r) \/ []<>OthersGetResults(r)

\* Once the data no longer change, and as long as somebody asks, the cache has their
\* result at some time: an outdated entry that looks current lasts until its threshold.
EventuallyFresh == \A v \in Version :
  <>[](version = v) => []<>(\E e \in cache : e.ver = v)

\* A result is cached for a refresh key only if it was read after that value was:
\* as long as the key is the same, the result is taken for up to date.
EntryAsNewAsKey == \A e \in cache : e.key \in Version => e.ver >= e.key
=============================================================================
