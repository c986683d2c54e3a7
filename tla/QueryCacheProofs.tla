-------------------------- MODULE QueryCacheProofs --------------------------
(***************************************************************************)
(* Theorems about QueryCache, for any number of clients, versions, tasks   *)
(* and faults.                                                             *)
(***************************************************************************)
EXTENDS QueryCache, FiniteSetTheorems, TLAPS

-----------------------------------------------------------------------------
(* The inductive invariant.                                                *)

\* A task whose outcome is one that a query has.
Sound == {t \in Task : t.pc = "got" => t.res \in Outcome}

\* The tasks among T that the client r awaits.
Calls(T, r) == {t \in T : t.kind = "own" /\ t.req = r}

StateOK ==
  /\ version \in Version /\ old \in SUBSET Version
  /\ row \in SUBSET Row /\ left \in SUBSET Outcome /\ cache \in SUBSET Entry
  /\ tasks \in SUBSET Sound
  /\ status \in [Request -> {"idle", "asked", "again"}]
  /\ setting \in Settings /\ mode \in [Request -> setting.modes]

\* One row, one result left, one entry.
Single(S) == \A x, y \in S : x = y
OneOfEach == Single(row) /\ Single(left) /\ Single(cache)

\* A client that has asked awaits one task, the others none.
CallsFit == \A r \in Request :
  IF status[r] = "asked" THEN \E t : Calls(tasks, r) = {t} ELSE Calls(tasks, r) = {}

Inv == StateOK /\ OneOfEach /\ CallsFit

-----------------------------------------------------------------------------
(* What a step may do to the tasks.                                        *)

LEMMA KeyIs == 0 \in Version /\ Absent \in Key /\ Failed \in Key /\ Failed \in Outcome /\ Version \subseteq Outcome
               /\ Outcome \subseteq Key
  BY QueryCacheAssumption DEF Version, Key, Outcome, Absent, Failed

\* A task goes on, for the same request and awaited as before.
LEMMA TaskGoesOn ==
    ASSUME Inv, NEW t \in tasks, NEW u \in Sound, u.kind = t.kind, u.req = t.req,
           tasks' = (tasks \ {t}) \cup {u}, status' = status
    PROVE  tasks' \in SUBSET Sound /\ CallsFit'
  <1>1. tasks' \in SUBSET Sound
    BY DEF Inv, StateOK
  <1>2. ASSUME NEW r \in Request
        PROVE  IF status'[r] = "asked" THEN \E x : Calls(tasks', r) = {x} ELSE Calls(tasks', r) = {}
    <2>1. IF status[r] = "asked" THEN \E x : Calls(tasks, r) = {x} ELSE Calls(tasks, r) = {}
      BY DEF Inv, CallsFit
    <2>2. CASE t \in Calls(tasks, r)
      <3>1. Calls(tasks, r) = {t}
        BY <2>1, <2>2
      <3>2. Calls(tasks', r) = {u}
        BY <2>2, <3>1 DEF Calls
      <3> QED BY <2>1, <2>2, <3>2
    <2>3. CASE t \notin Calls(tasks, r)
      <3>1. Calls(tasks', r) = Calls(tasks, r)
        BY <2>3 DEF Calls
      <3> QED BY <2>1, <3>1
    <2> QED BY <2>2, <2>3
  <1> QED BY <1>1, <1>2 DEF CallsFit

\* A task ends, or goes on without being awaited; the client that awaited it is told.
LEMMA TaskIsLeft ==
    ASSUME Inv, NEW t \in tasks, NEW N \in SUBSET Sound, \A u \in N : u.kind # "own",
           NEW s \in {"idle", "again"}, tasks' = (tasks \ {t}) \cup N,
           status' = IF t.kind = "own" THEN [status EXCEPT ![t.req] = s] ELSE status
    PROVE  /\ tasks' \in SUBSET Sound /\ status' \in [Request -> {"idle", "asked", "again"}]
           /\ CallsFit'
  <1>1. tasks \in SUBSET Sound /\ status \in [Request -> {"idle", "asked", "again"}] /\ t.req \in Request
    BY DEF Inv, StateOK, Sound, Task
  <1>2. tasks' \in SUBSET Sound /\ status' \in [Request -> {"idle", "asked", "again"}]
    BY <1>1
  <1>3. ASSUME NEW r \in Request
        PROVE  IF status'[r] = "asked" THEN \E x : Calls(tasks', r) = {x} ELSE Calls(tasks', r) = {}
    <2>1. IF status[r] = "asked" THEN \E x : Calls(tasks, r) = {x} ELSE Calls(tasks, r) = {}
      BY DEF Inv, CallsFit
    <2>2. CASE t \in Calls(tasks, r)
      <3>1. Calls(tasks, r) = {t}
        BY <2>1, <2>2
      <3>2. Calls(tasks', r) = {}
        BY <3>1 DEF Calls
      <3>3. status'[r] # "asked"
        BY <1>1, <2>2 DEF Calls
      <3> QED BY <3>2, <3>3
    <2>3. CASE t \notin Calls(tasks, r)
      <3>1. Calls(tasks', r) = Calls(tasks, r)
        BY <2>3 DEF Calls
      <3>2. status'[r] = status[r]
        BY <1>1, <2>3 DEF Calls
      <3> QED BY <2>1, <3>1, <3>2
    <2> QED BY <2>2, <2>3
  <1> QED BY <1>2, <1>3 DEF CallsFit

\* A client asks that awaits nothing.
LEMMA CallBegins ==
    ASSUME Inv, NEW r \in Request, status[r] # "asked", NEW m,
           tasks' = tasks \cup Call(r, m), status' = [status EXCEPT ![r] = "asked"]
    PROVE  /\ tasks' \in SUBSET Sound /\ status' \in [Request -> {"idle", "asked", "again"}]
           /\ CallsFit'
  <1> DEFINE own == Begun("own", r, IF m = "stale-while-revalidate" THEN "look" ELSE "key")
             cycle == Begun("cycle", r, "key")
  <1>1. own \in Sound /\ cycle \in Sound
    BY KeyIs DEF Begun, Sound, Task, Kind
  <1>2. own.kind = "own" /\ own.req = r /\ cycle.kind # "own"
    BY DEF Begun
  <1>3. Call(r, m) \subseteq {own, cycle} /\ own \in Call(r, m)
    BY DEF Call
  <1> HIDE DEF own, cycle
  <1>4. tasks' \in SUBSET Sound /\ status' \in [Request -> {"idle", "asked", "again"}]
    BY <1>1, <1>3 DEF Inv, StateOK
  <1>5. ASSUME NEW q \in Request
        PROVE  IF status'[q] = "asked" THEN \E x : Calls(tasks', q) = {x} ELSE Calls(tasks', q) = {}
    <2>1. IF status[q] = "asked" THEN \E x : Calls(tasks, q) = {x} ELSE Calls(tasks, q) = {}
      BY DEF Inv, CallsFit
    <2>2. status' = [status EXCEPT ![r] = "asked"] /\ DOMAIN status = Request
      BY DEF Inv, StateOK
    <2>3. CASE q = r
      <3>1. Calls(tasks, q) = {}
        BY <2>1, <2>3
      <3>2. Calls(tasks', q) = {own}
        BY <1>2, <1>3, <2>3, <3>1 DEF Calls
      <3> QED BY <2>2, <2>3, <3>2
    <2>4. CASE q # r
      <3>1. Calls(tasks', q) = Calls(tasks, q)
        BY <1>2, <1>3, <2>4 DEF Calls
      <3> QED BY <2>1, <2>2, <2>4, <3>1
    <2> QED BY <2>3, <2>4
  <1> QED BY <1>4, <1>5 DEF CallsFit

\* All who wait for the row go on at once.
LEMMA WaitersGoOn ==
    ASSUME Inv, NEW v \in Outcome, NEW heard, heard = {t \in tasks : t.pc = "wait"},
           tasks' = (tasks \ heard) \cup {[t EXCEPT !.pc = "got", !.res = v] : t \in heard},
           status' = status
    PROVE  tasks' \in SUBSET Sound /\ CallsFit'
  <1> DEFINE On(t) == [t EXCEPT !.pc = "got", !.res = v]
  <1>1. \A t \in Sound : On(t) \in Sound /\ On(t).kind = t.kind /\ On(t).req = t.req
    BY KeyIs DEF Sound, Task
  <1>2. tasks' = (tasks \ heard) \cup {On(t) : t \in heard} /\ heard \subseteq tasks /\ tasks \in SUBSET Sound
    BY DEF Inv, StateOK
  <1> HIDE DEF On
  <1>3. \A y : y \in tasks' <=> (y \in tasks /\ y \notin heard) \/ \E t \in heard : y = On(t)
    BY <1>2
  <1>4. \A t \in heard : t \in Sound /\ On(t).kind = t.kind /\ On(t).req = t.req
    BY <1>1, <1>2
  <1>5. ASSUME NEW y \in tasks'
        PROVE  \E t \in tasks : y.kind = t.kind /\ y.req = t.req /\ y = IF t \in heard THEN On(t) ELSE t
    <2>1. CASE y \in tasks /\ y \notin heard
      BY <2>1
    <2>2. CASE \E t \in heard : y = On(t)
      <3>1. PICK t \in heard : y = On(t)
        BY <2>2
      <3>2. t \in tasks /\ On(t).kind = t.kind /\ On(t).req = t.req
        BY <1>4, <1>2
      <3> QED BY <3>1, <3>2
    <2> QED BY <1>3, <2>1, <2>2
  <1>6. tasks' \in SUBSET Sound
    BY <1>1, <1>2
  <1>7. ASSUME NEW r \in Request
        PROVE  IF status'[r] = "asked" THEN \E x : Calls(tasks', r) = {x} ELSE Calls(tasks', r) = {}
    <2>1. IF status[r] = "asked" THEN \E x : Calls(tasks, r) = {x} ELSE Calls(tasks, r) = {}
      BY DEF Inv, CallsFit
    <2>2. CASE Calls(tasks, r) = {}
      <3>1. Calls(tasks', r) = {}
        <4>1. \A t \in tasks : ~(t.kind = "own" /\ t.req = r)
          BY <2>2 DEF Calls
        <4>2. ASSUME NEW y \in tasks'
              PROVE  ~(y.kind = "own" /\ y.req = r)
          <5>1. PICK t \in tasks : y.kind = t.kind /\ y.req = t.req
            BY <1>5
          <5> QED BY <4>1, <5>1
        <4> QED BY <4>2 DEF Calls
      <3> QED BY <2>1, <2>2, <3>1
    <2>3. CASE Calls(tasks, r) # {}
      <3>1. PICK x : Calls(tasks, r) = {x}
        BY <2>1, <2>3
      <3>2. x \in tasks /\ x.kind = "own" /\ x.req = r
            /\ \A t \in tasks : t.kind = "own" /\ t.req = r => t = x
        BY <3>1 DEF Calls
      <3>3. CASE x \in heard
        <4>1. On(x) \in tasks' /\ On(x).kind = "own" /\ On(x).req = r
          BY <1>3, <1>4, <3>2, <3>3
        <4>2. ASSUME NEW y \in tasks', y.kind = "own", y.req = r
              PROVE  y = On(x)
          <5>1. PICK t \in tasks : y.kind = t.kind /\ y.req = t.req /\ y = IF t \in heard THEN On(t) ELSE t
            BY <1>5
          <5> QED BY <3>2, <3>3, <4>2, <5>1
        <4>3. Calls(tasks', r) = {On(x)}
          BY <4>1, <4>2 DEF Calls
        <4> QED BY <2>1, <2>3, <4>3
      <3>4. CASE x \notin heard
        <4>1. x \in tasks'
          BY <1>3, <3>2, <3>4
        <4>2. ASSUME NEW y \in tasks', y.kind = "own", y.req = r
              PROVE  y = x
          <5>1. PICK t \in tasks : y.kind = t.kind /\ y.req = t.req /\ y = IF t \in heard THEN On(t) ELSE t
            BY <1>5
          <5> QED BY <3>2, <3>4, <4>2, <5>1
        <4>3. Calls(tasks', r) = {x}
          BY <3>2, <4>1, <4>2 DEF Calls
        <4> QED BY <2>1, <2>3, <4>3
      <3> QED BY <3>3, <3>4
    <2> QED BY <2>2, <2>3
  <1> QED BY <1>6, <1>7 DEF CallsFit

LEMMA TasksRest ==
    ASSUME Inv, UNCHANGED <<tasks, status>>
    PROVE  /\ tasks' \in SUBSET Sound /\ status' \in [Request -> {"idle", "asked", "again"}]
           /\ CallsFit'
  BY DEF Inv, StateOK, CallsFit

-----------------------------------------------------------------------------
(* The steps.                                                              *)

LEMMA InitInv == ASSUME Init PROVE Inv
  <1>1. StateOK
    <2>1. setting.modes # {}
      <3>1. setting \in [clients : SUBSET Request, modes : (SUBSET Modes) \ {{}}, tasks : Nat, faults : Nat]
        BY QueryCacheAssumption DEF Init
      <3> QED BY <3>1
    <2>2. (CHOOSE m \in setting.modes : TRUE) \in setting.modes
      BY <2>1
    <2>3. mode \in [Request -> setting.modes]
      BY <2>2 DEF Init
    <2> QED BY <2>3, KeyIs DEF Init, StateOK
  <1>2. OneOfEach /\ CallsFit
    BY DEF Init, OneOfEach, Single, CallsFit, Calls
  <1> QED BY <1>1, <1>2 DEF Inv

\* What is left of Inv when the tasks and the client are done with.
Rest ==
  /\ version' \in Version /\ old' \in SUBSET Version
  /\ row' \in SUBSET Row /\ left' \in SUBSET Outcome /\ cache' \in SUBSET Entry
  /\ setting' \in Settings /\ mode' \in [Request -> setting'.modes]
  /\ Single(row') /\ Single(left') /\ Single(cache')

LEMMA InvFrom ==
    ASSUME Rest, tasks' \in SUBSET Sound, status' \in [Request -> {"idle", "asked", "again"}], CallsFit'
    PROVE  Inv'
  BY DEF Rest, Inv, StateOK, OneOfEach, Single

LEMMA RestRests ==
    ASSUME Inv, UNCHANGED <<setting, version, old, row, left, cache, mode>>
    PROVE  Rest
  BY DEF Rest, Inv, StateOK, OneOfEach

LEMMA ClientStep ==
    ASSUME Inv, NEW r \in Request, Client(r)
    PROVE  Inv'
  <1>1. CASE Ask(r)
    <2>1. PICK m \in setting.modes : mode' = [mode EXCEPT ![r] = m] /\ tasks' = tasks \cup Call(r, m)
      BY <1>1 DEF Ask
    <2> DEFINE Cut(e) == IF e.req = r THEN [e EXCEPT !.req = Nobody] ELSE e
    <2>2. cache' = {Cut(e) : e \in cache} /\ cache \in SUBSET Entry /\ Single(cache)
      BY <1>1 DEF Ask, Inv, StateOK, OneOfEach
    <2>3. \A e \in Entry : Cut(e) \in Entry
      BY DEF Entry
    <2> HIDE DEF Cut
    <2>4. cache' \in SUBSET Entry /\ Single(cache')
      BY <2>2, <2>3 DEF Single
    <2>5. mode' \in [Request -> setting.modes] /\ UNCHANGED <<setting, version, old, row, left>>
      BY <1>1, <2>1 DEF Ask, Inv, StateOK
    <2>6. Rest
      BY <2>4, <2>5 DEF Rest, Inv, StateOK, OneOfEach
    <2> QED BY <1>1, <2>1, <2>6, CallBegins, InvFrom DEF Ask
  <1>2. CASE AskAgain(r)
    <2>1. Rest
      BY <1>2, RestRests DEF AskAgain
    <2> QED BY <1>2, <2>1, CallBegins, InvFrom DEF AskAgain
  <1> QED BY <1>1, <1>2 DEF Client

\* The client of t is told to come back, or gets what is cached.
LEMMA ContinueWaitTells ==
    ASSUME NEW t, t.kind = "own" => ContinueWait(t.req), t.kind # "own" => UNCHANGED status
    PROVE  \E s \in {"idle", "again"} :
             status' = IF t.kind = "own" THEN [status EXCEPT ![t.req] = s] ELSE status
  BY DEF ContinueWait

LEMMA TimeoutStep ==
    ASSUME Inv, NEW t \in tasks, CallTimesOut(t) \/ TaskTimesOut(t) \/ RefreshKeyTimesOut(t)
    PROVE  Inv'
  <1>1. t \in Sound
    BY DEF Inv, StateOK
  <1>2. Rest
    BY RestRests DEF CallTimesOut, TaskTimesOut, RefreshKeyTimesOut
  <1>3. PICK s \in {"idle", "again"} :
          status' = IF t.kind = "own" THEN [status EXCEPT ![t.req] = s] ELSE status
    BY ContinueWaitTells DEF CallTimesOut, TaskTimesOut, RefreshKeyTimesOut
  <1>4. CASE CallTimesOut(t)
    <2> DEFINE u == [t EXCEPT !.kind = "orphan"]
    <2>1. u \in Sound /\ u.kind # "own"
      BY <1>1 DEF Sound, Task, Kind
    <2>2. tasks' = (tasks \ {t}) \cup {u}
      BY <1>4 DEF CallTimesOut
    <2> HIDE DEF u
    <2>3. {u} \in SUBSET Sound /\ \A x \in {u} : x.kind # "own"
      BY <2>1
    <2> QED BY <1>2, <1>3, <2>2, <2>3, TaskIsLeft, InvFrom
  <1>5. CASE TaskTimesOut(t) \/ RefreshKeyTimesOut(t)
    <2>1. tasks' = (tasks \ {t}) \cup {}
      BY <1>5 DEF Sound, TaskTimesOut, RefreshKeyTimesOut
    <2> QED BY <1>2, <1>3, <2>1, TaskIsLeft, InvFrom
  <1> QED BY <1>4, <1>5

LEMMA RefreshKeyStep ==
    ASSUME Inv, NEW t \in tasks, LoadRefreshKey(t) \/ RefreshKeyFails(t)
    PROVE  Inv'
  <1>1. t \in Sound
    BY DEF Inv, StateOK
  <1>2. Rest
    BY RestRests DEF LoadRefreshKey, RefreshKeyFails
  <1>3. PICK k \in Key : tasks' = (tasks \ {t}) \cup {[t EXCEPT !.pc = "look", !.key = k]}
    BY KeyIs DEF LoadRefreshKey, RefreshKeyFails, Inv, StateOK
  <1> DEFINE u == [t EXCEPT !.pc = "look", !.key = k]
  <1>4. u \in Sound /\ u.kind = t.kind /\ u.req = t.req
    BY <1>1 DEF Sound, Task
  <1>5. tasks' = (tasks \ {t}) \cup {u} /\ status' = status
    BY <1>3 DEF LoadRefreshKey, RefreshKeyFails
  <1> HIDE DEF u
  <1>6. tasks' \in SUBSET Sound /\ CallsFit'
    BY <1>4, <1>5, TaskGoesOn
  <1> QED BY <1>2, <1>5, <1>6, InvFrom DEF Inv, StateOK

LEMMA UseEntryStep ==
    ASSUME Inv, NEW t \in tasks, UseEntry(t)
    PROVE  Inv'
  <1>1. t \in Sound
    BY DEF Inv, StateOK
  <1>2. Rest
    BY RestRests DEF UseEntry
  <1> DEFINE u == [t EXCEPT !.kind = "background", !.pc = "ask"]
  <1>3. u \in Sound /\ u.kind # "own"
    BY <1>1 DEF Sound, Task, Kind
  <1>4. \E N \in {{}, {u}} : tasks' = (tasks \ {t}) \cup N
    BY DEF UseEntry
  <1> HIDE DEF u
  <1>5. PICK N \in SUBSET Sound : (\A x \in N : x.kind # "own") /\ tasks' = (tasks \ {t}) \cup N
    BY <1>3, <1>4
  <1>6. status' = IF t.kind = "own" THEN [status EXCEPT ![t.req] = "idle"] ELSE status
    BY DEF UseEntry, Settle
  <1> QED BY <1>2, <1>5, <1>6, TaskIsLeft, InvFrom

LEMMA QueueStep ==
    ASSUME Inv, NEW t \in tasks, FetchNew(t) \/ ExecuteInQueue(t)
    PROVE  Inv'
  <1>1. t \in Sound
    BY DEF Inv, StateOK
  <1>2. Rest
    <2>1. CASE FetchNew(t)
      BY <2>1, RestRests DEF FetchNew
    <2>2. CASE ExecuteInQueue(t)
      <3>1. [pc |-> "queued", ver |-> 0] \in Row
        BY KeyIs DEF Row
      <3>2. row' \in SUBSET Row /\ Single(row') /\ left' \in SUBSET Outcome /\ Single(left')
        BY <2>2, <3>1 DEF ExecuteInQueue, Inv, StateOK, OneOfEach, Single
      <3> QED BY <2>2, <3>2 DEF ExecuteInQueue, Rest, Inv, StateOK, OneOfEach
    <2> QED BY <2>1, <2>2
  <1>3. PICK u \in Sound : u.kind = t.kind /\ u.req = t.req /\ tasks' = (tasks \ {t}) \cup {u}
    <2>1. CASE FetchNew(t)
      <3>1. [t EXCEPT !.pc = "ask"] \in Sound
        BY <1>1 DEF Sound, Task
      <3> QED BY <1>1, <2>1, <3>1 DEF FetchNew, Sound, Task
    <2>2. CASE ExecuteInQueue(t) /\ left = {}
      <3>1. [t EXCEPT !.pc = "wait"] \in Sound
        BY <1>1 DEF Sound, Task
      <3> QED BY <1>1, <2>2, <3>1 DEF ExecuteInQueue, Sound, Task
    <2>3. CASE ExecuteInQueue(t) /\ left # {}
      <3>1. PICK v \in Outcome : tasks' = (tasks \ {t}) \cup {[t EXCEPT !.pc = "got", !.res = v]}
        BY <2>3, KeyIs DEF ExecuteInQueue, Inv, StateOK
      <3>2. [t EXCEPT !.pc = "got", !.res = v] \in Sound
        BY <1>1, KeyIs DEF Sound, Task
      <3> QED BY <1>1, <3>1, <3>2 DEF Sound, Task
    <2> QED BY <2>1, <2>2, <2>3
  <1>4. status' = status
    BY DEF FetchNew, ExecuteInQueue
  <1>5. tasks' \in SUBSET Sound /\ CallsFit'
    BY <1>3, <1>4, TaskGoesOn
  <1> QED BY <1>2, <1>4, <1>5, InvFrom DEF Inv, StateOK

LEMMA StoreStep ==
    ASSUME Inv, NEW t \in tasks, Store(t)
    PROVE  Inv'
  <1>1. t \in Sound /\ t.pc = "got"
    BY DEF Store, Inv, StateOK
  <1> DEFINE e == [ver |-> t.res, key |-> t.key, req |-> t.req, late |-> FALSE]
  <1>2. cache' = IF t.res = Failed THEN {} ELSE {e}
    BY DEF Store
  <1>3. t.res # Failed => e \in Entry
    BY <1>1 DEF Sound, Task, Entry, Outcome
  <1> HIDE DEF e
  <1>4. cache' \in SUBSET Entry /\ Single(cache')
    BY <1>2, <1>3 DEF Single
  <1>5. Rest
    BY <1>4 DEF Store, Rest, Inv, StateOK, OneOfEach
  <1>6. /\ tasks' = (tasks \ {t}) \cup {}
        /\ status' = IF t.kind = "own" THEN [status EXCEPT ![t.req] = "idle"] ELSE status
    BY DEF Store, Settle
  <1> QED BY <1>5, <1>6, TaskIsLeft, InvFrom

LEMMA FinishStep ==
    ASSUME Inv, NEW v \in Outcome, Finish(v)
    PROVE  Inv'
  <1> DEFINE heard == {t \in tasks : t.pc = "wait"}
  <1>1. Rest
    BY DEF Finish, Rest, Inv, StateOK, OneOfEach, Single
  <1>2. /\ tasks' = (tasks \ heard) \cup {[t EXCEPT !.pc = "got", !.res = v] : t \in heard}
        /\ status' = status
    BY DEF Finish
  <1>3. tasks' \in SUBSET Sound /\ CallsFit'
    BY <1>2, WaitersGoOn
  <1> QED BY <1>1, <1>2, <1>3, InvFrom DEF Inv, StateOK

\* The steps of the queue, of time and of the data that leave tasks alone.
LEMMA SurroundingsStep ==
    ASSUME Inv, Execute \/ Lose \/ Age \/ Forget \/ Change
    PROVE  Inv'
  <1>1. UNCHANGED <<tasks, status>>
    BY DEF Execute, Lose, Age, Forget, Change
  <1>2. Rest
    <2>1. CASE Execute
      <3>1. row' = {[pc |-> "running", ver |-> version]} /\ [pc |-> "running", ver |-> version] \in Row
        BY <2>1 DEF Execute, Row, Inv, StateOK
      <3>2. row' \in SUBSET Row /\ Single(row')
        BY <3>1 DEF Single
      <3> QED BY <2>1, <3>2 DEF Execute, Rest, Inv, StateOK, OneOfEach
    <2>2. CASE Lose
      BY <2>2 DEF Lose, Rest, Inv, StateOK, OneOfEach, Single
    <2>3. CASE Age
      <3>1. PICK e \in cache : cache' = {[e EXCEPT !.late = TRUE]}
        BY <2>3 DEF Age
      <3>2. [e EXCEPT !.late = TRUE] \in Entry
        BY DEF Inv, StateOK, Entry
      <3>3. cache' \in SUBSET Entry /\ Single(cache')
        BY <3>1, <3>2 DEF Single
      <3> QED BY <2>3, <3>3 DEF Age, Rest, Inv, StateOK, OneOfEach
    <2>4. CASE Forget
      BY <2>4 DEF Forget, Rest, Inv, StateOK, OneOfEach
    <2>5. CASE Change
      <3>1. version' \in Version
        BY <2>5, QueryCacheAssumption DEF Change, Version, Inv, StateOK
      <3> QED BY <2>5, <3>1 DEF Change, Rest, Inv, StateOK, OneOfEach
    <2> QED BY <2>1, <2>2, <2>3, <2>4, <2>5
  <1> QED BY <1>1, <1>2, TasksRest, InvFrom

LEMMA NextInv == ASSUME Inv, [Next]_vars PROVE Inv'
  <1>1. ASSUME NEW r \in Request, Client(r)
        PROVE  Inv'
    BY <1>1, ClientStep
  <1>2. ASSUME NEW t \in tasks,
               TaskStep(t) \/ CallTimesOut(t) \/ RefreshKeyFails(t) \/ RefreshKeyTimesOut(t)
        PROVE  Inv'
    BY <1>2, TimeoutStep, RefreshKeyStep, UseEntryStep, QueueStep, StoreStep DEF TaskStep
  <1>3. CASE Succeed
    <2>1. PICK j \in row : Finish(j.ver)
      BY <1>3 DEF Succeed
    <2>2. j.ver \in Outcome
      BY DEF Inv, StateOK, Row, Outcome
    <2> QED BY <2>1, <2>2, FinishStep
  <1>4. CASE Fail
    BY <1>4, KeyIs, FinishStep DEF Fail
  <1>5. CASE Execute \/ Lose \/ Age \/ Forget \/ Change
    BY <1>5, SurroundingsStep
  <1>6. CASE UNCHANGED vars
    BY <1>6, RestRests, TasksRest, InvFrom DEF vars
  <1> QED BY <1>1, <1>2, <1>3, <1>4, <1>5, <1>6 DEF Next

\* Every reachable state satisfies the inductive invariant: a client that has asked is
\* awaited by one task, and what a task got is an outcome.
THEOREM CacheInvariant == Spec => []Inv
  <1>1. Init => Inv
    BY InitInv
  <1>2. Inv /\ [Next]_vars => Inv'
    BY NextInv
  <1> QED BY <1>1, <1>2, PTL DEF Spec

LEMMA AtMostOne == ASSUME NEW S, Single(S) PROVE Cardinality(S) <= 1
  <1>1. CASE S = {}
    BY <1>1, FS_EmptySet
  <1>2. CASE S # {}
    <2>1. PICK x \in S : TRUE
      BY <1>2
    <2>2. S = {x}
      BY <2>1 DEF Single
    <2>3. Cardinality(S) = 1
      BY <2>2, FS_Singleton
    <2> QED BY <2>3
  <1> QED BY <1>1, <1>2

\* A call of a client is pending just when one task is its own, however its tasks time
\* out, are taken over by the background or fail: a client is never left without an
\* answer, nor given two (cachedQueryResult and renewQuery, QueryCache.ts).
THEOREM CacheTypeCorrect == Spec => []QueryCacheTypeOK
  <1>1. Inv => QueryCacheTypeOK
    <2> SUFFICES ASSUME Inv PROVE QueryCacheTypeOK
      OBVIOUS
    <2>1. Cardinality(row) <= 1 /\ Cardinality(left) <= 1 /\ Cardinality(cache) <= 1
      BY AtMostOne DEF Inv, OneOfEach
    <2>2. ASSUME NEW r \in Request
          PROVE  Cardinality({t \in tasks : t.kind = "own" /\ t.req = r})
                   = IF status[r] = "asked" THEN 1 ELSE 0
      <3>1. Cardinality(Calls(tasks, r)) = IF status[r] = "asked" THEN 1 ELSE 0
        <4>1. CASE status[r] = "asked"
          <5>1. PICK t : Calls(tasks, r) = {t}
            BY <4>1 DEF Inv, CallsFit
          <5> QED BY <4>1, <5>1, FS_Singleton
        <4>2. CASE status[r] # "asked"
          BY <4>2, FS_EmptySet DEF Inv, CallsFit
        <4> QED BY <4>1, <4>2
      <3> QED BY <3>1 DEF Calls
    <2>3. tasks \subseteq Task
      BY DEF Inv, StateOK, Sound
    <2> QED BY <2>1, <2>2, <2>3 DEF QueryCacheTypeOK, Inv, StateOK
  <1> QED BY <1>1, CacheInvariant, PTL
=============================================================================
