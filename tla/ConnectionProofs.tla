-------------------------- MODULE ConnectionProofs --------------------------
(***************************************************************************)
(* Theorems about Connection, for any number of messages, sockets and      *)
(* failures.  First what the server promises whatever the client does,     *)
(* then the invariant of both and what the client relies on.               *)
(***************************************************************************)
EXTENDS Connection, FiniteSetTheorems, WellFoundedInduction, TLAPS

-----------------------------------------------------------------------------
(* The server.                                                             *)

RunRecord == [step : {"none", "runs", "sends", "sent", "ended"}, senders : SUBSET Socket]
Entry == [state : {"none", "processing", "complete"}, senders : SUBSET Socket, result : Run \cup {0}]

ServerType ==
    /\ run \in [Message -> [Run -> RunRecord]]
    /\ messages \in [Message -> Entry]

\* A message that runs is known as such.
RunsKnown == \A m \in Message, n \in Run :
    run[m][n].step = "runs" => messages[m].state = "processing"

RunsOnce == \A m \in Message, n, k \in Run :
    run[m][n].step = "runs" /\ run[m][k].step = "runs" => n = k

\* A result that is being handed over is the one that is kept.
KeptIsSent == \A m \in Message, n \in Run :
    /\ run[m][n].step \in {"sends", "sent"} /\ messages[m].state = "complete" => messages[m].result = n
    /\ run[m][n].step = "sent" => <<m, n>> \in spent

\* The result of a run is used up, unless it is still to come or kept.
SpentUnlessKept == \A m \in Message, n \in Run :
    run[m][n].step # "none" =>
      \/ <<m, n>> \in spent
      \/ run[m][n].step = "runs"
      \/ messages[m].state = "complete" /\ messages[m].result = n

ServerInv == ServerType /\ RunsKnown /\ RunsOnce /\ KeptIsSent /\ SpentUnlessKept

\* Steps that do not touch the tables of the server.
LEMMA ServerRests ==
    ASSUME ServerInv, UNCHANGED <<messages, run, spent>>
    PROVE  ServerInv'
  BY DEF ServerInv, ServerType, RunsKnown, RunsOnce, KeptIsSent, SpentUnlessKept

\* A message begins to run when nothing of it runs.
LEMMA BeginOf ==
    ASSUME ServerInv, NEW m \in Message, messages[m].state = "none"
    PROVE  /\ Begin(m) \in [Message -> [Run -> RunRecord]]
           /\ \A n \in Run : run[m][n].step # "runs"
           /\ \A k \in Message \ {m}, n \in Run : Begin(m)[k][n] = run[k][n]
           /\ \E i : \A n \in Run : IF n = i THEN Begin(m)[m][n].step = "runs"
                                             ELSE Begin(m)[m][n] = run[m][n]
  <1> DEFINE i == Cardinality(Runs(m)) + 1
  <1>1. run \in [Message -> [Run -> RunRecord]]
    BY DEF ServerInv, ServerType
  <1>2. Begin(m) = [run EXCEPT ![m][i].step = "runs"]
    BY DEF Begin
  <1> HIDE DEF i
  <1>3. \A n \in Run : run[m][n].step # "runs"
    BY DEF ServerInv, RunsKnown
  <1>4. Begin(m) = [run EXCEPT ![m] = [run[m] EXCEPT ![i] = [run[m][i] EXCEPT !.step = "runs"]]]
    BY <1>2
  <1>5. run[m] \in [Run -> RunRecord]
    BY <1>1
  <1>6. i \in Run => [run[m][i] EXCEPT !.step = "runs"] \in RunRecord
    BY <1>5 DEF RunRecord
  <1>7. [run[m] EXCEPT ![i] = [run[m][i] EXCEPT !.step = "runs"]] \in [Run -> RunRecord]
    BY <1>5, <1>6
  <1>8. Begin(m) \in [Message -> [Run -> RunRecord]]
    BY <1>1, <1>4, <1>7
  <1>9. \A k \in Message \ {m}, n \in Run : Begin(m)[k][n] = run[k][n]
    BY <1>1, <1>4
  <1>10. \A n \in Run : IF n = i THEN Begin(m)[m][n].step = "runs" ELSE Begin(m)[m][n] = run[m][n]
    <2> SUFFICES ASSUME NEW n \in Run
                 PROVE  IF n = i THEN Begin(m)[m][n].step = "runs" ELSE Begin(m)[m][n] = run[m][n]
      OBVIOUS
    <2>1. Begin(m)[m] = [run[m] EXCEPT ![i] = [run[m][i] EXCEPT !.step = "runs"]]
      BY <1>1, <1>4
    <2>2. CASE n = i
      <3>1. Begin(m)[m][n] = [run[m][n] EXCEPT !.step = "runs"]
        BY <1>5, <2>1, <2>2
      <3>2. run[m][n] \in RunRecord
        BY <1>5
      <3> QED BY <2>2, <3>1, <3>2 DEF RunRecord
    <2>3. CASE n # i
      BY <1>5, <2>1, <2>3
    <2> QED BY <2>2, <2>3
  <1> QED BY <1>3, <1>8, <1>9, <1>10

LEMMA ServerReceives ==
    ASSUME ServerInv, NEW s \in Socket, NEW m \in Message, Receive(s, m)
    PROVE  ServerInv'
  <1>1. Received(s, m)
    BY DEF Receive
  <1>2. /\ run \in [Message -> [Run -> RunRecord]] /\ messages \in [Message -> Entry]
    BY DEF ServerInv, ServerType
  <1>3. CASE messages[m].state = "none"
    <2> DEFINE e == [Unknown EXCEPT !.state = "processing", !.senders = {s}]
    <2>1. messages' = [messages EXCEPT ![m] = e] /\ run' = Begin(m) /\ UNCHANGED spent
      BY <1>1, <1>3 DEF Received
    <2>2. e \in Entry /\ e.state = "processing"
      BY DEF Unknown, Entry
    <2> HIDE DEF e
    <2>3. /\ messages' \in [Message -> Entry] /\ messages'[m] = e
          /\ \A k \in Message \ {m} : messages'[k] = messages[k]
      BY <1>2, <2>1, <2>2
    <2>4. PICK i : \A n \in Run : IF n = i THEN run'[m][n].step = "runs" ELSE run'[m][n] = run[m][n]
      <3>1. \E i : \A n \in Run : IF n = i THEN Begin(m)[m][n].step = "runs"
                                           ELSE Begin(m)[m][n] = run[m][n]
        BY <1>3, BeginOf
      <3> QED BY <2>1, <3>1
    <2>5. /\ run' \in [Message -> [Run -> RunRecord]]
          /\ \A k \in Message \ {m}, n \in Run : run'[k][n] = run[k][n]
          /\ \A n \in Run : run[m][n].step # "runs"
      BY <1>3, <2>1, BeginOf
    <2>6. ServerType'
      BY <1>1, <2>3, <2>5 DEF ServerType
    <2>7. RunsKnown'
      BY <2>2, <2>3, <2>5 DEF ServerInv, RunsKnown
    <2>8. RunsOnce'
      BY <2>4, <2>5 DEF ServerInv, RunsOnce
    <2>9. KeptIsSent'
      <3> SUFFICES ASSUME NEW k \in Message, NEW n \in Run
                   PROVE  /\ run'[k][n].step \in {"sends", "sent"} /\ messages'[k].state = "complete"
                               => messages'[k].result = n
                          /\ run'[k][n].step = "sent" => <<k, n>> \in spent'
        BY DEF KeptIsSent
      <3>1. CASE k = m
        BY <2>1, <2>2, <2>3, <2>4, <3>1 DEF ServerInv, KeptIsSent
      <3>2. CASE k # m
        BY <2>1, <2>3, <2>5, <3>2 DEF ServerInv, KeptIsSent
      <3> QED BY <3>1, <3>2
    <2>10. SpentUnlessKept'
      BY <1>3, <2>1, <2>3, <2>4, <2>5 DEF ServerInv, SpentUnlessKept
    <2> QED BY <2>6, <2>7, <2>8, <2>9, <2>10 DEF ServerInv
  <1>4. CASE messages[m].state = "processing"
    <2>1. messages' = [messages EXCEPT ![m].senders = @ \cup {s}] /\ UNCHANGED <<run, spent>>
      BY <1>1, <1>4 DEF Received
    <2>2. messages' \in [Message -> Entry]
      BY <1>2, <2>1 DEF Entry
    <2>3. \A k \in Message : /\ messages'[k].state = messages[k].state
                             /\ messages'[k].result = messages[k].result
      BY <1>2, <2>1 DEF Entry
    <2> QED BY <1>1, <2>1, <2>2, <2>3
            DEF ServerInv, ServerType, RunsKnown, RunsOnce, KeptIsSent, SpentUnlessKept
  <1>5. CASE messages[m].state = "complete" /\ s \in up
    <2>1. /\ messages' = [messages EXCEPT ![m] = Unknown] /\ UNCHANGED run
          /\ spent' = spent \cup {<<m, messages[m].result>>}
      BY <1>1, <1>5 DEF Received
    <2>2. Unknown \in Entry /\ Unknown.state = "none"
      BY DEF Unknown, Entry
    <2>3. /\ messages' \in [Message -> Entry] /\ messages'[m] = Unknown
          /\ \A k \in Message \ {m} : messages'[k] = messages[k]
      BY <1>2, <2>1, <2>2
    <2>4. ServerType' /\ RunsOnce'
      BY <1>1, <2>1, <2>3 DEF ServerInv, ServerType, RunsOnce
    <2>5. RunsKnown'
      BY <1>5, <2>1, <2>3 DEF ServerInv, RunsKnown
    <2>6. KeptIsSent'
      BY <2>1, <2>2, <2>3 DEF ServerInv, KeptIsSent
    <2>7. SpentUnlessKept'
      BY <2>1, <2>3 DEF ServerInv, SpentUnlessKept
    <2> QED BY <2>4, <2>5, <2>6, <2>7 DEF ServerInv
  <1>6. CASE messages[m].state = "complete" /\ s \notin up
    <2>1. UNCHANGED <<messages, run, spent>>
      BY <1>1, <1>6 DEF Received
    <2> QED BY <1>1, <2>1, ServerRests
  <1> QED BY <1>1, <1>3, <1>4, <1>5, <1>6 DEF Received

\* A run of m goes on to a step other than running, and m gets an entry.
LEMMA ServerMoves ==
    ASSUME ServerInv, NEW m \in Message, NEW n \in Run, NEW r \in RunRecord, NEW e \in Entry,
           run' = [run EXCEPT ![m][n] = r], messages' = [messages EXCEPT ![m] = e],
           spent \subseteq spent', r.step \notin {"none", "runs"},
           \A k \in Run \ {n} : run[m][k].step = "runs" => e.state = "processing",
           \A k \in Run \ {n} :
             run[m][k].step \in {"sends", "sent"} /\ e.state = "complete" => e.result = k,
           \A k \in Run \ {n} :
             run[m][k].step # "none" => \/ <<m, k>> \in spent' \/ run[m][k].step = "runs"
                                        \/ e.state = "complete" /\ e.result = k,
           r.step \in {"sends", "sent"} /\ e.state = "complete" => e.result = n,
           r.step = "sent" => <<m, n>> \in spent',
           <<m, n>> \in spent' \/ (e.state = "complete" /\ e.result = n)
    PROVE  ServerInv'
  <1>1. run \in [Message -> [Run -> RunRecord]] /\ messages \in [Message -> Entry]
    BY DEF ServerInv, ServerType
  <1>2. run[m] \in [Run -> RunRecord] /\ run' = [run EXCEPT ![m] = [run[m] EXCEPT ![n] = r]]
    BY <1>1
  <1>3. /\ run' \in [Message -> [Run -> RunRecord]] /\ messages' \in [Message -> Entry]
    BY <1>1, <1>2
  <1>4. /\ \A k \in Message \ {m} : run'[k] = run[k] /\ messages'[k] = messages[k]
        /\ run'[m][n] = r /\ \A k \in Run \ {n} : run'[m][k] = run[m][k]
        /\ messages'[m] = e
    BY <1>1, <1>2
  <1>5. ServerType'
    BY <1>3 DEF ServerInv, ServerType
  <1>6. RunsKnown'
    <2> SUFFICES ASSUME NEW k \in Message, NEW i \in Run, run'[k][i].step = "runs"
                 PROVE  messages'[k].state = "processing"
      BY DEF RunsKnown
    <2> QED BY <1>4 DEF ServerInv, RunsKnown
  <1>7. RunsOnce'
    BY <1>4 DEF ServerInv, RunsOnce
  <1>8. KeptIsSent'
    <2> SUFFICES ASSUME NEW k \in Message, NEW i \in Run
                 PROVE  /\ run'[k][i].step \in {"sends", "sent"} /\ messages'[k].state = "complete"
                             => messages'[k].result = i
                        /\ run'[k][i].step = "sent" => <<k, i>> \in spent'
      BY DEF KeptIsSent
    <2>1. CASE k = m /\ i = n
      BY <1>4, <2>1
    <2>2. CASE ~ (k = m /\ i = n)
      BY <1>4, <2>2 DEF ServerInv, KeptIsSent
    <2> QED BY <2>1, <2>2
  <1>9. SpentUnlessKept'
    <2> SUFFICES ASSUME NEW k \in Message, NEW i \in Run, run'[k][i].step # "none"
                 PROVE  \/ <<k, i>> \in spent'
                        \/ run'[k][i].step = "runs"
                        \/ messages'[k].state = "complete" /\ messages'[k].result = i
      BY DEF SpentUnlessKept
    <2>1. CASE k = m /\ i = n
      BY <1>4, <2>1
    <2>2. CASE ~ (k = m /\ i = n)
      BY <1>4, <2>2 DEF ServerInv, SpentUnlessKept
    <2> QED BY <2>1, <2>2
  <1> QED BY <1>5, <1>6, <1>7, <1>8, <1>9 DEF ServerInv

LEMMA ServerCompletes ==
    ASSUME ServerInv, NEW m \in Message, NEW n \in Run, Complete(m, n)
    PROVE  ServerInv'
  <1> DEFINE r == [step |-> "sends", senders |-> messages[m].senders]
             e == [state |-> "complete", senders |-> {}, result |-> n]
  <1>1. run[m][n].step = "runs" /\ HandedOver(m) /\ UNCHANGED spent
    BY DEF Complete, client
  <1>2. messages[m].state = "processing" /\ DOMAIN messages = Message
    BY <1>1 DEF ServerInv, RunsKnown, ServerType
  <1>3. run' = [run EXCEPT ![m][n] = r] /\ messages' = [messages EXCEPT ![m] = e]
    BY <1>2 DEF Complete
  <1>4. r \in RunRecord /\ e \in Entry /\ r.step = "sends" /\ e.state = "complete" /\ e.result = n
    BY DEF ServerInv, ServerType, RunRecord, Entry
  <1> HIDE DEF r, e
  <1>5. \A k \in Run \ {n} :
          /\ run[m][k].step # "runs"
          /\ run[m][k].step \notin {"sends", "sent"}
          /\ run[m][k].step # "none" => <<m, k>> \in spent
    BY <1>1, <1>2 DEF ServerInv, RunsOnce, SpentUnlessKept, HandedOver
  <1> QED BY <1>1, <1>3, <1>4, <1>5, ServerMoves

LEMMA ServerSends ==
    ASSUME ServerInv, NEW m \in Message, NEW n \in Run, SendResult(m, n)
    PROVE  ServerInv'
  <1> DEFINE to == run[m][n].senders \cap up
             r == [step |-> IF to = {} THEN "ended" ELSE "sent", senders |-> {}]
  <1>1. /\ run[m][n].step = "sends" /\ run' = [run EXCEPT ![m][n] = r]
        /\ spent' = IF to = {} THEN spent ELSE spent \cup {<<m, n>>}
        /\ UNCHANGED messages
    BY DEF SendResult, client
  <1>2. r \in RunRecord /\ r.step \in {"ended", "sent"} /\ (r.step = "sent" => <<m, n>> \in spent')
        /\ spent \subseteq spent'
    BY <1>1 DEF RunRecord
  <1> HIDE DEF r, to
  <1>3. messages[m] \in Entry /\ messages' = [messages EXCEPT ![m] = messages[m]]
    BY <1>1 DEF ServerInv, ServerType
  <1>4. \A k \in Run \ {n} : run[m][k].step = "runs" => messages[m].state = "processing"
    BY DEF ServerInv, RunsKnown
  <1>5. \A k \in Run \ {n} :
          run[m][k].step \in {"sends", "sent"} /\ messages[m].state = "complete"
            => messages[m].result = k
    BY DEF ServerInv, KeptIsSent
  <1>6. \A k \in Run \ {n} : run[m][k].step # "none" =>
          \/ <<m, k>> \in spent' \/ run[m][k].step = "runs"
          \/ messages[m].state = "complete" /\ messages[m].result = k
    BY <1>2 DEF ServerInv, SpentUnlessKept
  <1>7. messages[m].state = "complete" => messages[m].result = n
    BY <1>1 DEF ServerInv, KeptIsSent
  <1>8. <<m, n>> \in spent' \/ (messages[m].state = "complete" /\ messages[m].result = n)
    BY <1>1, <1>2 DEF ServerInv, SpentUnlessKept
  <1>9. r.step \notin {"none", "runs"}
    BY <1>2
  <1> QED BY <1>1, <1>2, <1>3, <1>4, <1>5, <1>6, <1>7, <1>8, <1>9, ServerMoves

LEMMA ServerReleases ==
    ASSUME ServerInv, NEW m \in Message, NEW n \in Run, Release(m, n)
    PROVE  ServerInv'
  <1> DEFINE r == [run[m][n] EXCEPT !.step = "ended"]
             e == IF messages[m].state = "complete" THEN Unknown ELSE messages[m]
  <1>1. /\ run[m][n].step = "sent" /\ UNCHANGED spent
    BY DEF Release, client
  <1>2. run[m][n] \in RunRecord /\ messages[m] \in Entry /\ Unknown \in Entry
        /\ Unknown.state = "none" /\ messages \in [Message -> Entry]
    BY DEF ServerInv, ServerType, Unknown, Entry
  <1>3. run' = [run EXCEPT ![m][n] = r]
    BY DEF Release
  <1>4. messages' = [messages EXCEPT ![m] = e]
    BY <1>2 DEF Release
  <1>5. r \in RunRecord /\ r.step = "ended" /\ e \in Entry /\ e.state # "complete"
        /\ (messages[m].state = "processing" => e.state = "processing")
    BY <1>2 DEF RunRecord
  <1> HIDE DEF r, e
  <1>6. <<m, n>> \in spent /\ (messages[m].state = "complete" => messages[m].result = n)
    BY <1>1 DEF ServerInv, KeptIsSent
  <1>7. \A k \in Run \ {n} :
          /\ run[m][k].step = "runs" => e.state = "processing"
          /\ run[m][k].step # "none" => <<m, k>> \in spent \/ run[m][k].step = "runs"
    BY <1>5, <1>6 DEF ServerInv, RunsKnown, SpentUnlessKept
  <1> QED BY <1>1, <1>3, <1>4, <1>5, <1>6, <1>7, ServerMoves

LEMMA ServerDrops ==
    ASSUME ServerInv, NEW m \in Message, DropComplete(m)
    PROVE  ServerInv'
  <1>1. /\ messages[m].state = "complete" /\ UNCHANGED run
        /\ spent' = spent \cup {<<m, messages[m].result>>}
        /\ messages' = [messages EXCEPT ![m] = Unknown]
    BY DEF DropComplete, client
  <1>2. Unknown \in Entry /\ Unknown.state = "none" /\ messages \in [Message -> Entry]
    BY DEF ServerInv, ServerType, Unknown, Entry
  <1>3. /\ messages' \in [Message -> Entry] /\ messages'[m] = Unknown
        /\ \A k \in Message \ {m} : messages'[k] = messages[k]
    BY <1>1, <1>2
  <1>4. ServerType' /\ RunsOnce'
    BY <1>1, <1>3 DEF ServerInv, ServerType, RunsOnce
  <1>5. RunsKnown'
    BY <1>1, <1>3 DEF ServerInv, RunsKnown
  <1>6. KeptIsSent'
    BY <1>1, <1>2, <1>3 DEF ServerInv, KeptIsSent
  <1>7. SpentUnlessKept'
    BY <1>1, <1>3 DEF ServerInv, SpentUnlessKept
  <1> QED BY <1>4, <1>5, <1>6, <1>7 DEF ServerInv

LEMMA ServerCrashes ==
    ASSUME ServerInv, Crash
    PROVE  ServerInv'
  <1>1. /\ messages' = [m \in Message |-> Unknown]
        /\ run' = [m \in Message |-> [n \in Run |->
             IF n \in Runs(m) THEN [step |-> "ended", senders |-> {}] ELSE run[m][n]]]
        /\ spent' = {r \in Message \X Run : r[2] \in Runs(r[1])}
    BY DEF Crash
  <1>2. Unknown \in Entry /\ Unknown.state = "none" /\ run \in [Message -> [Run -> RunRecord]]
        /\ [step |-> "ended", senders |-> {}] \in RunRecord
    BY DEF ServerInv, ServerType, Unknown, Entry, RunRecord
  <1>3. \A m \in Message, n \in Run :
          \/ run'[m][n].step = "ended" /\ <<m, n>> \in spent'
          \/ run'[m][n] = run[m][n] /\ run[m][n].step = "none"
    BY <1>1 DEF Runs
  <1>4. ServerType'
    <2>1. run' \in [Message -> [Run -> RunRecord]]
      BY <1>1, <1>2
    <2> QED BY <1>1, <1>2, <2>1 DEF ServerType
  <1>5. \A m \in Message, n \in Run :
          run'[m][n].step = "none" \/ (run'[m][n].step = "ended" /\ <<m, n>> \in spent')
    BY <1>3
  <1>6. RunsKnown' /\ RunsOnce' /\ KeptIsSent' /\ SpentUnlessKept'
    BY <1>5 DEF RunsKnown, RunsOnce, KeptIsSent, SpentUnlessKept
  <1> QED BY <1>4, <1>6 DEF ServerInv
LEMMA ServerNext ==
    ASSUME ServerInv, [Next]_vars
    PROVE  ServerInv'
  <1>1. ASSUME NEW m \in Message, Query(m)
        PROVE  ServerInv'
    BY <1>1, ServerRests DEF Query, server
  <1>2. ASSUME NEW s \in Socket, Open(s)
        PROVE  ServerInv'
    BY <1>2, ServerRests DEF Open
  <1>3. ASSUME NEW s \in Socket, Retry(s) \/ NoHeartBeat(s) \/ Timer(s) \/ Sent(s)
        PROVE  ServerInv'
    BY <1>3, ServerRests DEF Retry, NoHeartBeat, Timer, Sent, server
  <1>4. ASSUME NEW s \in Socket, Closed(s)
        PROVE  ServerInv'
    <2>1. PICK unsent \in SUBSET Message : CloseEvent(s, unsent)
      BY <1>4 DEF Closed
    <2> QED BY <2>1, ServerRests DEF CloseEvent, server
  <1>5. ASSUME NEW s \in Socket, ConnectFails(s) \/ Pong(s) \/ Closing(s) \/ Leave(s)
        PROVE  ServerInv'
    BY <1>5, ServerRests DEF ConnectFails, Pong, Closing, Leave, server
  <1>6. ASSUME NEW m \in Message, NEW s \in Socket, NEW n \in Run, Answer(s, m, n)
        PROVE  ServerInv'
    BY <1>6, ServerRests DEF Answer, server
  <1>7. ASSUME NEW m \in Message, NEW s \in Socket, LoseRequest(s, m)
        PROVE  ServerInv'
    BY <1>7, ServerRests DEF LoseRequest, server
  <1>8. CASE UNCHANGED vars
    BY <1>8, ServerRests DEF vars, server
  <1> QED BY <1>1, <1>2, <1>3, <1>4, <1>5, <1>6, <1>7, <1>8, ServerReceives, ServerCompletes,
             ServerSends, ServerReleases, ServerDrops, ServerCrashes DEF Next, Client, Work

LEMMA ServerInit ==
    ASSUME Init
    PROVE  ServerInv
  <1> DEFINE none == [step |-> "none", senders |-> {}]
  <1>1. none \in RunRecord /\ none.step = "none" /\ Unknown \in Entry
    BY DEF RunRecord, Unknown, Entry
  <1>2. run = [m \in Message |-> [n \in Run |-> none]] /\ messages = [m \in Message |-> Unknown]
    BY DEF Init
  <1> HIDE DEF none
  <1> QED BY <1>1, <1>2
          DEF ServerInv, ServerType, RunsKnown, RunsOnce, KeptIsSent, SpentUnlessKept

THEOREM ServerInvariant == Spec => []ServerInv
  <1>1. Init => ServerInv
    BY ServerInit
  <1>2. ServerInv /\ [Next]_vars => ServerInv'
    BY ServerNext
  <1> QED BY <1>1, <1>2, PTL DEF Spec

-----------------------------------------------------------------------------
(* What follows.                                                           *)

\* A message that is sent again while it runs is not run a second time
\* (receiving a message, http/mod.rs).
THEOREM ConnectionRunsAlone == Spec => []RunsAlone
  <1>1. ServerInv => RunsAlone
    <2> SUFFICES ASSUME ServerInv, NEW m \in Message
                 PROVE  Cardinality({n \in Run : run[m][n].step = "runs"}) <= 1
      BY DEF RunsAlone
    <2> DEFINE S == {n \in Run : run[m][n].step = "runs"}
    <2>1. CASE S = {}
      BY <2>1, FS_EmptySet
    <2>2. CASE S # {}
      <3>1. \E n : S = {n}
        BY <2>2 DEF ServerInv, RunsOnce
      <3> HIDE DEF S
      <3>2. Cardinality(S) = 1
        BY <3>1, FS_Singleton
      <3>3. Cardinality(S) <= 1
        BY <3>2
      <3> QED BY <3>3 DEF S
    <2> QED BY <2>1, <2>2
  <1> QED BY <1>1, ServerInvariant, PTL

Reruns == \A m \in Message, n \in Run :
    n \in Runs(m)' \ Runs(m) => \A k \in Runs(m) : <<m, k>> \in spent

\* Only a message that is received begins to run.
LEMMA NothingBegins ==
    ASSUME ServerInv, NEW m \in Message, NEW n \in Run, NEW r, run[m][n].step # "none",
           run' = [run EXCEPT ![m][n] = r]
    PROVE  Reruns
  <1>1. run \in [Message -> [Run -> RunRecord]]
    BY DEF ServerInv, ServerType
  <1>2. run' = [run EXCEPT ![m] = [run[m] EXCEPT ![n] = r]] /\ run[m] \in [Run -> RunRecord]
    BY <1>1
  <1>3. \A k \in Message, i \in Run : (k # m \/ i # n) => run'[k][i] = run[k][i]
    BY <1>1, <1>2
  <1> QED BY <1>3 DEF Reruns, Runs

LEMMA BeginsAgain ==
    ASSUME ServerInv, NEW s \in Socket, NEW m \in Message, Receive(s, m)
    PROVE  Reruns
  <1>1. Received(s, m)
    BY DEF Receive
  <1>2. CASE messages[m].state = "none"
    <2>1. run' = Begin(m)
      BY <1>1, <1>2 DEF Received
    <2>2. /\ \A n \in Run : run[m][n].step # "runs"
          /\ \A k \in Message \ {m}, n \in Run : run'[k][n] = run[k][n]
      BY <1>2, <2>1, BeginOf
    <2>3. \A k \in Runs(m) : <<m, k>> \in spent
      BY <1>2, <2>2 DEF Runs, ServerInv, SpentUnlessKept
    <2> QED BY <2>2, <2>3 DEF Reruns, Runs
  <1>3. CASE messages[m].state # "none"
    BY <1>1, <1>3 DEF Received, Reruns, Runs
  <1> QED BY <1>2, <1>3

LEMMA StepReruns ==
    ASSUME ServerInv, Next
    PROVE  Reruns
  <1>0. UNCHANGED run => Reruns
    BY DEF Reruns, Runs
  <1>1. ASSUME NEW m \in Message, Query(m) \/ DropComplete(m)
        PROVE  Reruns
    BY <1>0, <1>1 DEF Query, DropComplete, server
  <1>2. ASSUME NEW s \in Socket, Open(s) \/ Retry(s) \/ NoHeartBeat(s) \/ Timer(s) \/ Sent(s)
        PROVE  Reruns
    BY <1>0, <1>2 DEF Open, Retry, NoHeartBeat, Timer, Sent, server
  <1>3. ASSUME NEW s \in Socket, Closed(s)
        PROVE  Reruns
    <2>1. PICK unsent \in SUBSET Message : CloseEvent(s, unsent)
      BY <1>3 DEF Closed
    <2> QED BY <1>0, <2>1 DEF CloseEvent, server
  <1>4. ASSUME NEW s \in Socket, ConnectFails(s) \/ Pong(s) \/ Closing(s) \/ Leave(s)
        PROVE  Reruns
    BY <1>0, <1>4 DEF ConnectFails, Pong, Closing, Leave, server
  <1>5. ASSUME NEW m \in Message, NEW s \in Socket,
               LoseRequest(s, m) \/ \E n \in Run : Answer(s, m, n)
        PROVE  Reruns
    BY <1>0, <1>5 DEF LoseRequest, Answer, server
  <1>6. ASSUME NEW m \in Message, NEW n \in Run, Complete(m, n)
        PROVE  Reruns
    BY <1>6, NothingBegins DEF Complete
  <1>7. ASSUME NEW m \in Message, NEW n \in Run, SendResult(m, n)
        PROVE  Reruns
    BY <1>7, NothingBegins DEF SendResult
  <1>8. ASSUME NEW m \in Message, NEW n \in Run, Release(m, n)
        PROVE  Reruns
    <2>1. /\ run[m][n].step # "none"
          /\ run' = [run EXCEPT ![m][n] = [run[m][n] EXCEPT !.step = "ended"]]
      BY <1>8 DEF Release
    <2> QED BY <2>1, NothingBegins
  <1>9. CASE Crash
    BY <1>9 DEF Crash, Reruns, Runs
  <1> QED BY <1>1, <1>2, <1>3, <1>4, <1>5, <1>6, <1>7, <1>8, <1>9, BeginsAgain DEF Next, Client, Work

\* A message is run again only when every result of it was given to a socket that
\* was served, has expired, or went with the server (processing of messages,
\* http/mod.rs).
THEOREM ConnectionReruns == Spec => RerunsOnlyIfSpent
  <1>1. ServerInv /\ [Next]_vars => Reruns \/ UNCHANGED vars
    BY StepReruns
  <1>2. Spec => [][Reruns]_vars
    BY <1>1, ServerInvariant, PTL DEF Spec
  <1> QED BY <1>2 DEF RerunsOnlyIfSpent, Reruns

-----------------------------------------------------------------------------
(* The client and what is under way.                                       *)

Live == {"connecting", "open", "closing"}
Mover == [step : {"none", "waits", "ready", "sends", "hangs"}, to : Socket \cup {NoSocket},
          key : Message \cup {0}, left : SUBSET Message]
Promise == [state : {"none", "pending", "resolved", "rejected"}, run : Run \cup {0}]

SocketsType ==
    /\ socket \in [Socket -> {"new", "connecting", "failed", "open", "closing", "closed"}]
    /\ webSocket \in Socket \cup {NoSocket}
    /\ sentMessages \in [Socket -> SUBSET Message]
    /\ awaiting \in [Message -> Socket \cup {NoSocket}]
    /\ moving \in [Socket -> Mover]

\* The current socket is the only one that is in use.
CurrentIsLive == \A s \in Socket : socket[s] \in Live <=> s = webSocket

\* A socket that did not get to open holds no messages.
NothingSentBefore == \A s \in Socket : socket[s] \in {"new", "connecting", "failed"} => sentMessages[s] = {}

\* A query waits for a socket that may still open, and has not been sent then.
AwaitingFits == \A m \in Message : awaiting[m] # NoSocket =>
    socket[awaiting[m]] \in {"connecting", "failed"} /\ \A s \in Socket : m \notin sentMessages[s]

MovingFits == \A o \in Socket :
    /\ moving[o].left \subseteq sentMessages[o]
    /\ IF moving[o].step = "none" THEN moving[o].left = {} ELSE socket[o] = "closed"
    /\ moving[o].step \in {"waits", "ready"} => sentMessages[o] # {}
    /\ moving[o].step = "ready" => moving[o].to # NoSocket /\ socket[moving[o].to] \in {"connecting", "failed"}
    /\ moving[o].step = "sends" => moving[o].to # NoSocket /\ socket[moving[o].to] \in {"open", "closing"}

\* The close handler of o has still to send m.
ToMove(o, m) == \/ moving[o].step \in {"waits", "ready"} /\ m \in sentMessages[o]
                \/ moving[o].step = "sends" /\ m \in moving[o].left

\* A message that is still to be moved is on no socket that is not closed, and one
\* close handler has it.
MovedOnce == \A o \in Socket, m \in Message : ToMove(o, m) =>
    /\ \A s \in Socket : m \in sentMessages[s] => socket[s] = "closed"
    /\ \A p \in Socket : ToMove(p, m) => p = o

\* Only queries that were asked wait or are sent.
Asked == \A m \in Message : promise[m].state = "none" =>
    awaiting[m] = NoSocket /\ \A s \in Socket : m \notin sentMessages[s]

ClientInv == SocketsType /\ CurrentIsLive /\ NothingSentBefore /\ AwaitingFits /\ MovingFits /\ MovedOnce /\ Asked

OnTheWayType ==
    /\ promise \in [Message -> Promise]
    /\ requests \subseteq Socket \X Message /\ answers \subseteq Socket \X Message \X Run
    /\ up \subseteq Socket /\ tries \in 0..failures /\ failures \in 0..MaxFailures
    /\ \A m \in Message : messages[m].state = "complete" => messages[m].result \in Run

\* What the message m became that was sent over s: a request, a sender in an entry or in a
\* run, an answer.
Known(s, m) == s \in messages[m].senders
Serves(s, m, n) == s \in run[m][n].senders
Awaits(s, m) == \/ <<s, m>> \in requests \/ Known(s, m)
                \/ \E n \in Run : Serves(s, m, n) \/ <<s, m, n>> \in answers

\* It became one thing, and the client expects the answer, unless the socket is closed.
OneEach(s, m) ==
    /\ Awaits(s, m) => m \in sentMessages[s]
    /\ <<s, m>> \in requests => ~Known(s, m)
    /\ \A n \in Run : Serves(s, m, n) \/ <<s, m, n>> \in answers => <<s, m>> \notin requests /\ ~Known(s, m)
    /\ \A n, k \in Run : ~(Serves(s, m, n) /\ <<s, m, k>> \in answers)
    /\ \A n, k \in Run : Serves(s, m, n) /\ Serves(s, m, k) => n = k
    /\ \A n, k \in Run : <<s, m, n>> \in answers /\ <<s, m, k>> \in answers => n = k

AnswersOnce == \A s \in Socket, m \in Message : socket[s] # "closed" => OneEach(s, m)

\* A step that sends the messages S over t, and lets no closed socket open again.
Sends(t, S) ==
    /\ socket[t] # "closed" /\ S \cap sentMessages[t] = {}
    /\ sentMessages' = [sentMessages EXCEPT ![t] = @ \cup S]
    /\ requests' = requests \/ requests' = requests \cup ({t} \X S)
    /\ \A s \in Socket : socket[s] = "closed" => socket'[s] = "closed"
SendsSome == \E t \in Socket, S \in SUBSET Message : Sends(t, S)

LEMMA LeastExists ==
    ASSUME NEW S \in SUBSET Nat, S # {}
    PROVE  Least(S) \in S
  <1> DEFINE below == OpToRel(<, Nat)
  <1>1. below = {p \in Nat \X Nat : p[1] < p[2]}
    BY DEF OpToRel
  <1>2. IsWellFoundedOn(below, Nat)
    BY NatLessThanWellFounded
  <1> HIDE DEF below
  <1>3. PICK x \in S : \A y \in S : <<y, x>> \notin below
    BY <1>2, WFMin
  <1>4. ASSUME NEW y \in S PROVE x <= y
    <2>1. x \in Nat /\ y \in Nat
      OBVIOUS
    <2>2. ~(y < x)
      BY <1>1, <1>3, <2>1
    <2> QED BY <2>1, <2>2
  <1> QED BY <1>4 DEF Least

LEMMA LeastMessage ==
    ASSUME NEW S \in SUBSET Message, S # {}
    PROVE  Least(S) \in S /\ Least(S) \in Message
  BY LeastExists, ConnectionAssumption

LEMMA SocketIs == /\ NoSocket \notin Socket /\ \A s \in Socket : s \in Nat
                  /\ Still \in Mover
                  /\ Still.step = "none" /\ Still.left = {} /\ Still.to = NoSocket
  BY ConnectionAssumption DEF Socket, NoSocket, Still, Mover

\* What is sent over t no close handler has still to move.
LEMMA MovedOnceStays ==
    ASSUME MovedOnce, NEW t \in Socket, NEW S,
           \A o \in Socket, m \in Message : ToMove(o, m)' => ToMove(o, m) /\ m \notin S,
           \A s \in Socket, m \in Message : m \in sentMessages'[s] => m \in sentMessages[s] \/ m \in S,
           \A s \in Socket : socket[s] = "closed" => socket'[s] = "closed"
    PROVE  MovedOnce'
  <1> SUFFICES ASSUME NEW o \in Socket, NEW m \in Message, ToMove(o, m)'
               PROVE  /\ \A s \in Socket : m \in sentMessages'[s] => socket'[s] = "closed"
                      /\ \A p \in Socket : ToMove(p, m)' => p = o
    BY DEF MovedOnce
  <1> QED BY DEF MovedOnce

\* The queries M and the close handlers O go on with socket t.
LEMMA JoinKeeps ==
    ASSUME ClientInv, NEW M \in SUBSET Message, NEW O \in SUBSET Socket, NEW t \in Socket, NEW state \in Live,
           Join(M, O, t, state), webSocket' = t,
           socket' \in [Socket -> {"new", "connecting", "failed", "open", "closing", "closed"}],
           socket'[t] = state,
           \/ socket[t] = state
           \/ socket[t] = "new" /\ state = "connecting"
           \/ socket[t] = "connecting" /\ state = "open",
           \A s \in Socket \ {t} : /\ socket[s] \notin Live
                                   /\ socket'[s] = socket[s] \/ (socket[s] = "failed" /\ socket'[s] = "closed"),
           \A m \in Message : promise'[m].state = "none" => promise[m].state = "none" /\ m \notin M,
           \A m \in M, s \in Socket : m \notin sentMessages[s],
           \A o \in O : moving[o].step \in {"waits", "ready"},
           \A m \in Message \ M : awaiting[m] # NoSocket => socket'[awaiting[m]] \in {"connecting", "failed"},
           \A o \in Socket \ O : moving[o].step = "ready" => socket'[moving[o].to] \in {"connecting", "failed"}
    PROVE  ClientInv' /\ SendsSome
  <1>0. /\ webSocket \in Socket \cup {NoSocket} /\ sentMessages \in [Socket -> SUBSET Message]
        /\ awaiting \in [Message -> Socket \cup {NoSocket}] /\ moving \in [Socket -> Mover]
    BY DEF ClientInv, SocketsType
  <1>1. \A s \in Socket : socket[s] = "closed" => socket'[s] = "closed" /\ s # t
    BY DEF Live
  <1>2. CurrentIsLive'
    BY DEF CurrentIsLive, Live
  <1>3. \A o \in Socket : moving[o].step = "sends" => moving[o].to = t /\ socket[t] \in {"open", "closing"}
    BY <1>0 DEF ClientInv, MovingFits, Live, Mover
  <1>4. \A o \in O : socket[o] = "closed" /\ sentMessages[o] # {}
    BY DEF ClientInv, MovingFits
  <1>5. CASE state = "connecting"
    <2> DEFINE next == [Still EXCEPT !.step = "ready", !.to = t]
    <2>1. /\ awaiting' = [m \in Message |-> IF m \in M THEN t ELSE awaiting[m]]
          /\ moving' = [o \in Socket |-> IF o \in O THEN next ELSE moving[o]]
          /\ sentMessages' = sentMessages /\ requests' = requests
      BY <1>5 DEF Join
    <2>2. next \in Mover /\ next.step = "ready" /\ next.to = t /\ next.left = {}
      BY DEF Still, Mover
    <2> HIDE DEF next
    <2>3. SocketsType'
      BY <1>0, <2>1, <2>2 DEF SocketsType
    <2>4. NothingSentBefore'
      BY <1>5, <2>1 DEF ClientInv, NothingSentBefore, Live
    <2>5. AwaitingFits'
      BY <1>0, <1>5, <2>1 DEF ClientInv, AwaitingFits
    <2>6. MovingFits'
      <3> SUFFICES ASSUME NEW o \in Socket
                   PROVE  /\ moving'[o].left \subseteq sentMessages'[o]
                          /\ IF moving'[o].step = "none" THEN moving'[o].left = {} ELSE socket'[o] = "closed"
                          /\ moving'[o].step \in {"waits", "ready"} => sentMessages'[o] # {}
                          /\ moving'[o].step = "ready"
                               => moving'[o].to # NoSocket /\ socket'[moving'[o].to] \in {"connecting", "failed"}
                          /\ moving'[o].step = "sends"
                               => moving'[o].to # NoSocket /\ socket'[moving'[o].to] \in {"open", "closing"}
        BY DEF MovingFits
      <3>1. CASE o \in O
        BY <1>1, <1>4, <1>5, <2>1, <2>2, <3>1, SocketIs
      <3>2. CASE o \notin O
        <4>1. moving'[o] = moving[o] /\ moving[o].step # "sends"
          BY <1>3, <1>5, <2>1, <3>2
        <4> QED BY <1>1, <2>1, <3>2, <4>1 DEF ClientInv, MovingFits
      <3> QED BY <3>1, <3>2
    <2>7. MovedOnce'
      <3> DEFINE none == {}
      <3>1. \A o \in Socket, m \in Message : ToMove(o, m)' => ToMove(o, m) /\ m \notin none
        BY <2>1, <2>2 DEF ToMove
      <3>2. \A s \in Socket, m \in Message : m \in sentMessages'[s] => m \in sentMessages[s] \/ m \in none
        BY <2>1
      <3> HIDE DEF none
      <3> QED BY <1>1, <3>1, <3>2, MovedOnceStays DEF ClientInv
    <2>8. Asked'
      BY <2>1 DEF ClientInv, Asked
    <2>9. Sends(t, {})
      BY <1>0, <1>1, <2>1 DEF Sends
    <2>10. SendsSome
      <3> {} \in SUBSET Message
        OBVIOUS
      <3> QED BY <2>9 DEF SendsSome
    <2> QED BY <1>2, <2>1, <2>3, <2>4, <2>5, <2>6, <2>7, <2>8, <2>10 DEF ClientInv
  <1>6. CASE state # "connecting"
    <2> DEFINE sent == M \cup {Least(sentMessages[o]) : o \in O}
    <2>1. /\ awaiting' = [m \in Message |-> IF m \in M THEN NoSocket ELSE awaiting[m]]
          /\ moving' = [o \in Socket |-> IF o \in O THEN Move(o, t, sentMessages[o], state) ELSE moving[o]]
          /\ sentMessages' = [sentMessages EXCEPT ![t] = @ \cup sent]
          /\ requests' = requests \/ requests' = requests \cup ({t} \X sent)
      BY <1>6 DEF Join, Put
    <2>2. \A o \in O : /\ Least(sentMessages[o]) \in sentMessages[o] /\ Least(sentMessages[o]) \in Message
                       /\ ToMove(o, Least(sentMessages[o]))
      BY <1>0, <1>4, LeastMessage DEF ToMove
    <2>3. \A o \in O : /\ moving'[o] \in Mover /\ moving'[o].step \in {"sends", "hangs"} /\ moving'[o].to = t
                       /\ moving'[o].left = sentMessages[o] \ {Least(sentMessages[o])}
      BY <1>0, <2>1, <2>2 DEF Move, Mover
    <2>4. sent \in SUBSET Message
      BY <2>2
    <2>5. \A m \in sent : m \in M \/ \E o \in O : m = Least(sentMessages[o])
      OBVIOUS
    <2> HIDE DEF sent
    <2>6. /\ \A s \in Socket \ {t} : sentMessages'[s] = sentMessages[s]
          /\ sentMessages'[t] = sentMessages[t] \cup sent
          /\ \A o \in Socket \ O : moving'[o] = moving[o]
      BY <1>0, <2>1
    <2>7. sent \cap sentMessages[t] = {}
      <3> SUFFICES ASSUME NEW m \in sent, m \in sentMessages[t] PROVE FALSE
        OBVIOUS
      <3>1. PICK o \in O : m = Least(sentMessages[o])
        BY <2>5
      <3>2. ToMove(o, m) /\ m \in Message
        BY <2>2, <3>1
      <3> QED BY <1>1, <3>2 DEF ClientInv, MovedOnce
    <2>8. SocketsType'
      <3>1. moving' \in [Socket -> Mover]
        BY <1>0, <2>1, <2>3, <2>6
      <3> QED BY <1>0, <2>1, <2>4, <3>1 DEF SocketsType
    <2>9. NothingSentBefore'
      BY <1>6, <2>6 DEF ClientInv, NothingSentBefore, Live
    <2>10. \A m \in Message, s \in Socket : m \notin sent /\ m \in sentMessages'[s] => m \in sentMessages[s]
      BY <2>6
    <2>11. \A m \in sent : m \in M \/ \E s \in Socket : m \in sentMessages[s]
      BY <2>2, <2>5
    <2>12. AwaitingFits'
      BY <1>0, <2>1, <2>10, <2>11 DEF ClientInv, AwaitingFits
    <2>13. MovingFits'
      <3> SUFFICES ASSUME NEW o \in Socket
                   PROVE  /\ moving'[o].left \subseteq sentMessages'[o]
                          /\ IF moving'[o].step = "none" THEN moving'[o].left = {} ELSE socket'[o] = "closed"
                          /\ moving'[o].step \in {"waits", "ready"} => sentMessages'[o] # {}
                          /\ moving'[o].step = "ready"
                               => moving'[o].to # NoSocket /\ socket'[moving'[o].to] \in {"connecting", "failed"}
                          /\ moving'[o].step = "sends"
                               => moving'[o].to # NoSocket /\ socket'[moving'[o].to] \in {"open", "closing"}
        BY DEF MovingFits
      <3>1. sentMessages[o] \subseteq sentMessages'[o]
        BY <2>6
      <3>2. state \in {"open", "closing"}
        BY <1>6 DEF Live
      <3>3. CASE o \in O
        BY <1>1, <1>4, <2>3, <3>1, <3>2, <3>3, SocketIs
      <3>4. CASE o \notin O
        <4>1. moving'[o] = moving[o] /\ o \in Socket \ O
          BY <2>6, <3>4
        <4>2. moving[o].step = "sends" => moving[o].to # NoSocket /\ socket'[moving[o].to] \in {"open", "closing"}
          BY <1>3, <3>2, SocketIs
        <4> QED BY <1>1, <3>1, <4>1, <4>2 DEF ClientInv, MovingFits
      <3> QED BY <3>3, <3>4
    <2>14. MovedOnce'
      <3>1. ASSUME NEW o \in Socket, NEW m \in Message, ToMove(o, m)'
            PROVE  ToMove(o, m) /\ m \notin sent
        <4>1. CASE o \in O
          <5>1. m \in sentMessages[o] /\ m # Least(sentMessages[o]) /\ ToMove(o, m)
            BY <2>3, <3>1, <4>1 DEF ToMove
          <5>2. \A p \in O : m = Least(sentMessages[p]) => p = o
            BY <2>2, <5>1 DEF ClientInv, MovedOnce
          <5> QED BY <2>5, <5>1, <5>2
        <4>2. CASE o \notin O
          <5>1. moving'[o] = moving[o]
            BY <2>6, <4>2
          <5>2. socket[o] = "closed" /\ o # t
            BY <1>1, <3>1, <5>1 DEF ToMove, ClientInv, MovingFits
          <5>3. ToMove(o, m) /\ m \in sentMessages[o]
            BY <2>6, <3>1, <5>1, <5>2 DEF ToMove, ClientInv, MovingFits
          <5>4. \A p \in O : m = Least(sentMessages[p]) => p = o
            BY <2>2, <5>3 DEF ClientInv, MovedOnce
          <5> QED BY <2>5, <4>2, <5>3, <5>4
        <4> QED BY <4>1, <4>2
      <3> QED BY <1>1, <2>6, <3>1, MovedOnceStays DEF ClientInv
    <2>15. Asked'
      BY <1>0, <2>1, <2>10, <2>11 DEF ClientInv, Asked
    <2>16. Sends(t, sent)
      BY <1>1, <2>1, <2>7 DEF Sends
    <2>17. SendsSome
      BY <2>4, <2>16 DEF SendsSome
    <2> QED BY <1>2, <2>8, <2>9, <2>12, <2>13, <2>14, <2>15, <2>17 DEF ClientInv
  <1> QED BY <1>5, <1>6


\* The socket that initWebSocket returns.
LEMMA TargetFits ==
    ASSUME ClientInv, InitWebSocket
    PROVE  /\ Target \in Socket /\ webSocket' = Target /\ StateOf(Target) \in Live
           /\ \/ socket[Target] = StateOf(Target)
              \/ socket[Target] = "new" /\ StateOf(Target) = "connecting"
           /\ \A s \in Socket \ {Target} : socket[s] \notin Live
  <1>1. CASE webSocket # NoSocket
    BY <1>1 DEF ClientInv, SocketsType, CurrentIsLive, InitWebSocket, Target, StateOf, Live
  <1>2. CASE webSocket = NoSocket
    <2>1. Fresh # {} /\ Fresh \in SUBSET Nat /\ Target = Least(Fresh)
      BY <1>2, SocketIs DEF InitWebSocket, Fresh, Target
    <2>2. Target \in Fresh
      BY <2>1, LeastExists
    <2> QED BY <1>2, <2>2, SocketIs
            DEF ClientInv, SocketsType, CurrentIsLive, InitWebSocket, Fresh, StateOf, Live
  <1> QED BY <1>1, <1>2

\* Socket t begins to connect, unless it is in use already, and M and O go on with it.
LEMMA TargetKeeps ==
    ASSUME ClientInv, NEW M \in SUBSET Message, NEW O \in SUBSET Socket, NEW t, NEW state,
           t = Target, state = StateOf(t), InitWebSocket, Join(M, O, t, state),
           socket'[t] = state,
           socket' \in [Socket -> {"new", "connecting", "failed", "open", "closing", "closed"}],
           \A s \in Socket \ {t} : socket'[s] = socket[s] \/ (socket[s] = "failed" /\ socket'[s] = "closed"),
           \A m \in Message : promise'[m].state = "none" => promise[m].state = "none" /\ m \notin M,
           \A m \in M, s \in Socket : m \notin sentMessages[s],
           \A o \in O : moving[o].step \in {"waits", "ready"},
           \A m \in Message \ M : awaiting[m] # NoSocket /\ awaiting[m] # t => socket'[awaiting[m]] = socket[awaiting[m]],
           \A o \in Socket \ O : moving[o].step = "ready" /\ moving[o].to # t
                                   => socket'[moving[o].to] = socket[moving[o].to]
    PROVE  ClientInv' /\ SendsSome
  <1>1. /\ t \in Socket /\ webSocket' = t /\ state \in Live
        /\ socket[t] = state \/ (socket[t] = "new" /\ state = "connecting")
        /\ \A s \in Socket \ {t} : socket[s] \notin Live
    BY TargetFits
  <1>2. socket[t] \in {"connecting", "failed"} => socket'[t] \in {"connecting", "failed"}
    BY <1>1 DEF Live
  <1>3. \A m \in Message \ M : awaiting[m] # NoSocket => socket'[awaiting[m]] \in {"connecting", "failed"}
    BY <1>2 DEF ClientInv, AwaitingFits
  <1>4. \A o \in Socket \ O : moving[o].step = "ready" => socket'[moving[o].to] \in {"connecting", "failed"}
    BY <1>2 DEF ClientInv, MovingFits
  <1> QED BY <1>1, <1>3, <1>4, JoinKeeps

LEMMA QueryKeeps ==
    ASSUME ClientInv, OnTheWayType, NEW m \in Message, Query(m)
    PROVE  ClientInv' /\ SendsSome
  <1> DEFINE t == Target
             state == StateOf(t)
             M == {m}
             O == {}
  <1>1. /\ InitWebSocket /\ promise[m].state = "none" /\ Join(M, O, t, state)
        /\ socket' = [socket EXCEPT ![t] = state]
        /\ promise' = [promise EXCEPT ![m] = [promise[m] EXCEPT !.state = "pending"]]
    BY DEF Query
  <1>2. t \in Socket /\ state \in Live
    BY <1>1, TargetFits
  <1>3. socket \in [Socket -> {"new", "connecting", "failed", "open", "closing", "closed"}]
    BY DEF ClientInv, SocketsType
  <1>4. M \in SUBSET Message /\ O \in SUBSET Socket /\ \A k \in Message : k \in M <=> k = m
    OBVIOUS
  <1> HIDE DEF M
  <1>5. /\ socket' \in [Socket -> {"new", "connecting", "failed", "open", "closing", "closed"}]
        /\ socket'[t] = state /\ \A s \in Socket \ {t} : socket'[s] = socket[s]
    BY <1>1, <1>2, <1>3 DEF Live
  <1>6. \A k \in Message : promise'[k].state = "none" => promise[k].state = "none" /\ k \notin M
    BY <1>1, <1>4 DEF OnTheWayType
  <1>7. \A k \in M, s \in Socket : k \notin sentMessages[s]
    BY <1>1, <1>4 DEF ClientInv, Asked
  <1>8. /\ \A k \in Message \ M : awaiting[k] # NoSocket /\ awaiting[k] # t
                                   => socket'[awaiting[k]] = socket[awaiting[k]]
        /\ \A o \in O : moving[o].step \in {"waits", "ready"}
        /\ \A o \in Socket \ O : moving[o].step = "ready" /\ moving[o].to # t
                                   => socket'[moving[o].to] = socket[moving[o].to]
    BY <1>1
  <1>9. t = Target /\ state = StateOf(t)
    OBVIOUS
  <1> HIDE DEF t, state, O
  <1> QED BY <1>1, <1>4, <1>5, <1>6, <1>7, <1>8, <1>9, TargetKeeps


LEMMA TimerKeeps ==
    ASSUME ClientInv, NEW s \in Socket, Timer(s)
    PROVE  ClientInv' /\ SendsSome
  <1> DEFINE t == Target
             state == StateOf(t)
             M == {}
             O == {s}
  <1>1. /\ InitWebSocket /\ moving[s].step = "waits" /\ Join(M, O, t, state)
        /\ socket' = [socket EXCEPT ![t] = state] /\ promise' = promise
    BY DEF Timer
  <1>2. t \in Socket /\ state \in Live
    BY <1>1, TargetFits
  <1>3. socket \in [Socket -> {"new", "connecting", "failed", "open", "closing", "closed"}]
    BY DEF ClientInv, SocketsType
  <1>4. /\ M \in SUBSET Message /\ O \in SUBSET Socket /\ t = Target /\ state = StateOf(t)
        /\ \A m \in Message : m \notin M
        /\ \A o \in O : moving[o].step \in {"waits", "ready"}
    BY <1>1
  <1> HIDE DEF M, O
  <1>5. /\ socket' \in [Socket -> {"new", "connecting", "failed", "open", "closing", "closed"}]
        /\ socket'[t] = state /\ \A x \in Socket \ {t} : socket'[x] = socket[x]
    BY <1>1, <1>2, <1>3 DEF Live
  <1>6. /\ \A m \in Message : promise'[m].state = "none" => promise[m].state = "none" /\ m \notin M
        /\ \A m \in M, x \in Socket : m \notin sentMessages[x]
    BY <1>1, <1>4
  <1>7. /\ \A m \in Message \ M : awaiting[m] # NoSocket /\ awaiting[m] # t
                                   => socket'[awaiting[m]] = socket[awaiting[m]]
        /\ \A o \in Socket \ O : moving[o].step = "ready" /\ moving[o].to # t
                                   => socket'[moving[o].to] = socket[moving[o].to]
    BY <1>1
  <1> HIDE DEF t, state
  <1> QED BY <1>1, <1>4, <1>5, <1>6, <1>7, TargetKeeps

LEMMA RetryKeeps ==
    ASSUME ClientInv, NEW s \in Socket, Retry(s)
    PROVE  ClientInv' /\ SendsSome
  <1> DEFINE t == Target
             state == StateOf(t)
             M == Waiting(s)
             O == Handlers(s, "ready")
  <1>1. /\ InitWebSocket /\ socket[s] = "failed" /\ Join(M, O, t, state)
        /\ socket' = [socket EXCEPT ![s] = "closed", ![t] = state] /\ promise' = promise
    BY DEF Retry
  <1>2. t \in Socket /\ state \in Live /\ t # s
    BY <1>1, TargetFits DEF Live
  <1>3. socket \in [Socket -> {"new", "connecting", "failed", "open", "closing", "closed"}]
    BY DEF ClientInv, SocketsType
  <1>4. /\ M \in SUBSET Message /\ O \in SUBSET Socket /\ t = Target /\ state = StateOf(t)
        /\ \A m \in Message : m \in M <=> awaiting[m] = s
        /\ \A o \in Socket : o \in O <=> moving[o].step = "ready" /\ moving[o].to = s
    BY DEF Waiting, Handlers
  <1> HIDE DEF M, O
  <1>5. /\ socket' \in [Socket -> {"new", "connecting", "failed", "open", "closing", "closed"}]
        /\ socket'[t] = state /\ socket'[s] = "closed"
        /\ \A x \in Socket \ {s, t} : socket'[x] = socket[x]
    BY <1>1, <1>2, <1>3 DEF Live
  <1>6. \A x \in Socket \ {t} : socket'[x] = socket[x] \/ (socket[x] = "failed" /\ socket'[x] = "closed")
    BY <1>1, <1>5
  <1>7. /\ \A m \in Message : promise'[m].state = "none" => promise[m].state = "none" /\ m \notin M
        /\ \A m \in M, x \in Socket : m \notin sentMessages[x]
    BY <1>1, <1>4, SocketIs DEF ClientInv, Asked, AwaitingFits
  <1>8. /\ \A m \in Message \ M : awaiting[m] # NoSocket /\ awaiting[m] # t
                                   => socket'[awaiting[m]] = socket[awaiting[m]]
        /\ \A o \in Socket \ O : moving[o].step = "ready" /\ moving[o].to # t
                                   => socket'[moving[o].to] = socket[moving[o].to]
    BY <1>4, <1>5 DEF ClientInv, SocketsType, MovingFits, Mover
  <1>9. \A o \in O : moving[o].step \in {"waits", "ready"}
    BY <1>4
  <1>10. InitWebSocket /\ Join(M, O, t, state)
    BY <1>1
  <1> HIDE DEF t, state
  <1> QED BY <1>4, <1>5, <1>6, <1>7, <1>8, <1>9, <1>10, TargetKeeps

LEMMA OpenKeeps ==
    ASSUME ClientInv, NEW s \in Socket, Open(s)
    PROVE  ClientInv' /\ SendsSome
  <1> DEFINE state == "open"
             M == Waiting(s)
             O == Handlers(s, "ready")
  <1>1. /\ socket[s] = "connecting" /\ Join(M, O, s, state)
        /\ socket' = [socket EXCEPT ![s] = state] /\ promise' = promise /\ webSocket' = webSocket
    BY DEF Open
  <1>2. state \in Live /\ webSocket = s /\ \A x \in Socket \ {s} : socket[x] \notin Live
    BY <1>1 DEF Live, ClientInv, CurrentIsLive
  <1>3. /\ socket \in [Socket -> {"new", "connecting", "failed", "open", "closing", "closed"}]
        /\ awaiting \in [Message -> Socket \cup {NoSocket}] /\ moving \in [Socket -> Mover]
    BY DEF ClientInv, SocketsType
  <1>4. /\ M \in SUBSET Message /\ O \in SUBSET Socket /\ state = "open"
        /\ \A m \in Message : m \in M <=> awaiting[m] = s
        /\ \A o \in Socket : o \in O <=> moving[o].step = "ready" /\ moving[o].to = s
    BY DEF Waiting, Handlers
  <1> HIDE DEF M, O
  <1>5. /\ socket' \in [Socket -> {"new", "connecting", "failed", "open", "closing", "closed"}]
        /\ socket'[s] = state /\ \A x \in Socket \ {s} : socket'[x] = socket[x]
    BY <1>1, <1>2, <1>3
  <1>6. /\ \A m \in Message : promise'[m].state = "none" => promise[m].state = "none" /\ m \notin M
        /\ \A m \in M, x \in Socket : m \notin sentMessages[x]
    BY <1>1, <1>4, SocketIs DEF ClientInv, Asked, AwaitingFits
  <1>7. \A m \in Message \ M : awaiting[m] # NoSocket => socket'[awaiting[m]] \in {"connecting", "failed"}
    BY <1>3, <1>4, <1>5 DEF ClientInv, AwaitingFits
  <1>8. \A o \in Socket \ O : moving[o].step = "ready" => socket'[moving[o].to] \in {"connecting", "failed"}
    BY <1>3, <1>4, <1>5 DEF ClientInv, MovingFits, Mover
  <1>9. \A o \in O : moving[o].step \in {"waits", "ready"}
    BY <1>4
  <1>10. \A x \in Socket \ {s} : /\ socket[x] \notin Live
                                 /\ socket'[x] = socket[x] \/ (socket[x] = "failed" /\ socket'[x] = "closed")
    BY <1>2, <1>5
  <1> HIDE DEF state
  <1> QED BY <1>1, <1>2, <1>4, <1>5, <1>6, <1>7, <1>8, <1>9, <1>10, JoinKeeps


\* Steps that send nothing: messages may be dropped, sockets closed.
SendsNone ==
    /\ requests' \subseteq requests
    /\ \A s \in Socket : IF socket[s] = "closed" THEN socket'[s] = "closed"
                         ELSE socket'[s] # "closed" => sentMessages'[s] = sentMessages[s]

LEMMA RejectIs ==
    ASSUME OnTheWayType, NEW M, promise' = Reject(M)
    PROVE  /\ promise' \in [Message -> Promise]
           /\ \A m \in Message : promise'[m].state = "none" => promise[m].state = "none" /\ m \notin M
  <1>1. [state |-> "rejected", run |-> 0] \in Promise
    BY DEF Promise
  <1> QED BY <1>1 DEF OnTheWayType, Reject, Settled

LEMMA ConnectFailsKeeps ==
    ASSUME ClientInv, OnTheWayType, NEW s \in Socket, ConnectFails(s)
    PROVE  ClientInv' /\ SendsNone
  <1>0. /\ socket \in [Socket -> {"new", "connecting", "failed", "open", "closing", "closed"}]
        /\ webSocket \in Socket \cup {NoSocket} /\ sentMessages \in [Socket -> SUBSET Message]
        /\ awaiting \in [Message -> Socket \cup {NoSocket}] /\ moving \in [Socket -> Mover]
    BY DEF ClientInv, SocketsType
  <1>1. /\ socket[s] = "connecting" /\ webSocket' = NoSocket /\ sentMessages' = sentMessages
        /\ requests' = requests
        /\ \A x \in Socket \ {s} : socket[x] \notin Live
    BY DEF ConnectFails, ClientInv, CurrentIsLive, Live, Forget
  <1>2. /\ socket' \in [Socket -> {"new", "connecting", "failed", "open", "closing", "closed"}]
        /\ socket'[s] \in {"failed", "closed"} /\ \A x \in Socket \ {s} : socket'[x] = socket[x]
    BY <1>0 DEF ConnectFails
  <1>3. CurrentIsLive' /\ NothingSentBefore' /\ SendsNone
    BY <1>1, <1>2, SocketIs DEF CurrentIsLive, NothingSentBefore, SendsNone, Live, ClientInv
  <1>4. CASE tries + 1 < MaxConnectRetries
    <2>1. awaiting' = awaiting /\ moving' = moving /\ promise' = promise /\ socket'[s] = "failed"
      BY <1>0, <1>4 DEF ConnectFails
    <2>2. SocketsType'
      BY <1>0, <1>1, <1>2, <2>1 DEF SocketsType
    <2>3. AwaitingFits' /\ Asked'
      BY <1>0, <1>1, <1>2, <2>1 DEF ClientInv, AwaitingFits, Asked
    <2>4. MovingFits'
      BY <1>0, <1>1, <1>2, <2>1 DEF ClientInv, MovingFits, Mover
    <2>5. MovedOnce'
      BY <1>1, <1>2, <2>1 DEF ClientInv, MovedOnce, ToMove
    <2> QED BY <1>3, <2>2, <2>3, <2>4, <2>5 DEF ClientInv
  <1>5. CASE ~(tries + 1 < MaxConnectRetries)
    <2> DEFINE handlers == Handlers(s, "ready")
               M == Waiting(s) \cup UNION {sentMessages[o] : o \in handlers}
    <2>1. /\ awaiting' = [m \in Message |-> IF awaiting[m] = s THEN NoSocket ELSE awaiting[m]]
          /\ moving' = [o \in Socket |-> IF o \in handlers THEN Still ELSE moving[o]]
          /\ promise' = Reject(M)
      BY <1>5 DEF ConnectFails
    <2>2. \A o \in Socket : o \in handlers <=> moving[o].step = "ready" /\ moving[o].to = s
      BY DEF Handlers
    <2>3. \A m \in Message : promise'[m].state = "none" => promise[m].state = "none"
      BY <2>1, RejectIs
    <2> HIDE DEF handlers, M
    <2>4. SocketsType'
      BY <1>0, <1>1, <1>2, <2>1, SocketIs DEF SocketsType
    <2>5. AwaitingFits' /\ Asked'
      BY <1>0, <1>1, <1>2, <2>1, <2>3 DEF ClientInv, AwaitingFits, Asked
    <2>6. MovingFits'
      BY <1>0, <1>1, <1>2, <2>1, <2>2, SocketIs DEF ClientInv, MovingFits, Mover
    <2>7. MovedOnce'
      BY <1>1, <1>2, <2>1, SocketIs DEF ClientInv, MovedOnce, ToMove
    <2> QED BY <1>3, <2>4, <2>5, <2>6, <2>7 DEF ClientInv
  <1> QED BY <1>4, <1>5

LEMMA ClosingKeeps ==
    ASSUME ClientInv, NEW s \in Socket, Closing(s) \/ NoHeartBeat(s)
    PROVE  ClientInv' /\ SendsNone
  <1>0. socket \in [Socket -> {"new", "connecting", "failed", "open", "closing", "closed"}]
    BY DEF ClientInv, SocketsType
  <1>1. /\ socket[s] = "open" /\ socket' = [socket EXCEPT ![s] = "closing"]
        /\ UNCHANGED <<webSocket, sentMessages, awaiting, moving, promise, requests>>
    BY DEF Closing, NoHeartBeat
  <1>2. /\ socket' \in [Socket -> {"new", "connecting", "failed", "open", "closing", "closed"}]
        /\ socket'[s] = "closing" /\ \A x \in Socket \ {s} : socket'[x] = socket[x]
    BY <1>0, <1>1
  <1>3. SocketsType' /\ CurrentIsLive' /\ NothingSentBefore' /\ SendsNone
    BY <1>1, <1>2 DEF SocketsType, CurrentIsLive, NothingSentBefore, SendsNone, Live, ClientInv
  <1>4. AwaitingFits' /\ Asked'
    BY <1>1, <1>2 DEF ClientInv, SocketsType, AwaitingFits, Asked
  <1>5. MovingFits'
    BY <1>1, <1>2 DEF ClientInv, SocketsType, MovingFits, Mover
  <1>6. MovedOnce'
    BY <1>1, <1>2 DEF ClientInv, MovedOnce, ToMove
  <1> QED BY <1>3, <1>4, <1>5, <1>6 DEF ClientInv

\* The socket closes: what waits on it is moved by its close handler from now on.
LEMMA ClosedKeeps ==
    ASSUME ClientInv, OnTheWayType, NEW s \in Socket, NEW unsent, socket[s] \in {"open", "closing"}, CloseEvent(s, unsent)
    PROVE  ClientInv' /\ SendsNone
  <1> DEFINE handlers == Handlers(s, "sends")
             kept == sentMessages[s] \ unsent
             M == unsent \cup UNION {sentMessages[o] : o \in handlers}
             first == [Still EXCEPT !.step = "waits"]
  <1>0. /\ socket \in [Socket -> {"new", "connecting", "failed", "open", "closing", "closed"}]
        /\ webSocket \in Socket \cup {NoSocket} /\ sentMessages \in [Socket -> SUBSET Message]
        /\ awaiting \in [Message -> Socket \cup {NoSocket}] /\ moving \in [Socket -> Mover]
    BY DEF ClientInv, SocketsType
  <1>1. /\ webSocket' = NoSocket /\ \A x \in Socket \ {s} : socket[x] \notin Live
    BY DEF CloseEvent, ClientInv, CurrentIsLive, Live, Forget
  <1>2. /\ socket' = [socket EXCEPT ![s] = "closed"] /\ sentMessages' = [sentMessages EXCEPT ![s] = kept]
        /\ moving' = [o \in Socket |->
             IF o \in handlers THEN Still ELSE IF o = s /\ kept # {} THEN first ELSE moving[o]]
        /\ promise' = Reject(M) /\ awaiting' = awaiting /\ requests' \subseteq requests
    BY DEF CloseEvent
  <1>3. \A o \in Socket : o \in handlers <=> moving[o].step = "sends" /\ moving[o].to = s
    BY DEF Handlers
  <1>4. first \in Mover /\ first.step = "waits" /\ first.left = {}
    BY DEF Still, Mover
  <1>5. kept \subseteq sentMessages[s]
    OBVIOUS
  <1>6. \A m \in Message : promise'[m].state = "none" => promise[m].state = "none"
    BY <1>2, RejectIs
  <1> HIDE DEF handlers, kept, M, first
  <1>7. /\ socket' \in [Socket -> {"new", "connecting", "failed", "open", "closing", "closed"}]
        /\ socket'[s] = "closed" /\ \A x \in Socket \ {s} : socket'[x] = socket[x] /\ sentMessages'[x] = sentMessages[x]
        /\ sentMessages'[s] = kept /\ sentMessages' \in [Socket -> SUBSET Message]
    BY <1>0, <1>2, <1>5
  <1>8. moving[s].step = "none" /\ moving[s].left = {} /\ s \notin handlers
    BY <1>3 DEF ClientInv, MovingFits
  <1>9. SocketsType'
    BY <1>0, <1>1, <1>2, <1>4, <1>7, SocketIs DEF SocketsType
  <1>10. CurrentIsLive' /\ NothingSentBefore' /\ SendsNone
    BY <1>1, <1>2, <1>7, SocketIs DEF CurrentIsLive, NothingSentBefore, SendsNone, Live, ClientInv
  <1>11. \A x \in Socket : sentMessages'[x] \subseteq sentMessages[x]
    BY <1>5, <1>7
  <1>12. AwaitingFits' /\ Asked'
    BY <1>0, <1>2, <1>6, <1>7, <1>11 DEF ClientInv, AwaitingFits, Asked
  <1>13. MovingFits'
    <2> SUFFICES ASSUME NEW o \in Socket
                 PROVE  /\ moving'[o].left \subseteq sentMessages'[o]
                        /\ IF moving'[o].step = "none" THEN moving'[o].left = {} ELSE socket'[o] = "closed"
                        /\ moving'[o].step \in {"waits", "ready"} => sentMessages'[o] # {}
                        /\ moving'[o].step = "ready"
                             => moving'[o].to # NoSocket /\ socket'[moving'[o].to] \in {"connecting", "failed"}
                        /\ moving'[o].step = "sends"
                             => moving'[o].to # NoSocket /\ socket'[moving'[o].to] \in {"open", "closing"}
      BY DEF MovingFits
    <2>1. CASE o \in handlers
      BY <1>2, <2>1, SocketIs
    <2>2. CASE o = s
      BY <1>2, <1>4, <1>7, <1>8, <2>2
    <2>3. CASE o \notin handlers /\ o # s
      <3>1. moving'[o] = moving[o]
        BY <1>2, <2>3
      <3>2. moving[o].to # NoSocket => moving[o].to \in Socket
        BY <1>0 DEF Mover
      <3>3. /\ moving[o].step = "ready" => moving[o].to # NoSocket /\ socket[moving[o].to] \in {"connecting", "failed"}
            /\ moving[o].step = "sends" => moving[o].to # NoSocket /\ socket[moving[o].to] \in {"open", "closing"}
        BY DEF ClientInv, MovingFits
      <3>4. /\ moving[o].step = "ready" => moving[o].to # s
            /\ moving[o].step = "sends" => moving[o].to # s
        BY <1>3, <2>3, <3>3
      <3> QED BY <1>7, <2>3, <3>1, <3>2, <3>3, <3>4 DEF ClientInv, MovingFits
    <2> QED BY <2>1, <2>2, <2>3
  <1>14. MovedOnce'
    <2>1. ASSUME NEW o \in Socket, NEW m \in Message, ToMove(o, m)'
          PROVE  ToMove(o, m) \/ (o = s /\ m \in kept)
      <3>1. CASE o \in handlers
        BY <1>2, <2>1, <3>1, SocketIs DEF ToMove
      <3>2. CASE o = s
        BY <1>2, <1>4, <1>7, <1>8, <2>1, <3>2 DEF ToMove
      <3>3. CASE o \notin handlers /\ o # s
        BY <1>2, <1>7, <2>1, <3>3 DEF ToMove
      <3> QED BY <3>1, <3>2, <3>3
    <2> SUFFICES ASSUME NEW o \in Socket, NEW m \in Message, ToMove(o, m)'
                 PROVE  /\ \A x \in Socket : m \in sentMessages'[x] => socket'[x] = "closed"
                        /\ \A p \in Socket : ToMove(p, m)' => p = o
      BY DEF MovedOnce
    <2>2. \A x \in Socket : m \in sentMessages'[x] => socket'[x] = "closed"
      <3> SUFFICES ASSUME NEW x \in Socket, m \in sentMessages[x], x # s PROVE socket[x] = "closed"
        BY <1>7, <1>11
      <3> QED BY <1>0, <1>1 DEF ClientInv, NothingSentBefore, Live
    <2>3. \A p \in Socket : ToMove(p, m) => m \notin kept
      BY <1>5 DEF ClientInv, MovedOnce
    <2>4. \A p \in Socket : ToMove(p, m)' => p = o
      BY <2>1, <2>3 DEF ClientInv, MovedOnce
    <2> QED BY <2>2, <2>4
  <1> QED BY <1>9, <1>10, <1>12, <1>13, <1>14 DEF ClientInv


LEMMA SentKeeps ==
    ASSUME ClientInv, NEW s \in Socket, Sent(s)
    PROVE  ClientInv' /\ (SendsSome \/ SendsNone)
  <1> DEFINE t == moving[s].to
             keys == moving[s].left
  <1>0. /\ socket \in [Socket -> {"new", "connecting", "failed", "open", "closing", "closed"}]
        /\ webSocket \in Socket \cup {NoSocket} /\ sentMessages \in [Socket -> SUBSET Message]
        /\ awaiting \in [Message -> Socket \cup {NoSocket}] /\ moving \in [Socket -> Mover]
    BY DEF ClientInv, SocketsType
  <1>1. /\ moving[s].step = "sends" /\ UNCHANGED <<socket, webSocket, awaiting, promise>>
    BY DEF Sent
  <1>2. /\ t \in Socket /\ socket[t] \in {"open", "closing"} /\ t # NoSocket
        /\ socket[s] = "closed" /\ s # t
    BY <1>0, <1>1 DEF ClientInv, MovingFits, Mover
  <1>3. keys \in SUBSET Message /\ keys \subseteq sentMessages[s] /\ \A m \in keys : ToMove(s, m)
    BY <1>0, <1>1 DEF ClientInv, MovingFits, Mover, ToMove
  <1>4. CurrentIsLive'
    BY <1>1 DEF ClientInv, CurrentIsLive
  <1>5. CASE keys = {}
    <2>1. moving' = [moving EXCEPT ![s] = Still] /\ sentMessages' = sentMessages /\ requests' = requests
      BY <1>5 DEF Sent
    <2>2. moving'[s] = Still /\ moving' \in [Socket -> Mover] /\ \A o \in Socket \ {s} : moving'[o] = moving[o]
      BY <1>0, <2>1, SocketIs
    <2>3. SocketsType' /\ NothingSentBefore' /\ AwaitingFits' /\ Asked'
      BY <1>0, <1>1, <2>1, <2>2 DEF ClientInv, SocketsType, NothingSentBefore, AwaitingFits, Asked
    <2>4. MovingFits'
      BY <1>1, <2>1, <2>2, SocketIs DEF ClientInv, MovingFits
    <2>5. MovedOnce'
      <3>1. \A o \in Socket, m \in Message : ToMove(o, m)' => ToMove(o, m)
        BY <2>1, <2>2, SocketIs DEF ToMove
      <3> QED BY <1>1, <2>1, <3>1 DEF ClientInv, MovedOnce
    <2>6. SendsNone
      BY <1>1, <2>1 DEF SendsNone
    <2> QED BY <1>4, <2>3, <2>4, <2>5, <2>6 DEF ClientInv
  <1>6. CASE keys # {}
    <2> DEFINE m == Least(keys)
               next == Move(s, t, keys, socket[t])
               S == {m}
    <2>1. /\ moving' = [moving EXCEPT ![s] = next] /\ sentMessages' = [sentMessages EXCEPT ![t] = @ \cup S]
          /\ requests' = requests \/ requests' = requests \cup ({t} \X S)
      <3>1. IF socket[t] = "open" THEN requests' = requests \cup {<<t, m>>} ELSE requests' = requests
        BY <1>6 DEF Sent
      <3>2. {t} \X S = {<<t, m>>}
        OBVIOUS
      <3> QED BY <1>6, <3>1, <3>2 DEF Sent, Put
    <2>2. m \in keys /\ m \in Message
      BY <1>3, <1>6, LeastMessage
    <2>3. /\ next \in Mover /\ next.step \in {"sends", "hangs"} /\ next.to = t /\ next.left = keys \ {m}
      BY <1>2, <1>3, <2>2 DEF Move, Mover
    <2>4. S \in SUBSET Message /\ \A k : k \in S <=> k = m
      BY <2>2
    <2> HIDE DEF next, S, m
    <2>5. moving'[s] = next /\ moving' \in [Socket -> Mover] /\ \A o \in Socket \ {s} : moving'[o] = moving[o]
      BY <1>0, <2>1, <2>3
    <2>6. /\ \A x \in Socket \ {t} : sentMessages'[x] = sentMessages[x]
          /\ sentMessages'[t] = sentMessages[t] \cup S /\ sentMessages' \in [Socket -> SUBSET Message]
      BY <1>0, <1>2, <2>1, <2>4
    <2>7. S \cap sentMessages[t] = {}
      BY <1>2, <1>3, <2>2, <2>4 DEF ClientInv, MovedOnce
    <2>8. SocketsType' /\ NothingSentBefore'
      BY <1>0, <1>1, <1>2, <2>5, <2>6 DEF ClientInv, SocketsType, NothingSentBefore
    <2>9. \A k \in Message, x \in Socket : k \in sentMessages'[x] => \E y \in Socket : k \in sentMessages[y]
      BY <1>3, <2>2, <2>4, <2>6
    <2>10. AwaitingFits' /\ Asked'
      BY <1>1, <2>9 DEF ClientInv, AwaitingFits, Asked
    <2>11. MovingFits'
      BY <1>1, <1>2, <1>3, <2>3, <2>5, <2>6 DEF ClientInv, MovingFits
    <2>12. MovedOnce'
      <3>1. ASSUME NEW o \in Socket, NEW k \in Message, ToMove(o, k)'
            PROVE  ToMove(o, k) /\ k \notin S
        <4>1. CASE o = s
          BY <1>3, <2>3, <2>4, <2>5, <3>1, <4>1 DEF ToMove
        <4>2. CASE o # s
          <5>1. moving'[o] = moving[o] /\ (o = t => moving[o].step = "none")
            BY <1>2, <2>5, <4>2 DEF ClientInv, MovingFits
          <5>2. ToMove(o, k)
            BY <2>6, <3>1, <5>1 DEF ToMove
          <5>3. k # m
            BY <1>3, <2>2, <4>2, <5>2 DEF ClientInv, MovedOnce
          <5> QED BY <2>4, <5>2, <5>3
        <4> QED BY <4>1, <4>2
      <3>2. \A x \in Socket, k \in Message : k \in sentMessages'[x] => k \in sentMessages[x] \/ k \in S
        BY <2>6
      <3> QED BY <1>1, <1>2, <3>1, <3>2, MovedOnceStays DEF ClientInv
    <2>13. SendsSome
      BY <1>1, <1>2, <2>1, <2>4, <2>7 DEF SendsSome, Sends
    <2> QED BY <1>4, <2>8, <2>10, <2>11, <2>12, <2>13 DEF ClientInv
  <1> QED BY <1>5, <1>6

\* An answer is taken from the messages that wait on the socket it comes in on.
LEMMA AnswerKeeps ==
    ASSUME ClientInv, OnTheWayType, NEW s \in Socket, NEW m \in Message, NEW n \in Run, Answer(s, m, n)
    PROVE  ClientInv' /\ promise' \in [Message -> Promise]
  <1>0. sentMessages \in [Socket -> SUBSET Message] /\ promise \in [Message -> Promise]
    BY DEF ClientInv, SocketsType, OnTheWayType
  <1>1. /\ socket[s] \in {"open", "closing"} /\ UNCHANGED <<socket, webSocket, awaiting, moving>>
        /\ sentMessages' = [sentMessages EXCEPT ![s] = @ \ {m}]
        /\ promise' = promise \/ promise' = [promise EXCEPT ![m] = [state |-> "resolved", run |-> n]]
    BY DEF Answer
  <1>2. [state |-> "resolved", run |-> n] \in Promise
    BY DEF Promise
  <1>3. /\ promise' \in [Message -> Promise]
        /\ \A k \in Message : promise'[k].state = "none" => promise[k].state = "none"
    BY <1>0, <1>1, <1>2
  <1>4. /\ sentMessages' \in [Socket -> SUBSET Message]
        /\ \A x \in Socket : sentMessages'[x] \subseteq sentMessages[x] /\ (x # s => sentMessages'[x] = sentMessages[x])
    BY <1>0, <1>1
  <1>5. SocketsType' /\ CurrentIsLive' /\ NothingSentBefore' /\ AwaitingFits' /\ Asked'
    BY <1>1, <1>3, <1>4
       DEF ClientInv, SocketsType, CurrentIsLive, NothingSentBefore, AwaitingFits, Asked
  <1>6. MovingFits'
    BY <1>1, <1>4 DEF ClientInv, MovingFits
  <1>7. MovedOnce'
    <2>1. \A o \in Socket, k \in Message : ToMove(o, k)' => ToMove(o, k)
      BY <1>1, <1>4 DEF ToMove
    <2> QED BY <1>1, <1>4, <2>1 DEF ClientInv, MovedOnce
  <1> QED BY <1>3, <1>5, <1>6, <1>7 DEF ClientInv

LEMMA ClientRests ==
    ASSUME ClientInv, UNCHANGED <<socket, webSocket, sentMessages, awaiting, moving, promise>>
    PROVE  ClientInv'
  BY DEF ClientInv, SocketsType, CurrentIsLive, NothingSentBefore, AwaitingFits, MovingFits, MovedOnce, ToMove, Asked

LEMMA ClientInit ==
    ASSUME Init
    PROVE  ClientInv /\ OnTheWayType /\ AnswersOnce
  <1>1. SocketsType /\ OnTheWayType
    BY SocketIs, ConnectionAssumption DEF Init, SocketsType, OnTheWayType, Promise, Unknown
  <1>2. CurrentIsLive /\ NothingSentBefore /\ AwaitingFits /\ MovingFits /\ MovedOnce /\ Asked
    BY SocketIs DEF Init, CurrentIsLive, NothingSentBefore, AwaitingFits, MovingFits, MovedOnce, ToMove, Asked, Live
  <1>3. AnswersOnce
    BY DEF Init, AnswersOnce, OneEach, Awaits, Known, Serves, Unknown
  <1> QED BY <1>1, <1>2, <1>3 DEF ClientInv


\* What was sent over s becomes fewer things, and the client still expects the answer.
LEMMA Fewer ==
    ASSUME NEW s, NEW m, OneEach(s, m), m \in sentMessages[s] => m \in sentMessages'[s],
           <<s, m>> \in requests' => <<s, m>> \in requests, Known(s, m)' => Known(s, m),
           \A n \in Run : (Serves(s, m, n)' => Serves(s, m, n)) /\ (<<s, m, n>> \in answers' => <<s, m, n>> \in answers)
    PROVE  OneEach(s, m)'
  BY DEF OneEach, Awaits

LEMMA SendsNoneAnswers ==
    ASSUME AnswersOnce, SendsNone, UNCHANGED <<messages, run>>, answers' \subseteq answers
    PROVE  AnswersOnce'
  <1> SUFFICES ASSUME NEW s \in Socket, NEW m \in Message, socket'[s] # "closed" PROVE OneEach(s, m)'
    BY DEF AnswersOnce
  <1>1. OneEach(s, m) /\ sentMessages'[s] = sentMessages[s] /\ requests' \subseteq requests
    BY DEF AnswersOnce, SendsNone
  <1> QED BY <1>1, Fewer DEF Known, Serves

LEMMA SendsSomeAnswers ==
    ASSUME ClientInv, AnswersOnce, SendsSome, UNCHANGED <<messages, run, answers>>
    PROVE  AnswersOnce'
  <1>1. PICK t \in Socket, S \in SUBSET Message : Sends(t, S)
    BY DEF SendsSome
  <1> SUFFICES ASSUME NEW s \in Socket, NEW m \in Message, socket'[s] # "closed" PROVE OneEach(s, m)'
    BY DEF AnswersOnce
  <1>2. OneEach(s, m)
    BY <1>1 DEF AnswersOnce, Sends
  <1>3. \A x \in Socket : sentMessages'[x] = IF x = t THEN sentMessages[x] \cup S ELSE sentMessages[x]
    BY <1>1 DEF Sends, ClientInv, SocketsType
  <1>4. <<s, m>> \in requests' => <<s, m>> \in requests \/ (s = t /\ m \in S)
    BY <1>1 DEF Sends
  <1>5. CASE s = t /\ m \in S
    <2>1. m \notin sentMessages[s] /\ m \in sentMessages'[s]
      BY <1>1, <1>3, <1>5 DEF Sends
    <2>2. ~Awaits(s, m)
      BY <1>2, <2>1 DEF OneEach
    <2> QED BY <2>1, <2>2 DEF OneEach, Awaits, Known, Serves
  <1>6. CASE ~(s = t /\ m \in S)
    BY <1>2, <1>3, <1>4, <1>6, Fewer DEF Known, Serves
  <1> QED BY <1>5, <1>6

LEMMA AnswerAnswers ==
    ASSUME ClientInv, AnswersOnce, NEW s \in Socket, NEW m \in Message, NEW n \in Run, Answer(s, m, n)
    PROVE  AnswersOnce'
  <1>1. /\ <<s, m, n>> \in answers /\ answers' = answers \ {<<s, m, n>>}
        /\ sentMessages' = [sentMessages EXCEPT ![s] = @ \ {m}]
        /\ UNCHANGED <<socket, requests, messages, run>>
    BY DEF Answer, server
  <1> SUFFICES ASSUME NEW x \in Socket, NEW k \in Message, socket[x] # "closed" PROVE OneEach(x, k)'
    BY <1>1 DEF AnswersOnce
  <1>2. OneEach(x, k)
    BY DEF AnswersOnce
  <1>3. CASE x = s /\ k = m
    <2>1. ~Awaits(x, k)'
      BY <1>1, <1>2, <1>3 DEF OneEach, Awaits, Known, Serves
    <2> QED BY <2>1 DEF OneEach, Awaits
  <1>4. CASE ~(x = s /\ k = m)
    <2>1. k \in sentMessages[x] => k \in sentMessages'[x]
      BY <1>1, <1>4 DEF ClientInv, SocketsType
    <2> QED BY <1>1, <1>2, <2>1, Fewer DEF Known, Serves
  <1> QED BY <1>3, <1>4

-----------------------------------------------------------------------------
(* The steps of the server.                                                *)

\* Only what one message became changes.
LEMMA OthersStay ==
    ASSUME AnswersOnce, UNCHANGED <<socket, sentMessages>>,
           NEW m \in Message,
           \A s \in Socket, k \in Message \ {m} :
              /\ <<s, k>> \in requests' => <<s, k>> \in requests
              /\ \A n \in Run : <<s, k, n>> \in answers' => <<s, k, n>> \in answers,
           \A k \in Message \ {m} : messages'[k] = messages[k] /\ \A n \in Run : run'[k][n].senders = run[k][n].senders,
           \A s \in Socket : OneEach(s, m) => OneEach(s, m)'
    PROVE  AnswersOnce'
  <1> SUFFICES ASSUME NEW s \in Socket, NEW k \in Message, socket[s] # "closed" PROVE OneEach(s, k)'
    BY DEF AnswersOnce
  <1>1. OneEach(s, k)
    BY DEF AnswersOnce
  <1>2. CASE k = m
    BY <1>1, <1>2
  <1>3. CASE k # m
    <2>1. <<s, k>> \in requests' => <<s, k>> \in requests
      BY <1>3
    <2>2. Known(s, k)' => Known(s, k)
      BY <1>3 DEF Known
    <2>3. \A n \in Run : (Serves(s, k, n)' => Serves(s, k, n)) /\ (<<s, k, n>> \in answers' => <<s, k, n>> \in answers)
      BY <1>3 DEF Serves
    <2>4. k \in sentMessages[s] => k \in sentMessages'[s]
      OBVIOUS
    <2> QED BY <1>1, <2>1, <2>2, <2>3, <2>4, Fewer
  <1> QED BY <1>2, <1>3

LEMMA BeginServes ==
    ASSUME ServerInv, NEW m \in Message
    PROVE  \A k \in Message, n \in Run : Begin(m)[k][n].senders = run[k][n].senders
  <1> DEFINE i == Cardinality(Runs(m)) + 1
  <1>1. run \in [Message -> [Run -> RunRecord]]
    BY DEF ServerInv, ServerType
  <1>2. Begin(m) = [run EXCEPT ![m][i].step = "runs"]
    BY DEF Begin
  <1> HIDE DEF i
  <1>3. Begin(m) = [run EXCEPT ![m] = [run[m] EXCEPT ![i] = [run[m][i] EXCEPT !.step = "runs"]]]
    BY <1>2
  <1>4. \A k \in Message \ {m} : Begin(m)[k] = run[k]
    BY <1>1, <1>3
  <1>5. Begin(m)[m] = [run[m] EXCEPT ![i] = [run[m][i] EXCEPT !.step = "runs"]] /\ run[m] \in [Run -> RunRecord]
    BY <1>1, <1>3
  <1>6. ASSUME NEW n \in Run PROVE Begin(m)[m][n].senders = run[m][n].senders
    <2>1. run[m][n] \in RunRecord
      BY <1>5
    <2>2. Begin(m)[m][n] = run[m][n] \/ Begin(m)[m][n] = [run[m][n] EXCEPT !.step = "runs"]
      BY <1>5
    <2> QED BY <2>1, <2>2 DEF RunRecord
  <1> QED BY <1>4, <1>6

LEMMA ReceiveAnswers ==
    ASSUME ServerInv, OnTheWayType, AnswersOnce, NEW s \in Socket, NEW m \in Message, Receive(s, m)
    PROVE  AnswersOnce'
  <1>1. /\ <<s, m>> \in requests /\ requests' = requests \ {<<s, m>>} /\ Received(s, m)
        /\ UNCHANGED <<socket, sentMessages>>
    BY DEF Receive, client
  <1>2. messages \in [Message -> Entry]
    BY DEF ServerInv, ServerType
  <1>3. \A k \in Message, n \in Run : run'[k][n].senders = run[k][n].senders
    BY <1>1, BeginServes DEF Received
  <1>4. \A k \in Message \ {m} : messages'[k] = messages[k]
    BY <1>1, <1>2 DEF Received
  <1>5. \A x \in Socket, n \in Run : Serves(x, m, n)' = Serves(x, m, n)
    BY <1>3 DEF Serves
  <1>6. \/ /\ answers' = answers /\ \A x \in Socket : Known(x, m)' => Known(x, m) \/ x = s
        \/ /\ messages[m].result \in Run /\ answers' = answers \cup {<<s, m, messages[m].result>>}
           /\ \A x \in Socket : ~Known(x, m)'
    <2>1. CASE messages[m].state = "none"
      <3>1. messages'[m].senders = {s}
        BY <1>1, <1>2, <2>1 DEF Received, Unknown
      <3> QED BY <1>1, <2>1, <3>1 DEF Received, Known
    <2>2. CASE messages[m].state = "processing"
      <3>1. messages'[m].senders = messages[m].senders \cup {s}
        BY <1>1, <1>2, <2>2 DEF Received, Entry
      <3> QED BY <1>1, <2>2, <3>1 DEF Received, Known
    <2>3. CASE messages[m].state = "complete" /\ s \in up
      <3>1. messages'[m].senders = {} /\ answers' = answers \cup {<<s, m, messages[m].result>>}
        BY <1>1, <1>2, <2>3 DEF Received, Unknown
      <3> QED BY <2>3, <3>1 DEF Known, OnTheWayType
    <2>4. CASE messages[m].state = "complete" /\ s \notin up
      BY <1>1, <2>4 DEF Received, Known
    <2> QED BY <1>2, <2>1, <2>2, <2>3, <2>4 DEF Entry
  <1>7. ASSUME NEW x \in Socket, OneEach(x, m) PROVE OneEach(x, m)'
    <2>1. CASE x = s
      <3>1. \A n \in Run : ~Serves(x, m, n) /\ <<x, m, n>> \notin answers
        BY <1>1, <1>7, <2>1 DEF OneEach
      <3>2. ~Known(x, m) /\ m \in sentMessages'[x] /\ <<x, m>> \notin requests'
        BY <1>1, <1>7, <2>1 DEF OneEach, Awaits
      <3>3. /\ \A n \in Run : ~Serves(x, m, n)'
            /\ \A n, k \in Run : <<x, m, n>> \in answers' /\ <<x, m, k>> \in answers' => n = k
            /\ \A n \in Run : <<x, m, n>> \in answers' => ~Known(x, m)'
        BY <1>5, <1>6, <3>1
      <3> QED BY <3>2, <3>3 DEF OneEach, Awaits
    <2>2. CASE x # s
      <3>1. <<x, m>> \in requests' => <<x, m>> \in requests
        BY <1>1
      <3>2. \A n \in Run : <<x, m, n>> \in answers' => <<x, m, n>> \in answers
        BY <1>6, <2>2
      <3>3. Known(x, m)' => Known(x, m)
        BY <1>6, <2>2
      <3> QED BY <1>1, <1>5, <1>7, <3>1, <3>2, <3>3, Fewer
    <2> QED BY <2>1, <2>2
  <1>8. \A x \in Socket, k \in Message \ {m} :
          /\ <<x, k>> \in requests' => <<x, k>> \in requests
          /\ \A n \in Run : <<x, k, n>> \in answers' => <<x, k, n>> \in answers
    BY <1>1, <1>6
  <1> QED BY <1>1, <1>3, <1>4, <1>7, <1>8, OthersStay

LEMMA CompleteAnswers ==
    ASSUME ServerInv, AnswersOnce, NEW m \in Message, NEW n \in Run, Complete(m, n)
    PROVE  AnswersOnce'
  <1> DEFINE r == [step |-> "sends", senders |-> messages[m].senders]
  <1>1. UNCHANGED <<socket, sentMessages, requests, answers>> /\ run[m][n].step = "runs"
    BY DEF Complete, client
  <1>2. messages \in [Message -> Entry] /\ run \in [Message -> [Run -> RunRecord]] /\ messages[m].state = "processing"
    BY <1>1 DEF ServerInv, ServerType, RunsKnown
  <1>3. /\ messages' = [messages EXCEPT ![m] = [state |-> "complete", senders |-> {}, result |-> n]]
        /\ run' = [run EXCEPT ![m][n] = r]
    BY <1>2 DEF Complete
  <1>4. r.senders = messages[m].senders
    OBVIOUS
  <1> HIDE DEF r
  <1>5. run' = [run EXCEPT ![m] = [run[m] EXCEPT ![n] = r]] /\ run[m] \in [Run -> RunRecord]
    BY <1>2, <1>3
  <1>6. /\ \A k \in Message \ {m} : run'[k] = run[k] /\ messages'[k] = messages[k]
        /\ run'[m][n] = r /\ \A k \in Run \ {n} : run'[m][k] = run[m][k]
        /\ messages'[m].senders = {}
    BY <1>2, <1>3, <1>5
  <1>7. ASSUME NEW x \in Socket, OneEach(x, m) PROVE OneEach(x, m)'
    <2>1. ~Known(x, m)' /\ (Serves(x, m, n)' <=> Known(x, m))
      BY <1>4, <1>6 DEF Known, Serves
    <2>2. \A k \in Run \ {n} : Serves(x, m, k)' <=> Serves(x, m, k)
      BY <1>6 DEF Serves
    <2> QED BY <1>1, <1>7, <2>1, <2>2 DEF OneEach, Awaits
  <1> QED BY <1>1, <1>6, <1>7, OthersStay

LEMMA SendResultAnswers ==
    ASSUME ServerInv, AnswersOnce, NEW m \in Message, NEW n \in Run, SendResult(m, n)
    PROVE  AnswersOnce' /\ answers' \subseteq answers \cup (Socket \X {m} \X {n})
  <1> DEFINE to == run[m][n].senders \cap up
             r == [step |-> IF to = {} THEN "ended" ELSE "sent", senders |-> {}]
  <1>1. /\ UNCHANGED <<socket, sentMessages, requests, messages>>
        /\ answers' = answers \cup {<<s, m, n>> : s \in to} /\ run' = [run EXCEPT ![m][n] = r]
    BY DEF SendResult, client
  <1>2. run \in [Message -> [Run -> RunRecord]]
    BY DEF ServerInv, ServerType
  <1>3. r.senders = {} /\ to \subseteq run[m][n].senders /\ to \subseteq Socket
    BY <1>2 DEF RunRecord
  <1> HIDE DEF r, to
  <1>4. run' = [run EXCEPT ![m] = [run[m] EXCEPT ![n] = r]] /\ run[m] \in [Run -> RunRecord]
    BY <1>1, <1>2
  <1>5. /\ \A k \in Message \ {m} : run'[k] = run[k]
        /\ run'[m][n] = r /\ \A k \in Run \ {n} : run'[m][k] = run[m][k]
    BY <1>2, <1>4
  <1>6. ASSUME NEW x \in Socket, OneEach(x, m) PROVE OneEach(x, m)'
    <2>1. ~Serves(x, m, n)' /\ (x \in to => Serves(x, m, n)) /\ (Known(x, m)' <=> Known(x, m))
      BY <1>1, <1>3, <1>5 DEF Known, Serves
    <2>2. \A k \in Run \ {n} : Serves(x, m, k)' <=> Serves(x, m, k)
      BY <1>5 DEF Serves
    <2>3. \A k \in Run : <<x, m, k>> \in answers' <=> <<x, m, k>> \in answers \/ (k = n /\ x \in to)
      BY <1>1
    <2> QED BY <1>1, <1>6, <2>1, <2>2, <2>3 DEF OneEach, Awaits
  <1>7. \A x \in Socket, k \in Message \ {m}, i \in Run : <<x, k, i>> \in answers' => <<x, k, i>> \in answers
    BY <1>1
  <1> QED BY <1>1, <1>3, <1>5, <1>6, <1>7, OthersStay

\* The server forgets, and sends nothing.
LEMMA ForgetsAnswers ==
    ASSUME AnswersOnce, UNCHANGED <<socket, sentMessages>>, requests' \subseteq requests, answers' \subseteq answers,
           \A s \in Socket, m \in Message : Known(s, m)' => Known(s, m),
           \A s \in Socket, m \in Message, n \in Run : Serves(s, m, n)' => Serves(s, m, n)
    PROVE  AnswersOnce'
  <1> SUFFICES ASSUME NEW s \in Socket, NEW m \in Message, socket[s] # "closed" PROVE OneEach(s, m)'
    BY DEF AnswersOnce
  <1>1. OneEach(s, m)
    BY DEF AnswersOnce
  <1> QED BY <1>1, Fewer

LEMMA ServerForgets ==
    ASSUME ServerInv, AnswersOnce,
           \/ \E m \in Message : DropComplete(m) \/ (\E n \in Run : Release(m, n)) \/ (\E s \in Socket : LoseRequest(s, m))
           \/ \E s \in Socket : Leave(s)
           \/ Crash
    PROVE  AnswersOnce'
  <1>0. messages \in [Message -> Entry] /\ run \in [Message -> [Run -> RunRecord]] /\ Unknown.senders = {}
    BY DEF ServerInv, ServerType, Unknown
  <1>1. UNCHANGED <<socket, sentMessages>> /\ requests' \subseteq requests /\ answers' \subseteq answers
    BY DEF DropComplete, Release, LoseRequest, Leave, Crash, client
  <1>2. \A s \in Socket, k \in Message : Known(s, k)' => Known(s, k)
    BY <1>0 DEF DropComplete, Release, LoseRequest, Leave, Crash, Known, server
  <1>3. \A s \in Socket, k \in Message, i \in Run : Serves(s, k, i)' => Serves(s, k, i)
    <2>1. CASE \E m \in Message, n \in Run : Release(m, n)
      <3>1. PICK m \in Message, n \in Run : run' = [run EXCEPT ![m][n].step = "ended"]
        BY <2>1 DEF Release
      <3>2. run' = [run EXCEPT ![m] = [run[m] EXCEPT ![n] = [run[m][n] EXCEPT !.step = "ended"]]] /\ run[m] \in [Run -> RunRecord]
        BY <1>0, <3>1
      <3>3. /\ \A k \in Message \ {m} : run'[k] = run[k]
            /\ run'[m] = [run[m] EXCEPT ![n] = [run[m][n] EXCEPT !.step = "ended"]]
        BY <1>0, <3>2
      <3>4. \A k \in Run : run'[m][k] = run[m][k] \/ run'[m][k] = [run[m][k] EXCEPT !.step = "ended"]
        BY <3>2, <3>3
      <3>5. \A k \in Run : run'[m][k].senders = run[m][k].senders
        BY <3>2, <3>4 DEF RunRecord
      <3> QED BY <3>3, <3>5 DEF Serves
    <2>2. CASE Crash
      BY <2>2 DEF Crash, Serves
    <2>3. CASE UNCHANGED run
      BY <2>3 DEF Serves
    <2> QED BY <2>1, <2>2, <2>3 DEF DropComplete, LoseRequest, Leave, server
  <1> QED BY <1>1, <1>2, <1>3, ForgetsAnswers


-----------------------------------------------------------------------------
(* Types of what is under way.                                             *)

LEMMA CountsFit ==
    ASSUME OnTheWayType, [Next]_vars
    PROVE  tries' \in 0..failures' /\ failures' \in 0..MaxFailures
  <1>0. tries \in 0..failures /\ failures \in 0..MaxFailures /\ MaxFailures \in Nat
    BY ConnectionAssumption DEF OnTheWayType
  <1>1. CASE UNCHANGED <<tries, failures>>
    BY <1>0, <1>1
  <1>2. CASE Fail /\ tries' \in {tries, tries + 1}
    BY <1>0, <1>2 DEF Fail
  <1>3. CASE tries' = 0 /\ failures' = failures
    BY <1>0, <1>3
  <1>4. ASSUME NEW s \in Socket, Closed(s)
        PROVE  tries' \in 0..failures' /\ failures' \in 0..MaxFailures
    <2>1. \E unsent \in SUBSET Message : CloseEvent(s, unsent)
      BY <1>4 DEF Closed
    <2>2. tries' = tries
      BY <2>1 DEF CloseEvent
    <2> QED BY <1>1, <1>2, <1>4, <2>2 DEF Closed
  <1>5. ASSUME NEW s \in Socket, Client(s) \/ ConnectFails(s) \/ Pong(s) \/ Closing(s) \/ Leave(s)
        PROVE  tries' \in 0..failures' /\ failures' \in 0..MaxFailures
    <2>1. CASE Closed(s)
      BY <1>4, <2>1
    <2>2. CASE Pong(s)
      BY <1>3, <2>2 DEF Pong
    <2>3. CASE ConnectFails(s) \/ Closing(s)
      BY <1>2, <2>3 DEF ConnectFails, Closing
    <2>4. CASE Open(s) \/ Retry(s) \/ NoHeartBeat(s) \/ Timer(s) \/ Sent(s) \/ Leave(s)
      BY <1>1, <2>4 DEF Open, Retry, NoHeartBeat, Timer, Sent, Leave, client
    <2> QED BY <1>5, <2>1, <2>2, <2>3, <2>4 DEF Client
  <1>6. ASSUME NEW m \in Message, Query(m) \/ Work(m) \/ DropComplete(m)
        PROVE  tries' \in 0..failures' /\ failures' \in 0..MaxFailures
    BY <1>1, <1>6 DEF Query, Work, DropComplete, Complete, SendResult, Release, Receive, Answer, client
  <1>7. ASSUME NEW s \in Socket, NEW m \in Message, LoseRequest(s, m)
        PROVE  tries' \in 0..failures' /\ failures' \in 0..MaxFailures
    BY <1>1, <1>7 DEF LoseRequest, client
  <1>8. CASE Crash
    BY <1>2, <1>8 DEF Crash, client
  <1>9. CASE UNCHANGED vars
    BY <1>1, <1>9 DEF vars, client
  <1> QED BY <1>5, <1>6, <1>7, <1>8, <1>9 DEF Next

\* Requests, answers and served sockets when the client sends or not.
TrafficOK ==
    /\ requests \subseteq Socket \X Message /\ answers \subseteq Socket \X Message \X Run
    /\ up \subseteq Socket
    /\ \A m \in Message : messages[m].state = "complete" => messages[m].result \in Run

LEMMA ClientTraffic ==
    ASSUME OnTheWayType, SendsSome \/ SendsNone, answers' \subseteq answers, up' \subseteq Socket, messages' = messages
    PROVE  TrafficOK'
  <1>1. requests' \subseteq Socket \X Message
    BY DEF OnTheWayType, SendsSome, Sends, SendsNone
  <1> QED BY <1>1 DEF OnTheWayType, TrafficOK

LEMMA ServerTraffic ==
    ASSUME ServerInv, OnTheWayType, requests' \subseteq requests, up' \subseteq up,
           answers' \subseteq Socket \X Message \X Run,
           \A m \in Message : \/ messages'[m] = messages[m] \/ messages'[m].state # "complete"
                              \/ messages'[m].result \in Run
    PROVE  TrafficOK'
  BY DEF OnTheWayType, TrafficOK

\* What holds of the client and of what is under way.
ConnectionInv == ServerInv /\ ClientInv /\ OnTheWayType /\ AnswersOnce

LEMMA Assemble ==
    ASSUME ConnectionInv, [Next]_vars, ClientInv', TrafficOK', AnswersOnce', promise' \in [Message -> Promise]
    PROVE  ConnectionInv'
  <1>1. ServerInv' /\ tries' \in 0..failures' /\ failures' \in 0..MaxFailures
    BY ServerNext, CountsFit DEF ConnectionInv
  <1> QED BY <1>1 DEF ConnectionInv, OnTheWayType, TrafficOK

LEMMA ClientStep ==
    ASSUME ConnectionInv, [Next]_vars, NEW s \in Socket,
           Client(s) \/ ConnectFails(s) \/ Closing(s)
    PROVE  ConnectionInv'
  <1>0. ClientInv /\ OnTheWayType /\ AnswersOnce
    BY DEF ConnectionInv
  <1>1. ClientInv' /\ (SendsSome \/ SendsNone)
    <2>1. CASE Closed(s)
      <3>1. PICK unsent \in SUBSET Message : CloseEvent(s, unsent)
        BY <2>1 DEF Closed
      <3>2. socket[s] \in {"open", "closing"}
        BY <2>1 DEF Closed
      <3> QED BY <1>0, <3>1, <3>2, ClosedKeeps
    <2> QED BY <1>0, <2>1, OpenKeeps, RetryKeeps, TimerKeeps, SentKeeps, ClosingKeeps, ConnectFailsKeeps DEF Client
  <1>2. /\ answers' \subseteq answers /\ UNCHANGED <<messages, run>> /\ up' \subseteq Socket
        /\ SendsSome => answers' = answers \/ SendsNone
    <2>1. CASE Closed(s)
      <3>1. PICK unsent \in SUBSET Message : CloseEvent(s, unsent) /\ socket[s] \in {"open", "closing"}
        BY <2>1 DEF Closed
      <3>2. SendsNone
        BY <1>0, <3>1, ClosedKeeps
      <3> QED BY <1>0, <3>1, <3>2 DEF CloseEvent, server, OnTheWayType
    <2>2. CASE ~Closed(s)
      BY <1>0, <2>2 DEF Client, Open, Retry, NoHeartBeat, Timer, Sent, ConnectFails, Closing, server, OnTheWayType
    <2> QED BY <2>1, <2>2
  <1>3. AnswersOnce'
    BY <1>0, <1>1, <1>2, SendsSomeAnswers, SendsNoneAnswers
  <1>4. promise' \in [Message -> Promise]
    <2>1. CASE Closed(s)
      <3>1. PICK unsent \in SUBSET Message : CloseEvent(s, unsent)
        BY <2>1 DEF Closed
      <3>2. \E M : promise' = Reject(M)
        BY <3>1 DEF CloseEvent
      <3> QED BY <1>0, <3>2, RejectIs
    <2>2. CASE ConnectFails(s)
      <3>1. promise' = promise \/ \E M : promise' = Reject(M)
        BY <2>2 DEF ConnectFails
      <3> QED BY <1>0, <3>1, RejectIs DEF OnTheWayType
    <2>3. CASE promise' = promise
      BY <1>0, <2>3 DEF OnTheWayType
    <2> QED BY <2>1, <2>2, <2>3 DEF Client, Open, Retry, NoHeartBeat, Timer, Sent, Closing
  <1>5. TrafficOK'
    BY <1>0, <1>1, <1>2, ClientTraffic
  <1> QED BY <1>1, <1>3, <1>4, <1>5, Assemble

LEMMA MessageStep ==
    ASSUME ConnectionInv, [Next]_vars, NEW m \in Message, Query(m) \/ (\E s \in Socket, n \in Run : Answer(s, m, n))
    PROVE  ConnectionInv'
  <1>0. ClientInv /\ OnTheWayType /\ AnswersOnce
    BY DEF ConnectionInv
  <1>1. CASE Query(m)
    <2>1. ClientInv' /\ SendsSome
      BY <1>0, <1>1, QueryKeeps
    <2>2. UNCHANGED <<answers, messages, run, up>> /\ promise' = [promise EXCEPT ![m].state = "pending"]
      BY <1>1 DEF Query, server
    <2>3. promise' \in [Message -> Promise]
      <3>1. promise' = [promise EXCEPT ![m] = [promise[m] EXCEPT !.state = "pending"]] /\ promise \in [Message -> Promise]
        BY <1>0, <2>2 DEF OnTheWayType
      <3>2. [promise[m] EXCEPT !.state = "pending"] \in Promise
        BY <3>1 DEF Promise
      <3> QED BY <3>1, <3>2
    <2>4. up' \subseteq Socket /\ answers' \subseteq answers /\ messages' = messages
      BY <1>0, <2>2 DEF OnTheWayType
    <2>5. TrafficOK'
      BY <1>0, <2>1, <2>4, ClientTraffic
    <2>6. AnswersOnce'
      BY <1>0, <2>1, <2>2, SendsSomeAnswers
    <2> QED BY <2>1, <2>3, <2>5, <2>6, Assemble
  <1>2. ASSUME NEW s \in Socket, NEW n \in Run, Answer(s, m, n)
        PROVE  ConnectionInv'
    <2>1. ClientInv' /\ promise' \in [Message -> Promise] /\ AnswersOnce'
      BY <1>0, <1>2, AnswerKeeps, AnswerAnswers
    <2>2. TrafficOK'
      BY <1>0, <1>2 DEF Answer, OnTheWayType, TrafficOK, server
    <2> QED BY <2>1, <2>2, Assemble
  <1> QED BY <1>1, <1>2

LEMMA ServerStep ==
    ASSUME ConnectionInv, [Next]_vars, UNCHANGED <<socket, webSocket, sentMessages, awaiting, moving, promise>>,
           requests' \subseteq requests, up' \subseteq up,
           answers' \subseteq Socket \X Message \X Run,
           \A m \in Message : \/ messages'[m] = messages[m] \/ messages'[m].state # "complete"
                              \/ messages'[m].result \in Run,
           AnswersOnce'
    PROVE  ConnectionInv'
  <1>1. ClientInv'
    BY ClientRests DEF ConnectionInv
  <1>2. promise' \in [Message -> Promise]
    BY DEF ConnectionInv, OnTheWayType
  <1>3. TrafficOK'
    BY ServerTraffic DEF ConnectionInv
  <1> QED BY <1>1, <1>2, <1>3, Assemble


LEMMA WorkStep ==
    ASSUME ConnectionInv, [Next]_vars, NEW m \in Message, NEW n \in Run,
           Complete(m, n) \/ SendResult(m, n) \/ Release(m, n)
    PROVE  ConnectionInv'
  <1>0. /\ ServerInv /\ OnTheWayType /\ AnswersOnce
        /\ UNCHANGED <<socket, webSocket, sentMessages, awaiting, moving, promise>>
        /\ requests' \subseteq requests /\ up' \subseteq up
    BY DEF ConnectionInv, Complete, SendResult, Release, client
  <1>1. messages \in [Message -> Entry]
    BY <1>0 DEF ServerInv, ServerType
  <1>2. AnswersOnce'
    BY <1>0, CompleteAnswers, SendResultAnswers, ServerForgets
  <1>3. answers' \subseteq Socket \X Message \X Run
    <2>1. CASE SendResult(m, n)
      BY <1>0, <2>1, SendResultAnswers DEF OnTheWayType
    <2> QED BY <1>0, <2>1 DEF Complete, Release, OnTheWayType
  <1>4. \A k \in Message : \/ messages'[k] = messages[k] \/ messages'[k].state # "complete"
                           \/ messages'[k].result \in Run
    <2>1. CASE Complete(m, n)
      BY <1>1, <2>1 DEF Complete, Unknown
    <2>2. CASE SendResult(m, n)
      BY <2>2 DEF SendResult
    <2>3. CASE Release(m, n)
      BY <1>1, <2>3 DEF Release, Unknown
    <2> QED BY <2>1, <2>2, <2>3
  <1> QED BY <1>0, <1>2, <1>3, <1>4, ServerStep

LEMMA ReceiveStep ==
    ASSUME ConnectionInv, [Next]_vars, NEW s \in Socket, NEW m \in Message, Receive(s, m)
    PROVE  ConnectionInv'
  <1>0. /\ ServerInv /\ OnTheWayType /\ AnswersOnce
        /\ UNCHANGED <<socket, webSocket, sentMessages, awaiting, moving, promise>>
        /\ requests' \subseteq requests /\ up' \subseteq up /\ Received(s, m)
    BY DEF ConnectionInv, Receive, client
  <1>1. messages \in [Message -> Entry]
    BY <1>0 DEF ServerInv, ServerType
  <1>2. AnswersOnce'
    BY <1>0, ReceiveAnswers
  <1>3. answers' \subseteq Socket \X Message \X Run
    <2>1. messages[m].state = "complete" => <<s, m, messages[m].result>> \in Socket \X Message \X Run
      BY <1>0 DEF OnTheWayType
    <2> QED BY <1>0, <2>1 DEF Received, OnTheWayType
  <1>4. \A k \in Message : \/ messages'[k] = messages[k] \/ messages'[k].state # "complete"
                           \/ messages'[k].result \in Run
    <2>1. CASE messages[m].state = "none"
      BY <1>0, <1>1, <2>1 DEF Received, Unknown
    <2>2. CASE messages[m].state = "processing"
      BY <1>0, <1>1, <2>2 DEF Received, Entry
    <2>3. CASE messages[m].state = "complete"
      BY <1>0, <1>1, <2>3 DEF Received, Unknown
    <2> QED BY <1>1, <2>1, <2>2, <2>3 DEF Entry
  <1> QED BY <1>0, <1>2, <1>3, <1>4, ServerStep

LEMMA ForgetStep ==
    ASSUME ConnectionInv, [Next]_vars,
           \/ \E m \in Message : DropComplete(m) \/ (\E s \in Socket : LoseRequest(s, m))
           \/ \E s \in Socket : Leave(s)
           \/ Crash
    PROVE  ConnectionInv'
  <1>0. /\ ServerInv /\ OnTheWayType /\ AnswersOnce
        /\ UNCHANGED <<socket, webSocket, sentMessages, awaiting, moving, promise>>
        /\ requests' \subseteq requests /\ up' \subseteq up
        /\ answers' \subseteq Socket \X Message \X Run
    BY DEF ConnectionInv, OnTheWayType, DropComplete, LoseRequest, Leave, Crash, client, server
  <1>1. messages \in [Message -> Entry]
    BY <1>0 DEF ServerInv, ServerType
  <1>2. AnswersOnce'
    BY <1>0, ServerForgets
  <1>3. \A k \in Message : \/ messages'[k] = messages[k] \/ messages'[k].state # "complete"
                           \/ messages'[k].result \in Run
    <2>1. ASSUME NEW m \in Message, DropComplete(m)
          PROVE  messages' = [messages EXCEPT ![m] = Unknown]
      BY <2>1 DEF DropComplete
    <2>2. ASSUME NEW s \in Socket, Leave(s) \/ (\E m \in Message : LoseRequest(s, m))
          PROVE  messages' = messages
      BY <2>2 DEF LoseRequest, Leave, server
    <2>3. CASE Crash
      <3>1. messages' = [m \in Message |-> Unknown]
        BY <2>3 DEF Crash
      <3> QED BY <3>1 DEF Unknown
    <2>4. ASSUME NEW m \in Message, messages' = [messages EXCEPT ![m] = Unknown],
                 NEW k \in Message
          PROVE  \/ messages'[k] = messages[k]
                 \/ messages'[k].state # "complete"
      BY <1>1, <2>4 DEF Unknown
    <2> QED BY <2>1, <2>2, <2>3, <2>4
  <1> QED BY <1>0, <1>2, <1>3, ServerStep

LEMMA RestStep ==
    ASSUME ConnectionInv, [Next]_vars, (\E s \in Socket : Pong(s)) \/ UNCHANGED vars
    PROVE  ConnectionInv'
  <1>1. UNCHANGED <<socket, webSocket, sentMessages, awaiting, moving, promise, requests, answers, up, messages, run>>
    BY DEF Pong, vars, client, server
  <1>2. AnswersOnce'
    BY <1>1, ForgetsAnswers DEF ConnectionInv, Known, Serves
  <1>3. answers' \subseteq Socket \X Message \X Run
    BY <1>1 DEF ConnectionInv, OnTheWayType
  <1> QED BY <1>1, <1>2, <1>3, ServerStep

\* Every reachable state satisfies the inductive invariant of both halves: one current
\* socket, a message in the hands of one close handler, and for each socket a message was
\* sent over at most one request, sender or answer.
THEOREM ConnectionInvariant == Spec => []ConnectionInv
  <1>1. Init => ConnectionInv
    BY ServerInit, ClientInit DEF ConnectionInv
  <1>2. ConnectionInv /\ [Next]_vars => ConnectionInv'
    <2> SUFFICES ASSUME ConnectionInv, [Next]_vars PROVE ConnectionInv'
      OBVIOUS
    <2>1. ASSUME NEW m \in Message, Query(m) \/ Work(m) \/ DropComplete(m)
          PROVE  ConnectionInv'
      BY <2>1, MessageStep, WorkStep, ReceiveStep, ForgetStep DEF Work
    <2>2. ASSUME NEW s \in Socket, Client(s) \/ ConnectFails(s) \/ Pong(s) \/ Closing(s) \/ Leave(s)
          PROVE  ConnectionInv'
      BY <2>2, ClientStep, RestStep, ForgetStep
    <2>3. CASE (\E s \in Socket, m \in Message : LoseRequest(s, m)) \/ Crash
      BY <2>3, ForgetStep
    <2>4. CASE UNCHANGED vars
      BY <2>4, RestStep
    <2> QED BY <2>1, <2>2, <2>3, <2>4 DEF Next
  <1> QED BY <1>1, <1>2, PTL DEF Spec

\* Client and server have their types; the current socket is one that may be used, and
\* a close handler moves only what its socket had.
THEOREM ConnectionTypeCorrect == Spec => []ConnectionTypeOK
  <1>1. ConnectionInv => ConnectionTypeOK
    <2> SUFFICES ASSUME ConnectionInv PROVE ConnectionTypeOK
      OBVIOUS
    <2>1. SocketsType /\ CurrentIsLive /\ MovingFits /\ OnTheWayType /\ ServerType
      BY DEF ConnectionInv, ClientInv, ServerInv
    <2>2. webSocket # NoSocket => socket[webSocket] \in {"connecting", "open", "closing"}
      BY <2>1 DEF SocketsType, CurrentIsLive, Live
    <2>3. \A s \in Socket : /\ moving[s].step \in {"none", "waits", "ready", "sends", "hangs"}
                            /\ moving[s].to \in Socket \cup {NoSocket}
                            /\ moving[s].left \subseteq sentMessages[s]
      BY <2>1 DEF SocketsType, MovingFits, Mover
    <2>4. tries \in 0..MaxFailures
      BY <2>1, ConnectionAssumption DEF OnTheWayType
    <2>5. \A m \in Message : /\ promise[m].state \in {"none", "pending", "resolved", "rejected"}
                             /\ messages[m].state \in {"none", "processing", "complete"}
      BY <2>1 DEF OnTheWayType, Promise, ServerType, Entry
    <2> QED BY <2>1, <2>2, <2>3, <2>4, <2>5 DEF ConnectionTypeOK, SocketsType, OnTheWayType
  <1> QED BY <1>1, ConnectionInvariant, PTL

\* "Cube Store missed message id" is never raised (onMessage, WebSocketConnection.ts): when an
\* answer comes in on a socket, its query waits there, however often it was moved, sent
\* again and run.
THEOREM AnswersAlwaysExpected == Spec => []AnswersAreExpected
  <1>1. ConnectionInv => AnswersAreExpected
    <2> SUFFICES ASSUME ConnectionInv, NEW a \in answers, socket[a[1]] \in {"open", "closing"}
                 PROVE  a[2] \in sentMessages[a[1]]
      BY DEF AnswersAreExpected
    <2>1. PICK s \in Socket, m \in Message, n \in Run : a = <<s, m, n>>
      BY DEF ConnectionInv, OnTheWayType
    <2>2. OneEach(s, m)
      BY <2>1 DEF ConnectionInv, AnswersOnce
    <2> QED BY <2>1, <2>2 DEF OneEach, Awaits
  <1> QED BY <1>1, ConnectionInvariant, PTL
=============================================================================
