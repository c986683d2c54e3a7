----------------------------- MODULE Connection -----------------------------
(***************************************************************************)
(* The connection of an API process to Cube Store.  The client sends each  *)
(* query as a numbered message over its current web socket, and sends the  *)
(* unanswered ones again over the next one when a socket closes.  The      *)
(* server runs a message once, lets every socket it comes from wait for    *)
(* the result, and keeps a result nobody was there to take.                *)
(***************************************************************************)
EXTENDS Integers, FiniteSets

CONSTANTS
  Message,      \* ids of messages, in the order they are created
  MaxConnectRetries,
  MaxFailures   \* sockets that break, attempts to connect that fail, crashes of the server (bound)

ASSUME ConnectionAssumption ==
  /\ Message \subseteq Nat \ {0}
  /\ MaxConnectRetries \in Nat \ {0} /\ MaxFailures \in Nat

NoSocket == 0
Socket == 1..(MaxFailures + 1)
Run == Socket    \* a message is run at most once per socket

VARIABLES
  socket,        \* what the client knows of each socket; "failed" will be retried
  webSocket,     \* the current socket, if any
  sentMessages,  \* per socket, the messages that wait for an answer
  awaiting,      \* the socket whose readyPromise a query awaits
  moving,        \* per closed socket, how far its messages are moved to the next
  promise,       \* the promise each query has returned
  tries,         \* currentConnectionTry
  requests,      \* <<socket, message>> on their way
  answers,       \* <<socket, message, run>> on their way
  up,            \* the sockets the server serves
  messages,      \* messages_state of the server
  run,           \* the task of each run of a message
  failures,      \* history: counts against MaxFailures
  spent          \* history: the runs whose result was handed to a socket, dropped or lost

client == <<socket, webSocket, sentMessages, awaiting, moving, promise, tries>>
server == <<up, messages, run, spent>>
vars == <<client, requests, answers, server, failures>>

Least(S) == CHOOSE x \in S : \A y \in S : x <= y
Settled(m) == promise[m].state \in {"resolved", "rejected"}
Reject(M) == [m \in Message |->
  IF m \in M /\ ~Settled(m) THEN [state |-> "rejected", run |-> 0] ELSE promise[m]]
Fail == failures < MaxFailures /\ failures' = failures + 1

-----------------------------------------------------------------------------
(* The client. *)

Still == [step |-> "none", to |-> NoSocket, key |-> 0, left |-> {}]

\* The current socket is replaced when there is a new one.
Keep(s) == webSocket
\* It is forgotten with the event that ends it.
Forget(s) == IF webSocket = s THEN NoSocket ELSE webSocket

\* initWebSocket: the current socket, or a new one.
Fresh == {s \in Socket : socket[s] = "new"}
Target == IF webSocket # NoSocket THEN webSocket ELSE Least(Fresh)
InitWebSocket ==
  /\ webSocket # NoSocket \/ Fresh # {}
  /\ webSocket' = Target

\* What is moved from one socket to another is not kept on the other.
PutNew(t, M) == [sentMessages EXCEPT ![t] = @ \cup (M \ UNION {sentMessages[o] : o \in Socket})]
\* The messages M wait for an answer on socket t.
Put(t, M) == [sentMessages EXCEPT ![t] = @ \cup M]

\* One message of socket o after the other is put on socket t.  What is sent while
\* t is closing is only kept, and nothing settles the promise of its sendAsync.
Move(o, t, keys, state) ==
  [step |-> IF state = "open" THEN "sends" ELSE "hangs",
   to |-> t, key |-> Least(keys), left |-> keys \ {Least(keys)}]

\* The queries M and the close handlers of O have waited for socket t.
Join(M, O, t, state) ==
  IF state = "connecting"
  THEN /\ awaiting' = [m \in Message |-> IF m \in M THEN t ELSE awaiting[m]]
       /\ moving' = [o \in Socket |->
            IF o \in O THEN [Still EXCEPT !.step = "ready", !.to = t] ELSE moving[o]]
       /\ UNCHANGED <<sentMessages, requests>>
  ELSE LET sent == M \cup {Least(sentMessages[o]) : o \in O}
       IN  /\ awaiting' = [m \in Message |-> IF m \in M THEN NoSocket ELSE awaiting[m]]
           /\ moving' = [o \in Socket |->
                IF o \in O THEN Move(o, t, sentMessages[o], state) ELSE moving[o]]
           /\ sentMessages' = Put(t, sent)
           /\ requests' = IF state = "open" THEN requests \cup ({t} \X sent) ELSE requests

StateOf(t) == IF socket[t] = "new" THEN "connecting" ELSE socket[t]

\* Only the current socket has anybody waiting for it.
WaitingForCurrent(s) == {m \in Message : awaiting[m] = s /\ s = webSocket}

Waiting(s) == {m \in Message : awaiting[m] = s}
Handlers(s, step) == {o \in Socket : moving[o].to = s /\ moving[o].step = step}

\* query and sendMessage.
Query(m) ==
  /\ promise[m].state = "none" /\ \A k \in Message : k < m => promise[k].state # "none"
  /\ InitWebSocket
  /\ socket' = [socket EXCEPT ![Target] = StateOf(Target)]
  /\ promise' = [promise EXCEPT ![m].state = "pending"]
  /\ Join({m}, {}, Target, StateOf(Target))
  /\ UNCHANGED <<tries, answers, server, failures>>

\* The event 'open'.
Open(s) ==
  /\ socket[s] = "connecting"
  /\ socket' = [socket EXCEPT ![s] = "open"]
  /\ up' = up \cup {s}
  /\ Join(Waiting(s), Handlers(s, "ready"), s, "open")
  /\ UNCHANGED <<webSocket, promise, tries, answers, messages, run, spent, failures>>

\* The event 'error' of a socket that does not get to open.
ConnectFails(s) ==
  LET again == tries + 1 < MaxConnectRetries
      handlers == Handlers(s, "ready")
  IN  /\ socket[s] = "connecting" /\ Fail
      /\ tries' = tries + 1
      /\ webSocket' = Forget(s)
      /\ socket' = [socket EXCEPT ![s] = IF again THEN "failed" ELSE "closed"]
      /\ IF again THEN UNCHANGED <<awaiting, moving, promise>>
         ELSE /\ promise' = Reject(Waiting(s) \cup UNION {sentMessages[o] : o \in handlers})
              /\ awaiting' = [m \in Message |-> IF awaiting[m] = s THEN NoSocket ELSE awaiting[m]]
              /\ moving' = [o \in Socket |-> IF o \in handlers THEN Still ELSE moving[o]]
      /\ UNCHANGED <<sentMessages, requests, answers, server>>

\* The readyPromise of a socket that failed becomes that of the next.
Retry(s) ==
  /\ socket[s] = "failed"
  /\ InitWebSocket
  /\ socket' = [socket EXCEPT ![s] = "closed", ![Target] = StateOf(Target)]
  /\ Join(Waiting(s), Handlers(s, "ready"), Target, StateOf(Target))
  /\ UNCHANGED <<promise, tries, answers, server, failures>>

\* The event 'pong'.
Pong(s) ==
  /\ s = webSocket /\ socket[s] \in {"open", "closing"} /\ s \in up /\ tries # 0
  /\ tries' = 0
  /\ UNCHANGED <<socket, webSocket, sentMessages, awaiting, moving, promise, requests, answers,
                 server, failures>>

\* Either side starts to close the socket.
Closing(s) ==
  /\ socket[s] = "open" /\ Fail
  /\ socket' = [socket EXCEPT ![s] = "closing"]
  /\ UNCHANGED <<webSocket, sentMessages, awaiting, moving, promise, tries, requests, answers, server>>

\* No pong for noHeartBeatTimeout.
NoHeartBeat(s) ==
  /\ socket[s] = "open" /\ s \notin up
  /\ socket' = [socket EXCEPT ![s] = "closing"]
  /\ UNCHANGED <<webSocket, sentMessages, awaiting, moving, promise, tries, requests, answers,
                 server, failures>>

\* The event 'close'.  The queries in unsent get an error from send and are
\* forgotten; a close handler that gets one rejects all it had to move.
CloseEvent(s, unsent) ==
  LET handlers == Handlers(s, "sends")
      moved == {moving[o].key : o \in handlers}
      kept == sentMessages[s] \ unsent
  IN  /\ unsent \subseteq {m \in sentMessages[s] : <<s, m>> \in requests} \ moved
      /\ promise' = Reject(unsent \cup UNION {sentMessages[o] : o \in handlers})
      /\ sentMessages' = [sentMessages EXCEPT ![s] = kept]
      /\ moving' = [o \in Socket |->
           IF o \in handlers THEN Still
           ELSE IF o = s /\ kept # {} THEN [Still EXCEPT !.step = "waits"] ELSE moving[o]]
      /\ requests' = requests \ ({s} \X (unsent \cup moved))
      /\ answers' = {a \in answers : a[1] # s}
      /\ webSocket' = Forget(s)
      /\ socket' = [socket EXCEPT ![s] = "closed"]
      /\ UNCHANGED <<awaiting, tries, server>>

Closed(s) ==
  /\ \/ socket[s] = "closing" /\ UNCHANGED failures
     \/ socket[s] = "open" /\ Fail
  /\ \E unsent \in SUBSET Message : CloseEvent(s, unsent)

\* retryWaitTime after the event.
Timer(s) ==
  /\ moving[s].step = "waits"
  /\ InitWebSocket
  /\ socket' = [socket EXCEPT ![Target] = StateOf(Target)]
  /\ Join({}, {s}, Target, StateOf(Target))
  /\ UNCHANGED <<promise, tries, answers, server, failures>>

\* The callback of send, and the next message.
Sent(s) ==
  LET t == moving[s].to
      keys == moving[s].left
  IN  /\ moving[s].step = "sends" /\ socket[t] \in {"open", "closing"}
      /\ IF keys = {}
         THEN moving' = [moving EXCEPT ![s] = Still] /\ UNCHANGED <<sentMessages, requests>>
         ELSE /\ moving' = [moving EXCEPT ![s] = Move(s, t, keys, socket[t])]
              /\ sentMessages' = Put(t, {Least(keys)})
              /\ requests' = IF socket[t] = "open" THEN requests \cup {<<t, Least(keys)>>}
                             ELSE requests
      /\ UNCHANGED <<socket, webSocket, awaiting, promise, tries, answers, server, failures>>

\* The event 'message'.
Answer(s, m, n) ==
  /\ <<s, m, n>> \in answers /\ socket[s] \in {"open", "closing"}
  /\ answers' = answers \ {<<s, m, n>>}
  /\ sentMessages' = [sentMessages EXCEPT ![s] = @ \ {m}]
  /\ promise' = IF m \in sentMessages[s] /\ ~Settled(m)
                THEN [promise EXCEPT ![m] = [state |-> "resolved", run |-> n]] ELSE promise
  /\ UNCHANGED <<socket, webSocket, awaiting, moving, tries, requests, server, failures>>

-----------------------------------------------------------------------------
(* The server. *)

Unknown == [state |-> "none", senders |-> {}, result |-> 0]
Runs(m) == {n \in Run : run[m][n].step # "none"}
Begin(m) == [run EXCEPT ![m][Cardinality(Runs(m)) + 1].step = "runs"]

\* A message that is known is run all the same.
ReceivedAgain(s, m) ==
  /\ messages' = [messages EXCEPT ![m] = [Unknown EXCEPT !.state = "processing", !.senders = {s}]]
  /\ run' = Begin(m)
  /\ UNCHANGED <<answers, spent>>

Received(s, m) ==
  \/ /\ messages[m].state = "none"
     /\ messages' = [messages EXCEPT ![m] = [Unknown EXCEPT !.state = "processing", !.senders = {s}]]
     /\ run' = Begin(m)
     /\ UNCHANGED <<answers, spent>>
  \/ /\ messages[m].state = "processing"
     /\ messages' = [messages EXCEPT ![m].senders = @ \cup {s}]
     /\ UNCHANGED <<answers, run, spent>>
  \/ /\ messages[m].state = "complete" /\ s \in up
     /\ answers' = answers \cup {<<s, m, messages[m].result>>}
     /\ spent' = spent \cup {<<m, messages[m].result>>}
     /\ messages' = [messages EXCEPT ![m] = Unknown]
     /\ UNCHANGED run
  \/ /\ messages[m].state = "complete" /\ s \notin up
     /\ UNCHANGED <<answers, messages, run, spent>>

\* A message that was read is looked at even if its socket is gone meanwhile.
Receive(s, m) ==
  /\ <<s, m>> \in requests
  /\ requests' = requests \ {<<s, m>>}
  /\ Received(s, m)
  /\ UNCHANGED <<client, up, failures>>

\* What a socket that closed has not delivered.
LoseRequest(s, m) ==
  /\ <<s, m>> \in requests /\ socket[s] = "closed"
  /\ requests' = requests \ {<<s, m>>}
  /\ UNCHANGED <<client, answers, server, failures>>

\* To hand a result over takes less time than to run a command or to let a result
\* expire.
HandedOver(m) == \A n \in Run : run[m][n].step \notin {"sends", "sent"}

\* process_command returns, and the entry becomes the result.
Complete(m, n) ==
  /\ run[m][n].step = "runs" /\ HandedOver(m)
  /\ messages' = [messages EXCEPT ![m] =
       IF @.state = "processing" THEN [state |-> "complete", senders |-> {}, result |-> n] ELSE Unknown]
  /\ run' = [run EXCEPT ![m][n] =
       IF messages[m].state = "processing" THEN [step |-> "sends", senders |-> messages[m].senders]
       ELSE [step |-> "ended", senders |-> {}]]
  /\ UNCHANGED <<client, requests, answers, up, spent, failures>>

\* Whether there is any such socket makes no difference to the entry.
SendResultBlindly(m, n) ==
  /\ run[m][n].step = "sends"
  /\ answers' = answers \cup {<<s, m, n>> : s \in run[m][n].senders \cap up}
  /\ run' = [run EXCEPT ![m][n] = [step |-> "sent", senders |-> {}]]
  /\ spent' = IF run[m][n].senders \cap up = {} THEN spent ELSE spent \cup {<<m, n>>}
  /\ UNCHANGED <<client, requests, up, messages, failures>>

\* The result goes to every socket that is still served.
SendResult(m, n) ==
  LET to == run[m][n].senders \cap up
  IN  /\ run[m][n].step = "sends"
      /\ answers' = answers \cup {<<s, m, n>> : s \in to}
      /\ run' = [run EXCEPT ![m][n] =
           [step |-> IF to = {} THEN "ended" ELSE "sent", senders |-> {}]]
      /\ spent' = IF to = {} THEN spent ELSE spent \cup {<<m, n>>}
      /\ UNCHANGED <<client, requests, up, messages, failures>>

\* The entry is not needed any more, if it was taken.  It is not looked at whose
\* result it holds.
Release(m, n) ==
  /\ run[m][n].step = "sent"
  /\ run' = [run EXCEPT ![m][n].step = "ended"]
  /\ messages' = IF messages[m].state = "complete" THEN [messages EXCEPT ![m] = Unknown] ELSE messages
  /\ UNCHANGED <<client, requests, answers, up, spent, failures>>

\* drop_complete_messages_after.
DropComplete(m) ==
  /\ messages[m].state = "complete" /\ HandedOver(m)
  /\ spent' = spent \cup {<<m, messages[m].result>>}
  /\ messages' = [messages EXCEPT ![m] = Unknown]
  /\ UNCHANGED <<client, requests, answers, up, run, failures>>

\* The loop of a socket ends.
Leave(s) ==
  /\ s \in up /\ socket[s] \in {"closing", "closed"}
  /\ up' = up \ {s}
  /\ UNCHANGED <<client, requests, answers, messages, run, spent, failures>>

\* The server dies with all it knows, and starts again.
Crash ==
  /\ Fail
  /\ up' = {} /\ requests' = {}
  /\ messages' = [m \in Message |-> Unknown]
  /\ run' = [m \in Message |-> [n \in Run |->
       IF n \in Runs(m) THEN [step |-> "ended", senders |-> {}] ELSE run[m][n]]]
  /\ spent' = {r \in Message \X Run : r[2] \in Runs(r[1])}
  /\ UNCHANGED <<client, answers>>

-----------------------------------------------------------------------------

Init ==
  /\ socket = [s \in Socket |-> "new"] /\ webSocket = NoSocket
  /\ sentMessages = [s \in Socket |-> {}]
  /\ awaiting = [m \in Message |-> NoSocket]
  /\ moving = [s \in Socket |-> Still]
  /\ promise = [m \in Message |-> [state |-> "none", run |-> 0]]
  /\ tries = 0 /\ failures = 0
  /\ requests = {} /\ answers = {} /\ up = {} /\ spent = {}
  /\ messages = [m \in Message |-> Unknown]
  /\ run = [m \in Message |-> [n \in Run |-> [step |-> "none", senders |-> {}]]]

Client(s) == Open(s) \/ Retry(s) \/ NoHeartBeat(s) \/ Closed(s) \/ Timer(s) \/ Sent(s)
Work(m) ==
  \/ \E n \in Run : Complete(m, n) \/ SendResult(m, n) \/ Release(m, n)
  \/ \E s \in Socket : Receive(s, m) \/ \E n \in Run : Answer(s, m, n)

Next ==
  \/ \E m \in Message : Query(m) \/ Work(m) \/ DropComplete(m)
  \/ \E s \in Socket : Client(s) \/ ConnectFails(s) \/ Pong(s) \/ Closing(s) \/ Leave(s)
  \/ \E s \in Socket, m \in Message : LoseRequest(s, m)
  \/ Crash

Spec == Init /\ [][Next]_vars

\* Timers fire, sockets that begin to close do close, what is sent over a socket
\* that stays open arrives, and queries end.  Nothing has to fail.
FairSpec ==
  /\ Spec
  /\ \A s \in Socket :
       /\ WF_vars(Open(s)) /\ WF_vars(Retry(s)) /\ WF_vars(NoHeartBeat(s))
       /\ WF_vars(Closed(s) /\ UNCHANGED failures) /\ WF_vars(Timer(s)) /\ WF_vars(Sent(s))
  /\ \A m \in Message : WF_vars(Work(m))

-----------------------------------------------------------------------------
(* Properties. *)

ConnectionTypeOK ==
  /\ socket \in [Socket -> {"new", "connecting", "failed", "open", "closing", "closed"}]
  /\ webSocket # NoSocket => socket[webSocket] \in {"connecting", "open", "closing"}
  /\ sentMessages \in [Socket -> SUBSET Message]
  /\ awaiting \in [Message -> Socket \cup {NoSocket}]
  /\ \A s \in Socket : /\ moving[s].step \in {"none", "waits", "ready", "sends", "hangs"}
                       /\ moving[s].to \in Socket \cup {NoSocket}
                       /\ moving[s].left \subseteq sentMessages[s]
  /\ \A m \in Message : promise[m].state \in {"none", "pending", "resolved", "rejected"}
  /\ requests \subseteq Socket \X Message /\ answers \subseteq Socket \X Message \X Run
  /\ up \subseteq Socket /\ tries \in 0..MaxFailures
  /\ \A m \in Message : messages[m].state \in {"none", "processing", "complete"}

\* "Cube Store missed message id" is never raised: whatever socket an answer comes
\* in on, its query waits there, however often it was moved and answered.
AnswersAreExpected ==
  \A a \in answers : socket[a[1]] \in {"open", "closing"} => a[2] \in sentMessages[a[1]]

\* A message that is sent again while it runs is not run a second time.
RunsAlone == \A m \in Message : Cardinality({n \in Run : run[m][n].step = "runs"}) <= 1

\* A message is only run again if every result of it was given to a socket that
\* was served, has expired, or went with the server.
RerunsOnlyIfSpent ==
  [][\A m \in Message, n \in Run :
       n \in Runs(m)' \ Runs(m) => \A k \in Runs(m) : <<m, k>> \in spent]_vars

\* "If socket is closing this message should be resent" (WebSocketConnection.ts): a
\* query that has no answer yet waits on a socket that is not closed, or on one
\* whose messages will still be moved.
PendingIsKept ==
  \A m \in Message : promise[m].state = "pending" =>
    \/ awaiting[m] # NoSocket
    \/ \E s \in Socket : m \in sentMessages[s] /\
         \/ socket[s] \in {"open", "closing"}
         \/ moving[s].step \in {"waits", "ready"}
         \/ moving[s].step = "sends" /\ m \in moving[s].left

\* Every query ends, with its answer or with an error.
QueriesEnd == \A m \in Message : promise[m].state = "pending" ~> Settled(m)
=============================================================================
