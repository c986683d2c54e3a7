------------------------------ MODULE JobQueue ------------------------------
(***************************************************************************)
(* What the query queue promises its callers, with neither rows, keys,     *)
(* events nor clocks: a job is queued at most once per path, at most       *)
(* Concurrency jobs run, a job ends once, and whoever waits for a job is   *)
(* answered with the outcome of a finished job it asked for, or not at all.*)
(***************************************************************************)
EXTENDS Naturals, FiniteSets

CONSTANTS Path, Concurrency, None, Caller, MaxId

Job == 1..MaxId

VARIABLES
  job,      \* job[j]: how far job j is
  path,     \* path[j]: the path job j was submitted for
  asked,    \* asked[c]: the job or the path caller c last asked for
  answer    \* answer[c]: the job whose outcome c has been given

jobVars == <<job, path, asked, answer>>

Live == {j \in Job : job[j] \in {"queued", "running"}}
Running == {j \in Job : job[j] = "running"}

Init ==
  /\ job = [j \in Job |-> "new"]
  /\ path = [j \in Job |-> None]
  /\ asked = [c \in Caller |-> None]
  /\ answer = [c \in Caller |-> None]

\* A path with a live job gets no second one.
Submit(p, j) ==
  /\ job[j] = "new"
  /\ \A k \in Live : path[k] # p
  /\ job' = [job EXCEPT ![j] = "queued"]
  /\ path' = [path EXCEPT ![j] = p]
  /\ UNCHANGED <<asked, answer>>

Start(j) ==
  /\ job[j] = "queued"
  /\ Cardinality(Running) < Concurrency
  /\ job' = [job EXCEPT ![j] = "running"]
  /\ UNCHANGED <<path, asked, answer>>

Finish(j) ==
  /\ j \in Live
  /\ job' = [job EXCEPT ![j] = "finished"]
  /\ UNCHANGED <<path, asked, answer>>

\* Cancelled, expired, or wiped with the rest of the queue.
Drop(J) ==
  /\ J # {} /\ J \subseteq Live
  /\ job' = [j \in Job |-> IF j \in J THEN "dropped" ELSE job[j]]
  /\ UNCHANGED <<path, asked, answer>>

Ask(c, what) ==
  /\ asked' = [asked EXCEPT ![c] = what]
  /\ answer' = [answer EXCEPT ![c] = None]
  /\ UNCHANGED <<job, path>>

\* Only the outcome of a finished job that was asked for is ever given.
Answer(c, j) ==
  /\ answer[c] = None
  /\ job[j] = "finished"
  /\ asked[c] = j \/ asked[c] = path[j]
  /\ answer' = [answer EXCEPT ![c] = j]
  /\ UNCHANGED <<job, path, asked>>

Next ==
  \/ \E j \in Job : Start(j) \/ Finish(j) \/ \E p \in Path : Submit(p, j)
  \/ \E J \in SUBSET Live : Drop(J)
  \/ \E c \in Caller : \/ \E what \in Job \cup Path : Ask(c, what)
                       \/ \E j \in Job : Answer(c, j)

Spec == Init /\ [][Next]_jobVars
=============================================================================
