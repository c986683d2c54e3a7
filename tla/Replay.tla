------------------------------- MODULE Replay -------------------------------
(***************************************************************************)
(* How Cube Store keeps the rows of a streaming table.  The stream job     *)
(* reads rows with growing sequence numbers, writes a replay handle with   *)
(* the range it read, and puts the rows into chunks that live in the       *)
(* memory of the workers.  Compaction moves chunks to disk, joins small    *)
(* ones in memory, and marks the handle of a chunk whose worker restarted  *)
(* as failed.  The scheduler merges handles that have no chunks left.      *)
(* Where a stream starts follows from the handles alone.                   *)
(***************************************************************************)
EXTENDS Integers, FiniteSets

CONSTANTS
  Part,       \* partitions of the table, each on a worker of its own
  PartOf,     \* the partition that the row of a sequence number goes to
  MaxSeq,     \* rows the source will ever have (bound)
  MaxHandle,  \* replay handles ever created (bound)
  MaxCrash,   \* restarts of workers (bound)
  Faults      \* what may go wrong: "crash", "ingest", "stop"

Seq1 == 1..MaxSeq
HandleId == 1..MaxHandle
NoHandle == 0
NoSpan == [start |-> 0, end |-> 0]   \* SeqPointer { None, None }
Span == {s \in [start : Seq1, end : Seq1] : s.start <= s.end}
Chunk == [part : Part, rows : SUBSET Seq1, handle : HandleId, mem : BOOLEAN]

ASSUME ReplayAssumption ==
  /\ MaxSeq \in Nat /\ MaxHandle \in Nat /\ MaxCrash \in Nat
  /\ PartOf \in [Seq1 -> Part]
  /\ Faults \subseteq {"crash", "ingest", "stop"}

VARIABLES
  handle,     \* the rows of ReplayHandle: id -> its range and its failed flag
  next,       \* the id the next handle gets
  chunk,      \* the active in-memory chunks; mem: the worker still has the data
  disk,       \* the rows in persistent chunks
  pc,         \* where stream_table is: "down", "reading", "created", "added"
  initial,    \* initial_seq_value of the running stream (0 is None)
  pos,        \* the first row the running stream has not ingested
  batch,      \* the replay handle of the batch in flight
  pending,    \* the chunks of that batch, not yet active
  work,       \* per partition: what its in-memory compaction has left to do
  merge,      \* what merge_replay_handles has read and not yet written
  crashes,    \* restarts so far
  skipped     \* history: the steps so far that a row may have been lost in

streamVars == <<pc, initial, pos, batch, pending>>
vars == <<handle, next, chunk, disk, streamVars, work, merge, crashes, skipped>>

-----------------------------------------------------------------------------
(* SeqPointer. *)

MinOf(S) == CHOOSE x \in S : \A y \in S : x <= y
MaxOf(S) == CHOOSE x \in S : \A y \in S : x >= y

\* Everything from the first to the last row of some of the ranges S: what
\* lies between two ranges counts as well.
Union(S) ==
  LET R == S \ {NoSpan}
  IN  IF R = {} THEN NoSpan
      ELSE [start |-> MinOf({r.start : r \in R}), end |-> MaxOf({r.end : r \in R})]

\* The end may come before the start.
SubtractBlindly(s, S) ==
  IF s = NoSpan THEN NoSpan
  ELSE [s EXCEPT !.end = MinOf({s.end} \cup {r.start - 1 : r \in S \ {NoSpan}})]

\* SeqPointer::subtract_from_right, once for each range of S: s without what lies
\* at or after the start of one of them.
SubtractFromRight(s, S) ==
  LET end == MinOf({s.end} \cup {r.start : r \in S \ {NoSpan}})
  IN  IF s = NoSpan \/ end <= s.start THEN NoSpan ELSE [s EXCEPT !.end = end]

Covers(s, t) == t = NoSpan \/ (s # NoSpan /\ s.start <= t.start /\ t.end <= s.end)

-----------------------------------------------------------------------------
(* Replay handles. *)

Handles == DOMAIN handle
Failed == {h \in Handles : handle[h].failed}
Sound == Handles \ Failed
Spans(H) == {handle[h].span : h \in H}

\* Failures are not looked at.
InitialSeqOfSound == Union(Spans(Sound)).end

\* initial_seq_for: the row a stream that starts now begins with, 0 for none.
InitialSeq ==
  SubtractFromRight(Union(Spans(Sound)), {Union(Spans(Failed))}).end

\* A chunk that is neither active nor pending has lost its handle id.
NoActiveChunks(h) == \A c \in chunk : c.handle # h

AddHandle(span) ==
  /\ next <= MaxHandle
  /\ handle' = [h \in Handles \cup {next} |->
                  IF h = next THEN [span |-> span, failed |-> FALSE] ELSE handle[h]]
  /\ next' = next + 1

MarkFailed(h) ==
  handle' = [k \in Handles |-> IF k = h THEN [handle[k] EXCEPT !.failed = TRUE]
                                        ELSE handle[k]]

-----------------------------------------------------------------------------
(* The stream job. *)

Down ==
  /\ pc' = "down" /\ initial' = 0 /\ pos' = 1
  /\ batch' = NoHandle /\ pending' = {}

StreamStart ==
  /\ pc = "down"
  /\ pc' = "reading"
  /\ initial' = InitialSeq
  \* From the first row when there is no handle to go by: the offset "earliest".
  /\ pos' = IF InitialSeq = 0 THEN 1 ELSE InitialSeq
  /\ UNCHANGED <<batch, pending, handle, next, chunk, disk, work, merge, crashes, skipped>>

\* "Stream requires replay": the job is deleted and scheduled again.
RequireReplay ==
  /\ pc = "reading" /\ pos <= MaxSeq
  /\ InitialSeq < initial
  /\ Down
  /\ UNCHANGED <<handle, next, chunk, disk, work, merge, crashes, skipped>>

\* The rows pos..last have arrived.
CreateHandle(last) ==
  /\ pc = "reading" /\ last \in pos..MaxSeq
  /\ AddHandle([start |-> pos, end |-> last])
  /\ pc' = "created" /\ batch' = next
  /\ UNCHANGED <<initial, pos, pending, chunk, disk, work, merge, crashes, skipped>>

\* partition_data: a chunk for each partition that one of the rows goes to.
AddMemoryChunks ==
  /\ pc = "created"
  /\ LET rows == handle[batch].span.start..handle[batch].span.end
         in(p) == {s \in rows : PartOf[s] = p}
     IN  pending' = {[part |-> p, rows |-> in(p), handle |-> batch, mem |-> TRUE] :
                       p \in {q \in Part : in(q) # {}}}
  /\ pc' = "added"
  /\ UNCHANGED <<initial, pos, batch, handle, next, chunk, disk, work, merge, crashes, skipped>>

ActivateChunks ==
  /\ pc = "added"
  /\ chunk' = chunk \cup pending
  /\ pos' = handle[batch].span.end + 1
  /\ pc' = "reading" /\ batch' = NoHandle /\ pending' = {}
  /\ UNCHANGED <<initial, handle, next, disk, work, merge, crashes, skipped>>

\* Stale stream timeout, an error of the source or a restart between batches.
StreamStop ==
  /\ "stop" \in Faults
  /\ pc = "reading"
  /\ Down
  /\ UNCHANGED <<handle, next, chunk, disk, work, merge, crashes, skipped>>

\* An error or a restart once the batch has its handle, before its chunks are active.
IngestFails ==
  /\ "ingest" \in Faults
  /\ pc \in {"created", "added"}
  /\ Down
  /\ skipped' = skipped \cup {"ingest"}
  /\ UNCHANGED <<handle, next, chunk, disk, work, merge, crashes>>

-----------------------------------------------------------------------------
(* Compaction of the in-memory chunks of a partition, on its worker. *)

Idle == [mark |-> {}, drop |-> {}, join |-> {}, new |-> NoHandle, flush |-> {}]
Ready(p, part) == work[p][part] # {}

\* Chunks without data are marked and dropped; the others are kept in memory
\* or flushed, by size and age.  A single chunk that stays in memory is left alone.
CompactStart(p, keep) ==
  LET here == {c \in chunk : c.part = p}
      lost == {c \in here : ~c.mem}
  IN  /\ work[p] = Idle /\ here # {} /\ keep \subseteq here \ lost
      /\ work' = [work EXCEPT ![p] =
           [mark |-> lost, drop |-> lost, new |-> NoHandle,
            join |-> IF Cardinality(keep) > 1 THEN keep ELSE {},
            flush |-> (here \ lost) \ keep]]
      /\ UNCHANGED <<handle, next, chunk, disk, streamVars, merge, crashes, skipped>>

\* update_replay_handle_failed_if_exists, for one lost chunk after the other.
MarkLost(p) ==
  \E c \in work[p].mark :
    /\ MarkFailed(c.handle)
    /\ work' = [work EXCEPT ![p].mark = @ \ {c}]
    /\ UNCHANGED <<next, chunk, disk, streamVars, merge, crashes, skipped>>

DropLostEarly(p) ==
  /\ Ready(p, "drop")
  /\ chunk' = chunk \ work[p].drop
  /\ work' = [work EXCEPT ![p].drop = {}]
  /\ UNCHANGED <<handle, next, disk, streamVars, merge, crashes, skipped>>

\* deactivate_chunks_without_check, once all are marked.
DropLost(p) ==
  /\ ~Ready(p, "mark") /\ Ready(p, "drop")
  /\ chunk' = chunk \ work[p].drop
  /\ work' = [work EXCEPT ![p].drop = {}]
  /\ UNCHANGED <<handle, next, disk, streamVars, merge, crashes, skipped>>

\* merge_replay_handles of compaction.rs, for the chunks that are joined.
JoinHandles(p) ==
  /\ ~Ready(p, "drop") /\ Ready(p, "join") /\ work[p].new = NoHandle
  /\ AddHandle(Union(Spans({c.handle : c \in work[p].join} \cap Handles)))
  /\ work' = [work EXCEPT ![p].new = next]
  /\ UNCHANGED <<chunk, disk, streamVars, merge, crashes, skipped>>

JoinChunks(p) ==
  /\ work[p].new # NoHandle
  /\ LET rows == UNION {c.rows : c \in work[p].join}
     IN  chunk' = (chunk \ work[p].join)
                    \cup {[part |-> p, rows |-> rows, handle |-> work[p].new, mem |-> TRUE]}
  /\ work' = [work EXCEPT ![p].join = {}, ![p].new = NoHandle]
  /\ UNCHANGED <<handle, next, disk, streamVars, merge, crashes, skipped>>

\* The persistent chunk has no replay handle.
FlushChunks(p) ==
  /\ ~Ready(p, "drop") /\ ~Ready(p, "join") /\ Ready(p, "flush")
  /\ chunk' = chunk \ work[p].flush
  /\ disk' = disk \cup UNION {c.rows : c \in work[p].flush}
  /\ work' = [work EXCEPT ![p].flush = {}]
  /\ UNCHANGED <<handle, next, streamVars, merge, crashes, skipped>>

\* The worker of p restarts: its memory and what it was doing are gone.
Crash(p) ==
  LET wiped(c) == IF c.part = p THEN [c EXCEPT !.mem = FALSE] ELSE c
  IN  /\ "crash" \in Faults /\ crashes < MaxCrash
      /\ chunk' = {wiped(c) : c \in chunk}
      /\ pending' = {wiped(c) : c \in pending}
      /\ work' = [work EXCEPT ![p] = Idle]
      /\ crashes' = crashes + 1
      /\ UNCHANGED <<handle, next, disk, pc, initial, pos, batch, merge, skipped>>

-----------------------------------------------------------------------------
(* merge_replay_handles of the scheduler: one read, then one write. *)

NoMerge == [ids |-> {}, insert |-> FALSE, span |-> NoSpan]
InFlight == ({batch} \cup {work[p].new : p \in Part}) \ {NoHandle}

\* The failed ranges that no replay covers are not left out.
MergedWithFailed(quiet, rest) == Union(Spans(quiet \cup rest))

Merged(quiet, rest) ==
  LET all == Union(Spans(quiet))
  IN  IF rest = {} THEN all ELSE SubtractFromRight(all, Spans(rest))

\* Handles up to age are older than a minute; ingesting a batch and joining
\* chunks are taken to be faster than that.
MergeRead(age) ==
  LET quiet == {h \in Sound : h <= age /\ NoActiveChunks(h)}
      after(f) == Union(Spans({h \in Sound : h > f}))
      covered == {f \in Failed : Covers(after(f), handle[f].span)}
      rest == Failed \ covered
      ids == quiet \cup {f \in covered : NoActiveChunks(f)}
  IN  /\ merge = NoMerge /\ Sound # {} /\ ids # {}
      /\ \A h \in InFlight : age < h
      /\ merge' = [ids |-> ids, insert |-> quiet # {} \/ rest # {},
                   span |-> Merged(quiet, rest)]
      /\ UNCHANGED <<handle, next, chunk, disk, streamVars, work, crashes, skipped>>

\* replace_replay_handles: an error when a handle is gone or has active chunks.
ReplaceHandles ==
  LET allowed == merge.ids \subseteq Handles /\ \A h \in merge.ids : NoActiveChunks(h)
      stay == Handles \ merge.ids
      new == IF merge.insert THEN {next} ELSE {}
  IN  /\ merge # NoMerge /\ (merge.insert => next <= MaxHandle)
      /\ IF allowed
         THEN /\ handle' = [h \in stay \cup new |->
                              IF h \in stay THEN handle[h]
                              ELSE [span |-> merge.span, failed |-> FALSE]]
              /\ next' = next + Cardinality(new)
              /\ skipped' = IF merge.ids \cap Failed = {} THEN skipped
                            ELSE skipped \cup {"covered"}
         ELSE UNCHANGED <<handle, next, skipped>>
      /\ merge' = NoMerge
      /\ UNCHANGED <<chunk, disk, streamVars, work, crashes>>

-----------------------------------------------------------------------------

Init ==
  /\ handle = <<>> /\ next = 1
  /\ chunk = {} /\ disk = {}
  /\ pc = "down" /\ initial = 0 /\ pos = 1 /\ batch = NoHandle /\ pending = {}
  /\ work = [p \in Part |-> Idle]
  /\ merge = NoMerge /\ crashes = 0 /\ skipped = {}

Stream ==
  \/ StreamStart \/ RequireReplay \/ AddMemoryChunks \/ ActivateChunks
  \/ StreamStop \/ IngestFails
  \/ \E last \in Seq1 : CreateHandle(last)

Compaction(p) ==
  \/ \E keep \in SUBSET chunk : CompactStart(p, keep)
  \/ MarkLost(p) \/ DropLost(p) \/ JoinHandles(p) \/ JoinChunks(p) \/ FlushChunks(p)
  \/ Crash(p)

Scheduler == ReplaceHandles \/ \E age \in 0..MaxHandle : MergeRead(age)

Next == Stream \/ Scheduler \/ \E p \in Part : Compaction(p)

Spec == Init /\ [][Next]_vars

-----------------------------------------------------------------------------
(* Properties. *)

ReplayTypeOK ==
  /\ Handles \subseteq HandleId
  /\ \A h \in Handles : handle[h] \in [span : Span \cup {NoSpan}, failed : BOOLEAN]
  /\ next \in 1..(MaxHandle + 1) /\ \A h \in Handles : h < next
  /\ chunk \subseteq Chunk /\ pending \subseteq Chunk /\ disk \subseteq Seq1
  /\ pc \in {"down", "reading", "created", "added"}
  /\ initial \in 0..MaxSeq /\ pos \in 1..(MaxSeq + 1)
  /\ batch \in HandleId \cup {NoHandle}
  /\ work \in [Part -> [mark : SUBSET Chunk, drop : SUBSET Chunk, join : SUBSET Chunk,
                        new : HandleId \cup {NoHandle}, flush : SUBSET Chunk]]
  /\ merge \in [ids : SUBSET HandleId, insert : BOOLEAN, span : Span \cup {NoSpan}]
  /\ crashes \in 0..MaxCrash /\ skipped \subseteq {"ingest", "covered"}

\* A row is stored when it is on disk or in an active chunk, even one that
\* lost its data: the next compaction marks the handle of that one.
Stored == disk \cup UNION {c.rows : c \in chunk}

Kept(s) ==
  \/ s \in Stored
  \/ InitialSeq <= s
  \/ pc # "down" /\ pos <= s

\* Every row is stored, or will be read by the running stream or by the next
\* one, whatever workers restart and wherever streams stop between batches,
\* merges and compactions: a failed batch and a failed handle that counts as
\* replayed are the only steps that can lose one.
RowsKept == skipped = {} => \A s \in Seq1 : Kept(s)

\* A chunk leaves the table with its rows stored elsewhere, or with a handle
\* that is marked as failed and covers all of its rows.
LossIsRecorded ==
  [][\A c \in chunk \ chunk' :
       \/ c.rows \subseteq Stored'
       \/ /\ c.handle \in Failed'
          /\ \A s \in c.rows : Covers(handle'[c.handle].span, [start |-> s, end |-> s])]_vars

\* Merging handles that did not fail never moves the start of the stream forward.
MergeKeepsStart ==
  [][ReplaceHandles /\ Failed' = Failed => InitialSeq' <= InitialSeq]_vars

\* "For failed ReplayHandle we always try to find if subsequent ReplayHandle
\* already covered due to replay so we can safely remove it" (scheduler/mod.rs):
\* every row of a failed handle that is removed is kept.
CoveredIsReplayed ==
  [][\A f \in Failed \ Handles' :
       \A s \in handle[f].span.start..handle[f].span.end : Kept(s)']_vars
=============================================================================
