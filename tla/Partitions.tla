----------------------------- MODULE Partitions -----------------------------
(***************************************************************************)
(* The partitions and chunks of one index in the metastore of Cube Store.  *)
(* Imports add chunks to active partitions; compaction merges chunks and   *)
(* the file of a partition into new partitions and swaps them in;          *)
(* repartition moves chunks that were left on an inactive partition;       *)
(* garbage collection removes what nobody is supposed to use any more.     *)
(* Each write of the metastore is atomic, and the jobs run for a long time *)
(* between the metastore they read and the swap they ask for.              *)
(***************************************************************************)
EXTENDS Integers, FiniteSets

CONSTANTS
  MaxKey,    \* sort keys are 1..MaxKey
  Batch,     \* what is imported, each by one job
  KeysOf,    \* the sort keys of the rows of a batch
  Worker,    \* processing loops, each with one job at a time
  MaxPart,   \* partitions ever created (bound)
  MaxChunk,  \* chunks ever created (bound)
  MaxFaults  \* jobs that fail or are taken for orphaned (bound)

Key == 1..MaxKey
PartId == 1..MaxPart
ChunkId == 1..MaxChunk
NoPart == 0
Row == {r \in Batch \X Key : r[2] \in KeysOf[r[1]]}

\* The lower bound 0 and the upper bound MaxKey + 1 are the None of the code.
Top == MaxKey + 1
Partition == [state : {"none", "active", "inactive", "gone"}, lo : 0..Top, hi : 0..Top,
              parent : PartId \cup {NoPart}, rows : SUBSET Row]
ChunkRow == [state : {"none", "created", "active", "inactive", "gone"},
             part : PartId \cup {NoPart}, rows : SUBSET Row]

ASSUME PartitionsAssumption ==
  /\ MaxKey \in Nat \ {0} /\ MaxPart \in Nat \ {0} /\ MaxChunk \in Nat
  /\ KeysOf \in [Batch -> SUBSET Key]
  /\ MaxFaults \in Nat

VARIABLES
  part,       \* the table of partitions
  chunk,      \* the table of chunks; "created" is neither uploaded nor active
  files,      \* the partitions whose file is in remote storage
  work,       \* what each worker does
  doomed,     \* the chunks DeleteChunks has found inactive and not yet deleted
  posted,     \* the partitions with a DeleteMiddleManPartition task in the queue
  ready,      \* is_ready of the table
  committed,  \* history: the batches whose chunks were activated
  faults      \* history: how many jobs failed or were orphaned

vars == <<part, chunk, files, work, doomed, posted, ready, committed, faults>>

-----------------------------------------------------------------------------
(* Partitions and chunks. *)

Is(p, state) == part[p].state = state
Exists(p) == p # NoPart /\ part[p].state \in {"active", "inactive"}
Active == {p \in PartId : Is(p, "active")}
HasChunk(p) == \E c \in ChunkId :
  chunk[c].part = p /\ chunk[c].state \in {"created", "active", "inactive"}
ActiveChunks == {c \in ChunkId : chunk[c].state = "active"}

Span(p) == {k \in Key : part[p].lo <= k /\ k < part[p].hi}
SameRange(p, q) == part[p].lo = part[q].lo /\ part[p].hi = part[q].hi

Keys(rows) == {r[2] : r \in rows}
Least(S) == CHOOSE x \in S : \A y \in S : x <= y

\* The index JustCreated: no rows, no bounds, not active.
JustCreated(p) ==
  Is(p, "inactive") /\ part[p].rows = {} /\ part[p].lo = 0 /\ part[p].hi = Top

FreshParts(n) == {p \in PartId : Is(p, "none") /\ Cardinality({q \in 1..p : Is(q, "none")}) <= n}
FreshChunks(n) == {c \in ChunkId : chunk[c].state = "none"
                     /\ Cardinality({d \in 1..c : chunk[d].state = "none"}) <= n}

-----------------------------------------------------------------------------
(* Jobs.  A worker that is busy has: what its job is about, whether the job *)
(* row is still there, the chunks to replace, the partitions or chunks it   *)
(* has created, what is to go into them, and what was idle and what had     *)
(* been posted when it started.                                             *)

Idle == [pc |-> "idle", of |-> 0, owner |-> FALSE, old |-> {}, new |-> {}, plan |-> {},
         seen |-> {}, kept |-> {}, after |-> {}]

Busy == {w \in Worker : work[w].pc # "idle"}

\* Jobs are told apart by their workers.
NoJobHere(kind, of) == \E w \in Worker : w \notin Busy

\* add_job: one job for each partition or chunk, as far as the table knows.
NoJob(kind, of) ==
  \A w \in Busy : work[w].owner => ~(work[w].pc \in kind /\ work[w].of = of)
CompactJob == {"compact", "created", "written"}
MoveJob == {"move", "moved"}
ImportJob == {"import", "imported"}

Begin(w, pc, of, old, plan) ==
  work' = [work EXCEPT ![w] =
    [pc |-> pc, of |-> of, owner |-> TRUE, old |-> old, new |-> {}, plan |-> plan,
     seen |-> {p \in PartId : Is(p, "inactive")},
     kept |-> {c \in ChunkId : chunk[c].state = "created"},
     after |-> posted]]
End(w) == work' = [work EXCEPT ![w] = Idle]

\* Once import_job_timeout has passed no job is left that ran before: what was
\* inactive or created since then was so already when every running job began.
OutlivedParts(p) == \A w \in Busy : p \in work[w].seen
OutlivedChunk(c) == \A w \in Busy : c \in work[w].kept

\* A restart, an error or a timeout.  A job that has written nothing yet might as
\* well not have begun.
JobFails(w) ==
  /\ work[w].new # {}
  /\ faults < MaxFaults /\ faults' = faults + 1
  /\ End(w)
  /\ UNCHANGED <<part, chunk, files, doomed, posted, ready, committed>>

\* remove_orphaned_jobs: no heart beat for two minutes, but the worker goes on.
OrphanJob(w) ==
  /\ w \in Busy /\ work[w].owner
  /\ faults < MaxFaults /\ faults' = faults + 1
  /\ work' = [work EXCEPT ![w].owner = FALSE]
  /\ UNCHANGED <<part, chunk, files, doomed, posted, ready, committed>>

-----------------------------------------------------------------------------
(* partition_rows_for_index: rows go to the active partitions there are.    *)

Homeless(rows) == {r \in rows : \A p \in Active : r[2] \notin Span(p)}
FirstFor(r) == Least({p \in Active : r[2] \in Span(p)})
Assigned(rows) ==
  LET home == {FirstFor(r) : r \in rows}
  IN  {[part |-> p, rows |-> {r \in rows : FirstFor(r) = p}] : p \in home}

\* Rows without a partition: "Probably partition metadata is lost".
Assign(w, pc, of, old, rows) ==
  IF Homeless(rows) = {}
  THEN Begin(w, pc, of, old, Assigned(rows)) /\ UNCHANGED ready
  ELSE ready' = FALSE /\ UNCHANGED work

\* add_chunk_columns for each partition: nobody looks whether it is still there.
CreateChunks(w, from, to) ==
  LET new == FreshChunks(Cardinality(work[w].plan))
  IN  /\ work[w].pc = from
      /\ Cardinality(new) = Cardinality(work[w].plan)
      /\ \E at \in [new -> work[w].plan] :
           /\ \A x \in work[w].plan : \E c \in new : at[c] = x
           /\ chunk' = [c \in ChunkId |->
                IF c \in new THEN [state |-> "created", part |-> at[c].part, rows |-> at[c].rows]
                             ELSE chunk[c]]
      /\ work' = [work EXCEPT ![w].pc = to, ![w].new = new, ![w].plan = {}]
      /\ UNCHANGED <<part, files, doomed, posted, ready, committed, faults>>

SetChunks(off, on) ==
  chunk' = [c \in ChunkId |->
    IF c \in off THEN [chunk[c] EXCEPT !.state = "inactive"]
    ELSE IF c \in on THEN [chunk[c] EXCEPT !.state = "active"] ELSE chunk[c]]

(* Import. *)

ImportStart(w, b) ==
  /\ w \notin Busy /\ b \notin committed
  /\ \A v \in Worker : ~(work[v].pc \in ImportJob /\ work[v].of = b)
  /\ Assign(w, "import", b, {}, {r \in Row : r[1] = b})
  /\ UNCHANGED <<part, chunk, files, doomed, posted, committed, faults>>

ImportCreate(w) == CreateChunks(w, "import", "imported")

\* activate_chunks: all chunks of the batch, and their partitions, are there.
Activate(w) ==
  LET new == work[w].new
      there == \A c \in new : chunk[c].state # "gone" /\ Exists(chunk[c].part)
  IN  /\ work[w].pc = "imported"
      /\ SetChunks({}, IF there THEN new ELSE {})
      /\ committed' = IF there THEN committed \cup {work[w].of} ELSE committed
      /\ End(w)
      /\ UNCHANGED <<part, files, doomed, posted, ready, faults>>

(* repartition_chunk. *)

MoveStart(w, c) ==
  /\ w \notin Busy
  /\ chunk[c].state = "active" /\ Is(chunk[c].part, "inactive")
  /\ NoJob(MoveJob, c)
  /\ Assign(w, "move", c, {c}, chunk[c].rows)
  /\ UNCHANGED <<part, chunk, files, doomed, posted, committed, faults>>

MoveCreate(w) == CreateChunks(w, "move", "moved")

\* Whether the source is still active is not looked at.
MaySwapBlindly(w) == \A c \in work[w].new : chunk[c].state = "created" /\ Exists(chunk[c].part)

\* swap_chunks_impl: the source is active, the new chunks are there.
MaySwap(w) ==
  /\ \A c \in work[w].old : chunk[c].state = "active" /\ Exists(chunk[c].part)
  /\ \A c \in work[w].new : chunk[c].state = "created" /\ Exists(chunk[c].part)

SwapChunks(w) ==
  /\ work[w].pc = "moved"
  /\ IF MaySwap(w) THEN SetChunks(work[w].old, work[w].new) ELSE UNCHANGED chunk
  /\ End(w)
  /\ UNCHANGED <<part, files, doomed, posted, ready, committed, faults>>

-----------------------------------------------------------------------------
(* Compaction of a partition. *)

\* The chunks are some of the active ones, by size.
CompactStart(w, p, old) ==
  /\ w \notin Busy
  /\ Is(p, "active") /\ NoJob(CompactJob, p)
  /\ old # {} /\ old \subseteq {c \in ActiveChunks : chunk[c].part = p}
  /\ Begin(w, "compact", p, old, {})
  /\ UNCHANGED <<part, chunk, files, doomed, posted, ready, committed, faults>>

\* create_partition for each child; nobody looks whether the parent is still there.
CreateChildren(w, n) ==
  LET new == FreshParts(n)
  IN  /\ work[w].pc = "compact" /\ Cardinality(new) = n
      /\ part' = [p \in PartId |->
           IF p \in new THEN [state |-> "inactive", lo |-> 0, hi |-> Top,
                              parent |-> work[w].of, rows |-> {}]
                        ELSE part[p]]
      /\ work' = [work EXCEPT ![w].pc = "created", ![w].new = new]
      /\ UNCHANGED <<chunk, files, doomed, posted, ready, committed, faults>>

\* The file was removed after not_used_timeout: the table is deactivated unless
\* the row of the partition is gone as well.
Missing(w) == part[work[w].of].rows # {} /\ work[w].of \notin files
DownloadFails(w) ==
  /\ work[w].pc = "created" /\ Missing(w)
  /\ ready' = (ready /\ ~Exists(work[w].of))
  /\ End(w)
  /\ UNCHANGED <<part, chunk, files, doomed, posted, committed, faults>>

\* A key may be the first of the second piece although nothing is below it.
PiecesFromLeast(p, rows, n) ==
  {{[lo |-> part[p].lo, hi |-> part[p].hi, rows |-> rows]}}
  \cup {LET below == {r \in rows : r[2] < k}
        IN  {[lo |-> part[p].lo, hi |-> k, rows |-> below],
             [lo |-> k, hi |-> part[p].hi, rows |-> rows \ below]} :
        k \in {k \in Keys(rows) : n = 2}}

\* What goes into the children: one piece with the bounds of the partition, or
\* one below and one from a key on.  The lower bound of the first of two is the
\* least key there is, unless the partition has none.
Pieces(p, rows, n) ==
  {{[lo |-> part[p].lo, hi |-> part[p].hi, rows |-> rows]}}
  \cup {LET below == {r \in rows : r[2] < k}
        IN  {[lo |-> IF part[p].lo = 0 THEN 0 ELSE Least(Keys(below)), hi |-> k, rows |-> below],
             [lo |-> k, hi |-> part[p].hi, rows |-> rows \ below]} :
        k \in {k \in Keys(rows) : n = 2 /\ k # Least(Keys(rows))}}

\* write_to_files, upload_file for each piece, delete_partition for the children
\* that got none (an error when one of those is gone).
WriteFiles(w) ==
  LET p == work[w].of
      rows == part[p].rows \cup UNION {chunk[c].rows : c \in work[w].old}
  IN  /\ work[w].pc = "created" /\ ~Missing(w)
      /\ \E plan \in Pieces(p, rows, Cardinality(work[w].new)) :
         \E used \in SUBSET work[w].new :
           LET spare == work[w].new \ used
           IN  /\ Cardinality(used) = Cardinality(plan)
               /\ \A u \in used, s \in spare : u < s
               /\ files' = files \cup used
               /\ IF \A s \in spare : Exists(s)
                  THEN /\ part' = [q \in PartId |-> IF q \in spare
                                     THEN [part[q] EXCEPT !.state = "gone"] ELSE part[q]]
                       /\ work' = [work EXCEPT ![w].pc = "written", ![w].new = used,
                                               ![w].plan = plan]
                  ELSE UNCHANGED part /\ End(w)
      /\ UNCHANGED <<chunk, doomed, posted, ready, committed, faults>>

\* swap_active_partitions_impl: the partition and the chunks that were read are
\* active still, and the children are there.
MayReplace(w) ==
  /\ Is(work[w].of, "active")
  /\ \A c \in work[w].old : chunk[c].state = "active"
  /\ \A p \in work[w].new : Is(p, "inactive")

\* Chunks that were not compacted always go along with the first child.
ReparentedAlways(w) == work[w].new # {}

\* Chunks that were not compacted go along with a single child, if its bounds
\* are those of the partition.  They are compared as create_partition returned
\* them, which is without bounds.
Reparented(w) == Cardinality(work[w].new) = 1 /\ part[work[w].of].lo = 0 /\ part[work[w].of].hi = Top

SwapPartitions(w) ==
  LET p == work[w].of
      old == work[w].old
      child == Least(work[w].new)
  IN  /\ work[w].pc = "written"
      /\ IF MayReplace(w)
         THEN /\ \E at \in [work[w].new -> work[w].plan] :
                   /\ \A x, y \in work[w].new : x < y => at[x].lo < at[y].lo
                   /\ part' = [q \in PartId |->
                        IF q = p THEN [part[q] EXCEPT !.state = "inactive"]
                        ELSE IF q \in work[w].new
                        THEN [part[q] EXCEPT !.state = "active", !.lo = at[q].lo,
                                             !.hi = at[q].hi, !.rows = at[q].rows]
                        ELSE part[q]]
              /\ chunk' = [c \in ChunkId |->
                   IF c \in old THEN [chunk[c] EXCEPT !.state = "inactive"]
                   ELSE IF chunk[c].part = p /\ Reparented(w)
                   THEN [chunk[c] EXCEPT !.part = child] ELSE chunk[c]]
         ELSE UNCHANGED <<part, chunk>>
      /\ End(w)
      /\ UNCHANGED <<files, doomed, posted, ready, committed, faults>>

-----------------------------------------------------------------------------
(* Garbage collection. *)

\* RemoveRemoteFile, not_used_timeout after the partition became inactive: long
\* after the queries that read it, but jobs may run longer.
RemoveFile(p) ==
  /\ Is(p, "inactive") /\ part[p].rows # {} /\ p \in files
  /\ files' = files \ {p}
  /\ UNCHANGED <<part, chunk, work, doomed, posted, ready, committed, faults>>

\* DeleteChunks: the chunks are read outside of the write loop ...
PickChunks(C) ==
  /\ doomed = {} /\ C # {}
  /\ \A c \in C :
       \/ chunk[c].state = "inactive"
       \/ chunk[c].state = "created" /\ OutlivedChunk(c)
  /\ doomed' = C
  /\ UNCHANGED <<part, chunk, files, work, posted, ready, committed, faults>>

\* ... and then deleted without checks.
DeleteChunks ==
  /\ doomed # {}
  /\ chunk' = [c \in ChunkId |-> IF c \in doomed THEN [chunk[c] EXCEPT !.state = "gone"]
                                                 ELSE chunk[c]]
  /\ doomed' = {}
  /\ UNCHANGED <<part, files, work, posted, ready, committed, faults>>

Children(p) == {q \in PartId : Exists(q) /\ part[q].parent = p}

\* It was never filled, so it was there and inactive ever since it was first listed.
DeletePartition(p) ==
  /\ JustCreated(p) /\ OutlivedParts(p)
  /\ ~HasChunk(p) /\ Children(p) = {}
  /\ part' = [part EXCEPT ![p].state = "gone"]
  /\ UNCHANGED <<chunk, files, work, doomed, posted, ready, committed, faults>>

IsMiddleMan(p) ==
  /\ Is(p, "inactive") /\ Exists(part[p].parent) /\ SameRange(p, part[p].parent)
  /\ ~HasChunk(p)

\* delete_middle_man_partitions: for each of them the first deadline stays.  Among
\* them may be a child that a compaction has yet to fill, as it has no bounds yet.
PostMiddleMen ==
  LET found == {p \in PartId : IsMiddleMan(p)} \ posted
  IN  /\ found # {}
      /\ posted' = posted \cup found
      /\ work' = [w \in Worker |-> [work[w] EXCEPT !.after = @ \ found]]
      /\ UNCHANGED <<part, chunk, files, doomed, ready, committed, faults>>

\* Its children keep the parent they have.
BypassedByNone(p) == [part EXCEPT ![p].state = "gone"]

\* Its children get its parent.
BypassedBy(p) == [q \in PartId |->
  IF q = p THEN [part[q] EXCEPT !.state = "gone"]
  ELSE IF q \in Children(p) THEN [part[q] EXCEPT !.parent = part[p].parent] ELSE part[q]]

\* import_job_timeout later, when no job is left that ran before, only the partition
\* as it is now is looked at: it may have been filled and compacted since then.
DeleteMiddleMan(p) ==
  /\ p \in posted /\ \A w \in Busy : p \in work[w].after
  /\ posted' = posted \ {p}
  /\ part' = IF IsMiddleMan(p) THEN BypassedBy(p) ELSE part
  /\ UNCHANGED <<chunk, files, work, doomed, ready, committed, faults>>

-----------------------------------------------------------------------------

NoPartition == [state |-> "none", lo |-> 0, hi |-> Top, parent |-> NoPart, rows |-> {}]

Init ==
  /\ part = [p \in PartId |-> IF p = 1 THEN [NoPartition EXCEPT !.state = "active"]
                                       ELSE NoPartition]
  /\ chunk = [c \in ChunkId |-> [state |-> "none", part |-> NoPart, rows |-> {}]]
  /\ files = {} /\ doomed = {} /\ posted = {} /\ ready = TRUE /\ committed = {}
  /\ faults = 0
  /\ work = [w \in Worker |-> Idle]

Import(w) == ImportCreate(w) \/ Activate(w) \/ \E b \in Batch : ImportStart(w, b)

Repartition(w) == MoveCreate(w) \/ SwapChunks(w) \/ \E c \in ActiveChunks : MoveStart(w, c)

Compaction(w) ==
  \/ \E p \in PartId, old \in SUBSET ActiveChunks : CompactStart(w, p, old)
  \/ \E n \in 1..2 : CreateChildren(w, n)
  \/ DownloadFails(w) \/ WriteFiles(w) \/ SwapPartitions(w)

Collect ==
  \/ \E p \in PartId : RemoveFile(p) \/ DeletePartition(p) \/ DeleteMiddleMan(p)
  \/ PostMiddleMen
  \/ DeleteChunks \/ \E C \in SUBSET ChunkId : PickChunks(C)

Next ==
  \/ \E w \in Worker : Import(w) \/ Repartition(w) \/ Compaction(w) \/ JobFails(w) \/ OrphanJob(w)
  \/ Collect

Spec == Init /\ [][Next]_vars

-----------------------------------------------------------------------------
(* Properties. *)

PartitionsTypeOK ==
  /\ part \in [PartId -> Partition]
  /\ \A p \in Active : p = 1 \/ part[p].rows # {}
  /\ chunk \in [ChunkId -> ChunkRow]
  /\ files \subseteq PartId /\ doomed \subseteq ChunkId /\ posted \subseteq PartId
  /\ ready \in BOOLEAN /\ committed \subseteq Batch
  /\ \A w \in Worker :
       /\ work[w].pc \in {"idle"} \cup CompactJob \cup MoveJob \cup ImportJob
       /\ work[w].old \subseteq ChunkId
       /\ work[w].new \subseteq (IF work[w].pc \in CompactJob THEN PartId ELSE ChunkId)

\* What a query that is planned now reads a row from.
Sources(r) ==
  {<<"file", p>> : p \in {q \in Active : r \in part[q].rows}}
    \cup {<<"chunk", c>> : c \in {d \in ActiveChunks : r \in chunk[d].rows}}

\* A query reads every row of an imported batch exactly once, and no other row,
\* however imports, compactions, repartitions, lost jobs and garbage collection
\* interleave.
RowsOnce ==
  \A r \in Row : Cardinality(Sources(r)) = IF r[1] \in committed THEN 1 ELSE 0

\* Active partitions divide the keys among them, so that an import finds a place
\* for each row, and a row is where the bounds of its partition say.
RangesTile ==
  /\ \A k \in Key : Cardinality({p \in Active : k \in Span(p)}) = 1
  /\ \A p \in Active : Keys(part[p].rows) \subseteq Span(p)
  /\ \A c \in ActiveChunks : Keys(chunk[c].rows) \subseteq Span(chunk[c].part)

\* No partition that holds rows or was left by a compaction lacks its parent, no
\* active chunk its partition, no active partition its file.  Only an unfilled child,
\* which no query reads, may have lost its parent, and only after a fault: to a
\* compaction that went on while its partition was compacted a second time and
\* deleted as a middle man.
TreeIsWhole ==
  /\ \A p \in PartId : Exists(p) /\ part[p].parent # NoPart =>
       Exists(part[p].parent) \/ (JustCreated(p) /\ faults > 0)
  /\ \A c \in ActiveChunks : Exists(chunk[c].part)
  /\ \A p \in Active : part[p].rows # {} => p \in files

\* A table is deactivated as corrupt when an import finds no partition for a row or
\* a compaction no file for its partition.  Nothing of the kind happens as long as
\* no job fails and none is taken for orphaned: two compactions of one partition
\* are what it takes, and garbage collection between them.
StaysReady == ready \/ faults > 0
=============================================================================
