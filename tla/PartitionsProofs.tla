-------------------------- MODULE PartitionsProofs --------------------------
(***************************************************************************)
(* Theorems about Partitions, for any number of keys, batches, workers,    *)
(* partitions, chunks and faults.                                          *)
(***************************************************************************)
EXTENDS Partitions, FiniteSetTheorems, TLAPS

-----------------------------------------------------------------------------
(* The inductive invariant.                                                *)

Compacts(w) == work[w].pc \in CompactJob
Places(w) == work[w].pc \in MoveJob \cup ImportJob

Piece == [lo : 0..Top, hi : 0..Top, rows : SUBSET Row]
Place == [part : PartId, rows : SUBSET Row]
Job == [pc : {"idle"} \cup CompactJob \cup MoveJob \cup ImportJob,
        of : {0} \cup PartId \cup ChunkId \cup Batch, owner : BOOLEAN,
        old : SUBSET ChunkId, new : SUBSET (PartId \cup ChunkId),
        plan : SUBSET (Piece \cup Place), seen : SUBSET PartId, kept : SUBSET ChunkId,
        after : SUBSET PartId]

\* A partition that no compaction is still to fill: its bounds and its rows stay.
Settled(p) == p \in PartId /\ ~Is(p, "none") /\ \A w \in Worker : Compacts(w) => p \notin work[w].new

\* The rows of a partition are within its bounds, and the bound it got by a split is one
\* of its keys.
PartFits(p) ==
  /\ Keys(part[p].rows) \subseteq Span(p)
  /\ part[p].lo # 0 => part[p].lo \in Keys(part[p].rows)
  /\ Is(p, "active") => Settled(p) /\ (p = 1 \/ part[p].rows # {}) /\ (part[p].rows # {} => p \in files)
PartsFit == \A p \in PartId : PartFits(p)

\* Ids are given out in order.
IdsInOrder == \A p, q \in PartId : Is(p, "none") /\ p < q => Is(q, "none")

\* A child that a stale compaction made under a partition that was deleted, and that it
\* can no longer put in its place.
Lost(p) ==
  /\ faults > 0 /\ JustCreated(p)
  /\ \A w \in Worker : Compacts(w) /\ p \in work[w].new => ~Is(work[w].of, "active")

\* Parents are older, so no partition is an ancestor of itself, and are there but for
\* children that were lost.
ParentExists(p) == Exists(p) /\ part[p].parent # NoPart =>
  /\ part[p].parent < p /\ Settled(part[p].parent)
  /\ Exists(part[p].parent) \/ Lost(p)
ParentsExist == \A p \in PartId : ParentExists(p)

\* What an inactive chunk held stays known: a stale compaction may still read it.
ChunkFits(c) ==
  /\ chunk[c].state # "none" => /\ Settled(chunk[c].part) /\ chunk[c].rows # {}
                                /\ Keys(chunk[c].rows) \subseteq Span(chunk[c].part)
  /\ chunk[c].state = "active" => Exists(chunk[c].part)
  /\ c \in doomed => chunk[c].state \in {"created", "inactive"}
ChunksFit == \A c \in ChunkId : ChunkFits(c)

\* The active partitions divide the keys among them.
Tiled == \A k \in Key :
  /\ \E p \in Active : k \in Span(p)
  /\ \A p, q \in Active : k \in Span(p) /\ k \in Span(q) => p = q

InFile(r, p) == Is(p, "active") /\ r \in part[p].rows
InChunk(r, c) == chunk[c].state = "active" /\ r \in chunk[c].rows
\* A row of an imported batch is in one active partition or one active chunk, no other
\* row in any.
ReadOnce == \A r \in Row :
  /\ r[1] \in committed => (\E p \in PartId : InFile(r, p)) \/ (\E c \in ChunkId : InChunk(r, c))
  /\ r[1] \notin committed => (\A p \in PartId : ~InFile(r, p)) /\ (\A c \in ChunkId : ~InChunk(r, c))
  /\ \A p, q \in PartId : InFile(r, p) /\ InFile(r, q) => p = q
  /\ \A c, d \in ChunkId : InChunk(r, c) /\ InChunk(r, d) => c = d
  /\ \A p \in PartId, c \in ChunkId : ~(InFile(r, p) /\ InChunk(r, c))

Input(w) == part[work[w].of].rows \cup UNION {chunk[c].rows : c \in work[w].old}

\* One piece with the bounds of p, or two that meet at the least key of the second.
Split(p, rows, plan) ==
  \/ plan = {[lo |-> part[p].lo, hi |-> part[p].hi, rows |-> rows]}
  \/ \E k \in Keys(rows) :
       /\ part[p].lo < k /\ {r \in rows : r[2] < k} # {}
       /\ plan = {[lo |-> part[p].lo, hi |-> k, rows |-> {r \in rows : r[2] < k}],
                  [lo |-> k, hi |-> part[p].hi, rows |-> {r \in rows : ~(r[2] < k)}]}

\* What a compaction is to replace and what it has made.  Its job may be stale: then its
\* partition, its chunks and those it created may be inactive or gone, but never others.
CompactionFits(w) == LET j == work[w] IN
  /\ Settled(j.of) /\ j.of \notin j.seen
  /\ j.old # {}
  /\ \A c \in j.old : /\ chunk[c].state \in {"active", "inactive", "gone"}
                      /\ Keys(chunk[c].rows) \subseteq Span(j.of)
  /\ \A p \in j.new : /\ p \in PartId /\ p \notin j.seen
                      /\ part[p].state \in {"inactive", "gone"} /\ part[p].rows = {}
                      /\ part[p].lo = 0 /\ part[p].hi = Top
  /\ j.pc = "compact" => j.new = {}
  /\ j.pc = "created" => Cardinality(j.new) \in 1..2
  /\ j.pc = "written" => /\ j.new \subseteq files
                         /\ Cardinality(j.new) = Cardinality(j.plan)
                         /\ Split(j.of, Input(w), j.plan)

Target(w) == IF work[w].pc \in ImportJob THEN {r \in Row : r[1] = work[w].of} ELSE chunk[work[w].of].rows

\* What an import or a repartition places: each row in one place of its plan, later in
\* one of the chunks it created.
PlacementFits(w) == LET j == work[w] IN
  /\ j.pc \in ImportJob => j.of \in Batch \ committed /\ j.old = {}
  /\ j.pc \in MoveJob => /\ j.of \in ChunkId /\ j.old = {j.of}
                         /\ chunk[j.of].state \in {"active", "inactive", "gone"}
  /\ j.pc \in {"import", "move"} =>
       /\ j.new = {}
       /\ \A x \in j.plan : /\ x \in Place /\ Settled(x.part) /\ x.rows # {} /\ x.rows \subseteq Target(w)
                            /\ Keys(x.rows) \subseteq Span(x.part)
       /\ \A r \in Target(w) : \E x \in j.plan : r \in x.rows
       /\ \A r \in Target(w) : \A x, y \in j.plan : r \in x.rows /\ r \in y.rows => x = y
  /\ j.pc \in {"imported", "moved"} =>
       /\ \A c \in j.new : /\ c \in ChunkId /\ chunk[c].state \in {"created", "gone"}
                           /\ c \notin j.kept /\ c \notin doomed /\ chunk[c].rows \subseteq Target(w)
       /\ \A r \in Target(w) : \E c \in j.new : r \in chunk[c].rows
       /\ \A r \in Target(w) : \A c, d \in j.new : r \in chunk[c].rows /\ r \in chunk[d].rows => c = d

JobFits(w) ==
  /\ Compacts(w) => CompactionFits(w)
  /\ Places(w) => PlacementFits(w)
  /\ \A p \in work[w].seen : ~Is(p, "none")
  /\ \A c \in work[w].kept : chunk[c].state # "none"
  /\ work[w].pc = "idle" => work[w].new = {}
JobsFit == \A w \in Worker : JobFits(w)

Apart(v, w) ==
  /\ Compacts(v) /\ Compacts(w) => work[v].new \cap work[w].new = {}
  /\ Places(v) /\ Places(w) => work[v].new \cap work[w].new = {}
  /\ work[v].pc \in ImportJob /\ work[w].pc \in ImportJob => work[v].of # work[w].of
\* No two jobs have made the same partition or chunk, and no batch is imported twice.
JobsApart == \A v, w \in Worker : v # w => Apart(v, w)

\* Without a fault a partition is compacted by one job, and stays active meanwhile.
Faultless == faults = 0 =>
  /\ ready
  /\ \A w \in Worker : work[w].pc # "idle" => work[w].owner
  /\ \A w \in Worker : Compacts(w) => Is(work[w].of, "active")
  /\ \A v, w \in Worker : v # w /\ Compacts(v) /\ Compacts(w) => work[v].of # work[w].of

StateOK ==
  /\ part \in [PartId -> Partition] /\ chunk \in [ChunkId -> ChunkRow]
  /\ work \in [Worker -> Job]
  /\ files \subseteq PartId /\ doomed \subseteq ChunkId /\ posted \subseteq PartId
  /\ ready \in BOOLEAN /\ committed \subseteq Batch /\ faults \in 0..MaxFaults

IInv == StateOK /\ PartsFit /\ IdsInOrder /\ ParentsExist /\ ChunksFit /\ Tiled /\ ReadOnce /\ JobsFit
        /\ JobsApart /\ Faultless

-----------------------------------------------------------------------------
(* The operators of the model.                                             *)

LEMMA RowHas == ASSUME NEW r \in Row PROVE r[1] \in Batch /\ r[2] \in Key
  BY DEF Row

LEMMA KeyIs ==
    /\ Key \subseteq Nat /\ \A k \in Key : 0 < k /\ k < Top
    /\ 0 \notin Key /\ 0 \in 0..Top /\ Top \in 0..Top /\ Top \in Nat /\ Key \subseteq 0..Top
  BY PartitionsAssumption DEF Key, Top

LEMMA KeysOfRows ==
    ASSUME NEW rows
    PROVE  /\ \A r \in rows : r[2] \in Keys(rows)
           /\ \A k \in Keys(rows) : \E r \in rows : r[2] = k
           /\ rows \subseteq Row => Keys(rows) \subseteq Key
  BY RowHas DEF Keys

\* The least of a set of numbers is the one that is no larger than the others.
LEMMA LeastIs ==
    ASSUME NEW S \in SUBSET Nat, NEW k \in S, \A y \in S : k <= y
    PROVE  Least(S) = k
  <1>1. Least(S) \in S /\ \A y \in S : Least(S) <= y
    BY DEF Least
  <1>2. Least(S) <= k /\ k <= Least(S)
    BY <1>1
  <1>3. Least(S) \in Nat /\ k \in Nat
    BY <1>1
  <1> QED BY <1>2, <1>3

LEMMA LeastOfOne == ASSUME NEW p \in Nat PROVE Least({p}) = p
  BY LeastIs

\* Sets of fresh ids are finite, and begin with the least.
LEMMA FreshPartsAre ==
    ASSUME part \in [PartId -> Partition], NEW n \in Nat
    PROVE  /\ IsFiniteSet(FreshParts(n))
           /\ \A p \in FreshParts(n) : p \in PartId /\ Is(p, "none")
           /\ \A p, q \in PartId : Is(p, "none") /\ p < q /\ q \in FreshParts(n) => p \in FreshParts(n)
  <1>1. FreshParts(n) \in SUBSET (1..MaxPart)
    BY DEF FreshParts, PartId
  <1>0. IsFiniteSet(1..MaxPart)
    BY FS_Interval, PartitionsAssumption
  <1>2. IsFiniteSet(FreshParts(n))
    BY <1>0, <1>1, FS_Subset
  <1>3. ASSUME NEW p \in PartId, NEW q \in PartId, Is(p, "none"), p < q, q \in FreshParts(n)
        PROVE  p \in FreshParts(n)
    <2> DEFINE P == {x \in 1..p : Is(x, "none")}
               Q == {x \in 1..q : Is(x, "none")}
    <2>0. p \in Int /\ q \in Int
      BY DEF PartId
    <2>1. P \in SUBSET Q /\ Q \in SUBSET (1..q)
      BY <1>3, <2>0
    <2>6. IsFiniteSet(1..q)
      BY <2>0, FS_Interval
    <2>7. IsFiniteSet(Q)
      BY <2>1, <2>6, FS_Subset
    <2>2. IsFiniteSet(P) /\ Cardinality(P) <= Cardinality(Q)
      BY <2>1, <2>7, FS_Subset
    <2>3. Cardinality(P) \in Nat /\ Cardinality(Q) \in Nat
      BY <2>2, <2>7, FS_CardinalityType
    <2>4. Cardinality(Q) <= n
      BY <1>3 DEF FreshParts
    <2>5. Cardinality(P) <= n
      BY <2>2, <2>3, <2>4
    <2> QED BY <1>3, <2>5 DEF FreshParts
  <1> QED BY <1>2, <1>3 DEF FreshParts

LEMMA FreshChunksAre ==
    ASSUME NEW n
    PROVE  /\ IsFiniteSet(FreshChunks(n))
           /\ \A c \in FreshChunks(n) : c \in ChunkId /\ chunk[c].state = "none"
  <1>1. FreshChunks(n) \in SUBSET (1..MaxChunk)
    BY DEF FreshChunks, ChunkId
  <1>2. IsFiniteSet(1..MaxChunk)
    BY FS_Interval, PartitionsAssumption
  <1>3. IsFiniteSet(FreshChunks(n))
    BY <1>1, <1>2, FS_Subset
  <1> QED BY <1>3 DEF FreshChunks

LEMMA TwoOf ==
    ASSUME NEW x, NEW y, x # y
    PROVE  IsFiniteSet({x, y}) /\ Cardinality({x, y}) = 2
  <1>1. {x, y} = {x} \cup {y}
    OBVIOUS
  <1>2. IsFiniteSet({x}) /\ Cardinality({x}) = 1
    BY FS_Singleton
  <1>3. Cardinality({x} \cup {y}) = Cardinality({x}) + 1 /\ IsFiniteSet({x} \cup {y})
    BY <1>2, FS_AddElement
  <1> QED BY <1>1, <1>2, <1>3

\* The active partition a row goes to.
LEMMA FirstForIs ==
    ASSUME Tiled, NEW r \in Row
    PROVE  FirstFor(r) \in Active /\ r[2] \in Span(FirstFor(r))
  <1>0. r[2] \in Key
    BY RowHas
  <1>1. PICK p \in Active : r[2] \in Span(p)
    BY <1>0 DEF Tiled
  <1>2. {q \in Active : r[2] \in Span(q)} = {p}
    BY <1>0, <1>1 DEF Tiled
  <1>3. p \in Nat
    BY DEF Active, PartId
  <1> QED BY <1>1, <1>2, <1>3, LeastOfOne DEF FirstFor

LEMMA NobodyHomeless ==
    ASSUME Tiled, NEW rows \in SUBSET Row
    PROVE  Homeless(rows) = {}
  BY RowHas DEF Homeless, Tiled

\* Each row goes to one place, with a partition that has its key.
LEMMA AssignedFits ==
    ASSUME Tiled, PartsFit, NEW rows \in SUBSET Row
    PROVE  /\ \A x \in Assigned(rows) : /\ x \in Place /\ Settled(x.part) /\ x.rows # {} /\ x.rows \subseteq rows
                                        /\ Keys(x.rows) \subseteq Span(x.part)
           /\ \A r \in rows : \E x \in Assigned(rows) : r \in x.rows
           /\ \A r \in rows : \A x, y \in Assigned(rows) : r \in x.rows /\ r \in y.rows => x = y
  <1> DEFINE for(p) == [part |-> p, rows |-> {r \in rows : FirstFor(r) = p}]
  <1>1. Assigned(rows) = {for(p) : p \in {FirstFor(r) : r \in rows}}
    BY DEF Assigned
  <1>2. \A r \in rows : FirstFor(r) \in Active /\ r[2] \in Span(FirstFor(r))
    BY FirstForIs
  <1>3. ASSUME NEW x \in Assigned(rows)
        PROVE  /\ x \in Place /\ Settled(x.part) /\ x.rows # {} /\ x.rows \subseteq rows
               /\ Keys(x.rows) \subseteq Span(x.part)
    <2>1. PICK r \in rows : x = for(FirstFor(r))
      BY <1>1
    <2>2. x.part = FirstFor(r) /\ x.rows = {s \in rows : FirstFor(s) = x.part}
      BY <2>1
    <2>3. x.part \in Active
      BY <1>2, <2>2
    <2>4. x.part \in PartId /\ Settled(x.part)
      BY <2>3 DEF Active, PartsFit, PartFits
    <2>5. x \in Place
      BY <2>1, <2>2, <2>4 DEF Place
    <2>6. r \in x.rows
      BY <2>2
    <2>7. Keys(x.rows) \subseteq Span(x.part)
      BY <1>2, <2>2, KeysOfRows
    <2> QED BY <2>2, <2>4, <2>5, <2>6, <2>7
  <1>4. ASSUME NEW r \in rows
        PROVE  for(FirstFor(r)) \in Assigned(rows) /\ r \in for(FirstFor(r)).rows
    BY <1>1
  <1>5. ASSUME NEW r \in rows, NEW x \in Assigned(rows), r \in x.rows
        PROVE  x = for(FirstFor(r))
    BY <1>1, <1>5
  <1> QED BY <1>3, <1>4, <1>5

-----------------------------------------------------------------------------
(* The jobs.                                                               *)

SameJob(v) ==
  /\ work'[v].pc = work[v].pc /\ work'[v].of = work[v].of /\ work'[v].old = work[v].old
  /\ work'[v].new = work[v].new /\ work'[v].plan = work[v].plan
  /\ work'[v].seen = work[v].seen /\ work'[v].kept = work[v].kept
Others(w) == \A v \in Worker : v # w => work'[v] = work[v]

IdleJob(w) == /\ work'[w].pc = "idle" /\ work'[w].new = {} /\ work'[w].seen = {} /\ work'[w].kept = {}

LEMMA EndIs ==
    ASSUME work \in [Worker -> Job], NEW w \in Worker, End(w)
    PROVE  work' \in [Worker -> Job] /\ Others(w) /\ IdleJob(w)
  <1>1. Idle \in Job
    BY DEF Idle, Job
  <1>2. work' \in [Worker -> Job] /\ work'[w] = Idle /\ Others(w)
    BY <1>1 DEF End, Others
  <1> QED BY <1>2 DEF Idle, IdleJob

LEMMA BeginIs ==
    ASSUME work \in [Worker -> Job], posted \subseteq PartId, NEW w \in Worker,
           NEW pc \in CompactJob \cup MoveJob \cup ImportJob,
           NEW of \in PartId \cup ChunkId \cup Batch, NEW old \in SUBSET ChunkId,
           NEW plan \in SUBSET (Piece \cup Place), Begin(w, pc, of, old, plan)
    PROVE  /\ work' \in [Worker -> Job] /\ Others(w)
           /\ work'[w].pc = pc /\ work'[w].of = of /\ work'[w].owner /\ work'[w].old = old
           /\ work'[w].new = {} /\ work'[w].plan = plan
           /\ work'[w].seen = {p \in PartId : Is(p, "inactive")}
           /\ work'[w].kept = {c \in ChunkId : chunk[c].state = "created"}
  <1> DEFINE j == [pc |-> pc, of |-> of, owner |-> TRUE, old |-> old, new |-> {}, plan |-> plan,
                   seen |-> {p \in PartId : Is(p, "inactive")},
                   kept |-> {c \in ChunkId : chunk[c].state = "created"}, after |-> posted]
  <1>1. j \in Job
    BY DEF Job
  <1>2. work' = [work EXCEPT ![w] = j]
    BY DEF Begin
  <1>3. work' \in [Worker -> Job] /\ work'[w] = j /\ Others(w)
    BY <1>1, <1>2 DEF Others
  <1> QED BY <1>3

\* A step of a job that goes on.
LEMMA JobGoesOn ==
    ASSUME work \in [Worker -> Job], NEW w \in Worker,
           NEW pc \in CompactJob \cup MoveJob \cup ImportJob,
           NEW new \in SUBSET (PartId \cup ChunkId), NEW plan \in SUBSET (Piece \cup Place),
           work' = [work EXCEPT ![w] = [work[w] EXCEPT !.pc = pc, !.new = new, !.plan = plan]]
    PROVE  /\ work' \in [Worker -> Job] /\ Others(w)
           /\ work'[w].pc = pc /\ work'[w].new = new /\ work'[w].plan = plan
           /\ work'[w].of = work[w].of /\ work'[w].owner = work[w].owner /\ work'[w].old = work[w].old
           /\ work'[w].seen = work[w].seen /\ work'[w].kept = work[w].kept
  <1> DEFINE j == [work[w] EXCEPT !.pc = pc, !.new = new, !.plan = plan]
  <1>1. work[w] \in Job
    OBVIOUS
  <1>2. /\ j \in Job /\ j.pc = pc /\ j.new = new /\ j.plan = plan
        /\ j.of = work[w].of /\ j.owner = work[w].owner /\ j.old = work[w].old
        /\ j.seen = work[w].seen /\ j.kept = work[w].kept
    BY <1>1 DEF Job
  <1>3. work' = [work EXCEPT ![w] = j]
    OBVIOUS
  <1> HIDE DEF j
  <1>4. work' \in [Worker -> Job] /\ work'[w] = j /\ Others(w)
    BY <1>2, <1>3 DEF Others
  <1> QED BY <1>2, <1>4

\* What OrphanJob and CreateChildren do to a job, in these terms.
LEMMA JobOrphaned ==
    ASSUME work \in [Worker -> Job], NEW w \in Worker, work' = [work EXCEPT ![w].owner = FALSE]
    PROVE  /\ work' \in [Worker -> Job] /\ Others(w)
           /\ SameJob(w)
  <1> DEFINE j == [work[w] EXCEPT !.owner = FALSE]
  <1>1. work[w] \in Job
    OBVIOUS
  <1>2. /\ j \in Job /\ j.pc = work[w].pc /\ j.new = work[w].new /\ j.plan = work[w].plan
        /\ j.of = work[w].of /\ j.old = work[w].old
        /\ j.seen = work[w].seen /\ j.kept = work[w].kept
    BY <1>1 DEF Job
  <1>3. work' = [work EXCEPT ![w] = j]
    OBVIOUS
  <1> HIDE DEF j
  <1>4. work' \in [Worker -> Job] /\ work'[w] = j /\ Others(w)
    BY <1>2, <1>3 DEF Others
  <1> QED BY <1>2, <1>4 DEF SameJob

-----------------------------------------------------------------------------
(* What no step disturbs.                                                  *)

\* No partition becomes one that a compaction is to fill, unless it was none.
NoNewChildren == \A v \in Worker, p \in PartId :
  Compacts(v)' /\ p \in work'[v].new =>
    Is(p, "none") \/ (Compacts(v) /\ p \in work[v].new /\ work'[v].of = work[v].of)

PartsStay == \A p \in PartId :
  /\ ~Is(p, "none") => ~Is(p, "none")'
  /\ Settled(p) => Settled(p)' /\ part'[p].lo = part[p].lo /\ part'[p].hi = part[p].hi
                   /\ part'[p].rows = part[p].rows

ChunksStay == \A c \in ChunkId : chunk[c].state # "none" =>
  /\ chunk'[c].state # "none" /\ chunk'[c].rows = chunk[c].rows
  /\ chunk[c].state \in {"active", "inactive", "gone"} => chunk'[c].state \in {"active", "inactive", "gone"}

\* A partition that is settled has the same keys and rows afterwards.
LEMMA SettledStays ==
    ASSUME PartsStay, NEW p, Settled(p)
    PROVE  /\ Settled(p)' /\ Span(p)' = Span(p) /\ p \in PartId
           /\ part'[p].lo = part[p].lo /\ part'[p].hi = part[p].hi /\ part'[p].rows = part[p].rows
  <1>1. p \in PartId
    BY DEF Settled
  <1> QED BY <1>1 DEF PartsStay, Span

\* A child that is lost stays so, as nothing that is settled becomes active again.
LEMMA LostStays ==
    ASSUME NEW p \in PartId, Lost(p), faults' = faults \/ faults' > 0, part'[p] = part[p], NoNewChildren,
           \A v \in Worker : Compacts(v) /\ part'[work[v].of].state = "active" => Is(work[v].of, "active")
    PROVE  Lost(p)'
  <1>1. faults' > 0 /\ JustCreated(p)' /\ ~Is(p, "none")
    BY DEF Lost, JustCreated, Is
  <1>2. ASSUME NEW v \in Worker, Compacts(v)', p \in work'[v].new
        PROVE  ~Is(work[v].of, "active")'
    BY <1>1, <1>2 DEF NoNewChildren, Lost, Is
  <1> QED BY <1>1, <1>2 DEF Lost

\* A compaction that does not take this step.
LEMMA CompactionStays ==
    ASSUME StateOK, NEW v \in Worker, Compacts(v), CompactionFits(v), SameJob(v), PartsStay, ChunksStay,
           \A p \in work[v].new : /\ part[p].state \in {"inactive", "gone"} => part'[p].state \in {"inactive", "gone"}
                                  /\ part'[p].rows = part[p].rows
                                  /\ part'[p].lo = part[p].lo /\ part'[p].hi = part[p].hi
                                  /\ p \in files => p \in files'
    PROVE  CompactionFits(v)'
  <1>a. PICK of, old, plan : of = work[v].of /\ old = work[v].old /\ plan = work[v].plan
    OBVIOUS
  <1>b. work'[v].of = of /\ work'[v].old = old /\ work'[v].plan = plan
    BY <1>a DEF SameJob
  <1>0. old \subseteq ChunkId /\ Settled(of) /\ of \notin work[v].seen /\ old # {}
    BY <1>a DEF CompactionFits, StateOK, Job
  <1>1. /\ Settled(of)' /\ Span(of)' = Span(of) /\ part'[of].lo = part[of].lo /\ part'[of].hi = part[of].hi
        /\ part'[of].rows = part[of].rows
    BY <1>0, SettledStays
  <1>2. \A c \in old : /\ chunk'[c].state \in {"active", "inactive", "gone"}
                       /\ chunk'[c].rows = chunk[c].rows
                       /\ Keys(chunk[c].rows) \subseteq Span(of)
    BY <1>a, <1>0 DEF CompactionFits, ChunksStay
  <1>3. Input(v)' = Input(v)
    <2>1. {chunk'[c].rows : c \in old} = {chunk[c].rows : c \in old}
      BY <1>2
    <2> QED BY <1>a, <1>b, <1>1, <2>1 DEF Input
  <1>4. Split(of, Input(v), plan) => Split(of, Input(v), plan)'
    BY <1>1, <1>3 DEF Split
  <1>5. \A p \in work[v].new : /\ p \in PartId /\ p \notin work[v].seen
                               /\ part'[p].state \in {"inactive", "gone"} /\ part'[p].rows = {}
                               /\ part'[p].lo = 0 /\ part'[p].hi = Top
    BY DEF CompactionFits
  <1>6. /\ work[v].pc = "compact" => work[v].new = {}
        /\ work[v].pc = "created" => Cardinality(work[v].new) \in 1..2
        /\ work[v].pc = "written" => /\ work[v].new \subseteq files'
                                     /\ Cardinality(work[v].new) = Cardinality(work[v].plan)
                                     /\ Split(of, Input(v), plan)'
    BY <1>a, <1>4 DEF CompactionFits
  <1>7. SameJob(v)
    OBVIOUS
  <1> QED BY <1>a, <1>b, <1>0, <1>1, <1>2, <1>5, <1>6, <1>7 DEF CompactionFits, SameJob

\* An import or a repartition that does not take this step.
LEMMA PlacementStays ==
    ASSUME StateOK, NEW v \in Worker, Places(v), PlacementFits(v), SameJob(v), PartsStay, ChunksStay,
           \A c \in work[v].new : /\ chunk[c].state \in {"created", "gone"} => chunk'[c].state \in {"created", "gone"}
                                  /\ c \notin doomed',
           work[v].pc \in ImportJob => work[v].of \notin committed'
    PROVE  PlacementFits(v)'
  <1> DEFINE j == work[v]
  <1>1. /\ j.pc \in ImportJob => j.of \in Batch \ committed' /\ j.old = {}
        /\ j.pc \in MoveJob => /\ j.of \in ChunkId /\ j.old = {j.of}
                               /\ chunk'[j.of].state \in {"active", "inactive", "gone"}
                               /\ chunk'[j.of].rows = chunk[j.of].rows
    BY DEF PlacementFits, ChunksStay
  <1>2. Target(v)' = Target(v)
    BY <1>1 DEF Target, Places, SameJob
  <1>3. ASSUME j.pc \in {"import", "move"}
        PROVE  /\ j.new = {}
               /\ \A x \in j.plan : /\ x \in Place /\ Settled(x.part)' /\ x.rows # {} /\ x.rows \subseteq Target(v)
                                    /\ Keys(x.rows) \subseteq Span(x.part)'
               /\ \A r \in Target(v) : \E x \in j.plan : r \in x.rows
               /\ \A r \in Target(v) : \A x, y \in j.plan : r \in x.rows /\ r \in y.rows => x = y
    <2>1. \A x \in j.plan : Settled(x.part)' /\ Span(x.part)' = Span(x.part)
      BY <1>3, SettledStays DEF PlacementFits
    <2> QED BY <1>3, <2>1 DEF PlacementFits
  <1>4. ASSUME j.pc \in {"imported", "moved"}
        PROVE  /\ \A c \in j.new : /\ c \in ChunkId /\ chunk'[c].state \in {"created", "gone"}
                                   /\ c \notin j.kept /\ c \notin doomed' /\ chunk'[c].rows \subseteq Target(v)
               /\ \A r \in Target(v) : \E c \in j.new : r \in chunk'[c].rows
               /\ \A r \in Target(v) : \A c, d \in j.new : r \in chunk'[c].rows /\ r \in chunk'[d].rows => c = d
    <2>1. \A c \in j.new : /\ c \in ChunkId /\ chunk[c].state \in {"created", "gone"}
                           /\ c \notin j.kept /\ c \notin doomed /\ chunk[c].rows \subseteq Target(v)
      BY <1>4 DEF PlacementFits
    <2>2. \A c \in j.new : chunk'[c].rows = chunk[c].rows /\ chunk'[c].state \in {"created", "gone"} /\ c \notin doomed'
      BY <2>1 DEF ChunksStay
    <2>3. /\ \A r \in Target(v) : \E c \in j.new : r \in chunk[c].rows
          /\ \A r \in Target(v) : \A c, d \in j.new : r \in chunk[c].rows /\ r \in chunk[d].rows => c = d
      BY <1>4 DEF PlacementFits
    <2> QED BY <2>1, <2>2, <2>3
  <1> HIDE DEF j
  <1>5. SameJob(v) /\ work[v] = j
    BY DEF j
  <1> QED BY <1>1, <1>2, <1>3, <1>4, <1>5 DEF PlacementFits, SameJob

\* What a step must leave to a job of another worker.
Spared(v) ==
  /\ Compacts(v) =>
       \A p \in work[v].new :
            /\ part[p].state \in {"inactive", "gone"} => part'[p].state \in {"inactive", "gone"}
            /\ part'[p].rows = part[p].rows
            /\ part'[p].lo = part[p].lo /\ part'[p].hi = part[p].hi
            /\ p \in files => p \in files'
  /\ Places(v) =>
       \A c \in work[v].new : /\ chunk[c].state \in {"created", "gone"} => chunk'[c].state \in {"created", "gone"}
                              /\ c \notin doomed'
  /\ work[v].pc \in ImportJob => work[v].of \notin committed'

LEMMA JobStays ==
    ASSUME StateOK, NEW v \in Worker, JobFits(v), SameJob(v), PartsStay, ChunksStay, Spared(v)
    PROVE  JobFits(v)'
  <1>1. work[v].seen \subseteq PartId /\ work[v].kept \subseteq ChunkId
    BY DEF StateOK, Job
  <1>2. Compacts(v) => CompactionFits(v)'
    BY CompactionStays DEF JobFits, Spared
  <1>3. Places(v) => PlacementFits(v)'
    BY PlacementStays DEF JobFits, Spared
  <1>4. \A p \in work[v].seen : ~Is(p, "none")'
    BY <1>1 DEF JobFits, PartsStay
  <1>5. \A c \in work[v].kept : chunk'[c].state # "none"
    BY <1>1 DEF JobFits, ChunksStay
  <1>6. (Compacts(v)' <=> Compacts(v)) /\ (Places(v)' <=> Places(v))
    BY DEF Compacts, Places, SameJob
  <1> QED BY <1>2, <1>3, <1>4, <1>5, <1>6 DEF JobFits, SameJob

LEMMA JobsStay ==
    ASSUME StateOK, JobsFit, JobsApart, NEW w \in Worker, Others(w), PartsStay, ChunksStay,
           \A v \in Worker : v # w => Spared(v) /\ Apart(v, w)', JobFits(w)'
    PROVE  JobsFit' /\ JobsApart'
  <1>1. \A v \in Worker : v # w => JobFits(v)'
    BY JobStays DEF JobsFit, Others, SameJob
  <1>2. \A u, v \in Worker : u # w /\ v # w /\ u # v => Apart(u, v)'
    BY DEF JobsApart, Apart, Others, Compacts, Places
  <1>3. \A v \in Worker : v # w => Apart(w, v)'
    BY DEF Apart
  <1> QED BY <1>1, <1>2, <1>3 DEF JobsFit, JobsApart

LEMMA JobsRest ==
    ASSUME StateOK, JobsFit, JobsApart, work' = work, PartsStay, ChunksStay, \A v \in Worker : Spared(v)
    PROVE  JobsFit' /\ JobsApart'
  <1>1. \A v \in Worker : JobFits(v)'
    BY JobStays DEF JobsFit, SameJob
  <1>2. \A u, v \in Worker : u # v => Apart(u, v)'
    BY DEF JobsApart, Apart, Compacts, Places
  <1> QED BY <1>1, <1>2 DEF JobsFit, JobsApart

\* A worker that has become idle fits, and is apart from the others.
LEMMA IdleFits ==
    ASSUME NEW w \in Worker, IdleJob(w)
    PROVE  /\ JobFits(w)' /\ \A v \in Worker : Apart(v, w)'
           /\ ~Compacts(w)' /\ ~Places(w)' /\ work'[w].pc \notin ImportJob
  <1>1. ~Compacts(w)' /\ ~Places(w)' /\ work'[w].pc \notin ImportJob
    BY DEF IdleJob, Compacts, Places, CompactJob, MoveJob, ImportJob
  <1>2. JobFits(w)'
    BY <1>1 DEF IdleJob, JobFits
  <1>3. \A v \in Worker : Apart(v, w)'
    BY <1>1 DEF Apart
  <1> QED BY <1>1, <1>2, <1>3

\* Steps that leave the partitions as they are.
LEMMA PartsRest ==
    ASSUME StateOK, PartsFit, IdsInOrder, ParentsExist, Tiled, part' = part, NoNewChildren,
           faults' = faults \/ faults' > 0, \A p \in Active : p \in files => p \in files'
    PROVE  /\ PartsStay /\ PartsFit' /\ IdsInOrder' /\ ParentsExist' /\ Tiled'
           /\ \A p : /\ Exists(p)' = Exists(p) /\ Span(p)' = Span(p)
                     /\ \A s : Is(p, s)' = Is(p, s)
                     /\ Settled(p) => Settled(p)'
  <1>1. \A p : Exists(p)' = Exists(p) /\ Span(p)' = Span(p) /\ \A s : Is(p, s)' = Is(p, s)
    BY DEF Exists, Span, Is
  <1>2. ASSUME NEW p, Settled(p)
        PROVE  Settled(p)'
    BY <1>1, <1>2 DEF Settled, NoNewChildren
  <1>3. PartsStay
    BY <1>1, <1>2 DEF PartsStay
  <1>4. PartsFit'
    BY <1>1, <1>2 DEF PartsFit, PartFits, Active
  <1>5. IdsInOrder'
    BY <1>1 DEF IdsInOrder
  <1>6. ParentsExist'
    <2> SUFFICES ASSUME NEW p \in PartId PROVE ParentExists(p)'
      BY DEF ParentsExist
    <2>1. ParentExists(p)
      BY DEF ParentsExist
    <2>2. Lost(p) => Lost(p)'
      BY LostStays DEF Is
    <2> QED BY <1>1, <1>2, <2>1, <2>2 DEF ParentExists
  <1>7. Tiled'
    <2>1. Active' = Active
      BY <1>1 DEF Active
    <2> QED BY <1>1, <2>1 DEF Tiled
  <1> QED BY <1>1, <1>2, <1>3, <1>4, <1>5, <1>6, <1>7

\* A chunk that stays where it is.
LEMMA ChunkStays ==
    ASSUME PartsStay, NEW c \in ChunkId, ChunkFits(c), chunk'[c].part = chunk[c].part, chunk'[c].rows = chunk[c].rows,
           chunk[c].state = "none" => chunk'[c].state = "none",
           chunk'[c].state = "active" => Exists(chunk[c].part)',
           c \in doomed' => chunk'[c].state \in {"created", "inactive"}
    PROVE  ChunkFits(c)'
  <1>1. CASE chunk'[c].state = "none"
    BY <1>1 DEF ChunkFits
  <1>2. CASE chunk'[c].state # "none"
    <2>1. /\ Settled(chunk[c].part) /\ chunk[c].rows # {}
          /\ Keys(chunk[c].rows) \subseteq Span(chunk[c].part)
      BY <1>2 DEF ChunkFits
    <2>2. Settled(chunk[c].part)' /\ Span(chunk[c].part)' = Span(chunk[c].part)
      BY <2>1, SettledStays
    <2> QED BY <2>1, <2>2 DEF ChunkFits
  <1> QED BY <1>1, <1>2

\* Steps that leave the chunks as they are.
LEMMA ChunksRest ==
    ASSUME StateOK, ChunksFit, PartsStay, chunk' = chunk,
           \A c \in ChunkId : c \in doomed' => chunk[c].state \in {"created", "inactive"},
           \A c \in ActiveChunks : Exists(chunk[c].part) => Exists(chunk[c].part)'
    PROVE  ChunksFit' /\ ChunksStay
  <1>1. ChunksStay
    BY DEF ChunksStay
  <1>2. \A c \in ChunkId : ChunkFits(c)'
    <2> SUFFICES ASSUME NEW c \in ChunkId PROVE ChunkFits(c)'
      OBVIOUS
    <2>1. ChunkFits(c)
      BY DEF ChunksFit
    <2>2. chunk[c].state = "active" => Exists(chunk[c].part)'
      BY <2>1 DEF ChunkFits, ActiveChunks
    <2> QED BY <2>1, <2>2, ChunkStays
  <1> QED BY <1>1, <1>2 DEF ChunksFit

\* Steps that change no file and no chunk a query reads.
LEMMA ReadsRest ==
    ASSUME ReadOnce, committed' = committed,
           \A r \in Row, p \in PartId : InFile(r, p)' <=> InFile(r, p),
           \A r \in Row, c \in ChunkId : InChunk(r, c)' <=> InChunk(r, c)
    PROVE  ReadOnce'
  BY DEF ReadOnce

\* Without faults: the partitions that are compacted stay active.
LEMMA FaultlessStays ==
    ASSUME Faultless, NEW w \in Worker, Others(w), faults' = faults, ready' = ready,
           \/ IdleJob(w)
           \/ /\ work[w].pc # "idle" /\ work'[w].owner = work[w].owner /\ work'[w].of = work[w].of
              /\ Compacts(w)' => Compacts(w),
           faults = 0 => \A v \in Worker : Compacts(v)' /\ Is(work[v].of, "active") => Is(work[v].of, "active")'
    PROVE  Faultless'
  <1> SUFFICES ASSUME faults = 0 PROVE Faultless'
    BY DEF Faultless
  <1>1. \A v \in Worker : work'[v].pc # "idle" => /\ work'[v].of = work[v].of /\ work'[v].owner = work[v].owner
                                                /\ work[v].pc # "idle" /\ (Compacts(v)' => Compacts(v))
    BY DEF Others, IdleJob, Compacts
  <1>2. \A v \in Worker : Compacts(v)' => work'[v].pc # "idle"
    BY DEF Compacts, CompactJob
  <1>3. ready'
    BY DEF Faultless
  <1>4. \A v \in Worker : work'[v].pc # "idle" => work'[v].owner
    BY <1>1 DEF Faultless
  <1>5. \A v \in Worker : Compacts(v)' => part'[work'[v].of].state = "active"
    <2> SUFFICES ASSUME NEW v \in Worker, Compacts(v)' PROVE part'[work'[v].of].state = "active"
      OBVIOUS
    <2>1. work'[v].of = work[v].of /\ Compacts(v)
      BY <1>1, <1>2
    <2>2. Is(work[v].of, "active")
      BY <2>1 DEF Faultless
    <2>3. Is(work[v].of, "active")'
      BY <2>2
    <2> QED BY <2>3 DEF Is
  <1>6. \A u, v \in Worker : u # v /\ Compacts(u)' /\ Compacts(v)' => work'[u].of # work'[v].of
    BY <1>1, <1>2 DEF Faultless
  <1> QED BY <1>3, <1>4, <1>5, <1>6 DEF Faultless, Is

-----------------------------------------------------------------------------
(* Steps that only begin or end a job, or change whose it is.              *)

\* What a job that fits has created.
LEMMA NewIs ==
    ASSUME NEW v \in Worker, JobFits(v)
    PROVE  /\ Compacts(v) => /\ Settled(work[v].of) /\ work[v].of \notin work[v].seen /\ work[v].of \in PartId
                             /\ \A p \in work[v].new : /\ p \in PartId /\ p \notin work[v].seen
                                                       /\ part[p].state \in {"inactive", "gone"} /\ part[p].rows = {}
                                                       /\ part[p].lo = 0 /\ part[p].hi = Top
           /\ Places(v) => \A c \in work[v].new : /\ c \in ChunkId /\ chunk[c].state \in {"created", "gone"}
                                                  /\ c \notin work[v].kept /\ c \notin doomed
           /\ work[v].pc \in ImportJob => work[v].of \in Batch \ committed
           /\ work[v].pc = "idle" => work[v].new = {}
  <1>1. ASSUME Compacts(v)
        PROVE  /\ Settled(work[v].of) /\ work[v].of \notin work[v].seen /\ work[v].of \in PartId
               /\ \A p \in work[v].new : /\ p \in PartId /\ p \notin work[v].seen
                                         /\ part[p].state \in {"inactive", "gone"} /\ part[p].rows = {}
                                         /\ part[p].lo = 0 /\ part[p].hi = Top
    BY <1>1 DEF JobFits, CompactionFits, Settled
  <1>2. ASSUME Places(v)
        PROVE  /\ \A c \in work[v].new : /\ c \in ChunkId /\ chunk[c].state \in {"created", "gone"}
                                         /\ c \notin work[v].kept /\ c \notin doomed
               /\ work[v].pc \in ImportJob => work[v].of \in Batch \ committed
    <2>1. work[v].pc \in {"import", "move"} \/ work[v].pc \in {"imported", "moved"}
      BY <1>2 DEF Places, ImportJob, MoveJob
    <2> QED BY <1>2, <2>1 DEF JobFits, PlacementFits
  <1>3. work[v].pc \in ImportJob => Places(v)
    BY DEF Places
  <1>4. work[v].pc = "idle" => work[v].new = {}
    BY DEF JobFits
  <1> QED BY <1>1, <1>2, <1>3, <1>4

LEMMA SparedAtRest ==
    ASSUME NEW v \in Worker, JobFits(v), SameJob(v),
           part' = part, chunk' = chunk, files \subseteq files', doomed' = doomed, committed' = committed
    PROVE  Spared(v)
  BY NewIs DEF Spared, SameJob, Exists

LEMMA WorkStep ==
    ASSUME IInv, NEW w \in Worker, Others(w), work' \in [Worker -> Job],
           part' = part, chunk' = chunk, files \subseteq files', files' \subseteq PartId,
           doomed' = doomed, posted' = posted, committed' = committed, faults' = faults \/ faults' > 0,
           NoNewChildren, JobFits(w)', \A v \in Worker : v # w => Apart(v, w)',
           ready' \in BOOLEAN, faults' \in 0..MaxFaults, Faultless'
    PROVE  IInv'
  <1>1. /\ PartsStay /\ PartsFit' /\ IdsInOrder' /\ ParentsExist' /\ Tiled'
        /\ \A p : Exists(p)' = Exists(p)
    BY PartsRest DEF IInv
  <1>2. \A c \in ActiveChunks : Exists(chunk[c].part) => Exists(chunk[c].part)'
    BY DEF Exists
  <1>3. ChunksFit' /\ ChunksStay
    <2>1. \A c \in ChunkId : c \in doomed' => chunk[c].state \in {"created", "inactive"}
      BY DEF IInv, ChunksFit, ChunkFits
    <2> QED BY <1>1, <1>2, <2>1, ChunksRest DEF IInv
  <1>4. ReadOnce'
    BY ReadsRest DEF IInv, InFile, InChunk, Is
  <1>5. \A v \in Worker : v # w => Spared(v)
    BY SparedAtRest DEF IInv, JobsFit, Others, SameJob
  <1>6. JobsFit' /\ JobsApart'
    BY <1>1, <1>3, <1>5, JobsStay DEF IInv
  <1>7. StateOK'
    BY DEF IInv, StateOK
  <1> QED BY <1>1, <1>3, <1>4, <1>6, <1>7 DEF IInv

LEMMA OrphanStep == ASSUME IInv, NEW w \in Worker, OrphanJob(w) PROVE IInv'
  <1>1. /\ work \in [Worker -> Job] /\ work' = [work EXCEPT ![w].owner = FALSE]
        /\ part' = part /\ chunk' = chunk /\ files' = files /\ doomed' = doomed /\ committed' = committed
        /\ posted' = posted /\ ready' = ready /\ faults' = faults + 1 /\ faults < MaxFaults
    BY DEF OrphanJob, IInv, StateOK
  <1>2. work' \in [Worker -> Job] /\ Others(w) /\ SameJob(w)
    BY <1>1, JobOrphaned
  <1>3. \A v \in Worker : SameJob(v)
    BY <1>2 DEF Others, SameJob
  <1>4. NoNewChildren
    BY <1>3 DEF NoNewChildren, Compacts, SameJob
  <1>5. PartsStay
    <2>1. faults' > 0
      BY <1>1 DEF IInv, StateOK
    <2> QED BY <1>1, <1>4, <2>1, PartsRest DEF IInv
  <1>6. ChunksStay
    BY <1>1 DEF ChunksStay
  <1>7. JobFits(w) /\ StateOK
    BY DEF IInv, JobsFit
  <1>8. JobFits(w)'
    BY <1>1, <1>2, <1>5, <1>6, <1>7, SparedAtRest, JobStays
  <1>9. \A v \in Worker : v # w => Apart(v, w)'
    BY <1>3 DEF IInv, JobsApart, Apart, SameJob, Compacts, Places
  <1>10. ready' \in BOOLEAN /\ faults' \in 0..MaxFaults /\ faults' # 0 /\ faults' > 0 /\ files' \subseteq PartId
    BY <1>1, PartitionsAssumption DEF IInv, StateOK
  <1>11. Faultless'
    BY <1>10 DEF Faultless
  <1> QED BY <1>1, <1>2, <1>4, <1>8, <1>9, <1>10, <1>11, WorkStep

\* A job that ends with nothing done.
LEMMA EndStep ==
    ASSUME IInv, NEW w \in Worker, End(w),
           part' = part, chunk' = chunk, files \subseteq files', files' \subseteq PartId,
           doomed' = doomed, posted' = posted, committed' = committed,
           ready' \in BOOLEAN, faults' \in 0..MaxFaults,
           (faults' = faults /\ ready' = ready) \/ (faults' = faults /\ faults # 0) \/ faults' > 0
    PROVE  IInv'
  <1>1. work' \in [Worker -> Job] /\ Others(w) /\ IdleJob(w)
    BY EndIs DEF IInv, StateOK
  <1>2. /\ JobFits(w)' /\ (\A v \in Worker : Apart(v, w)') /\ ~Compacts(w)'
    BY <1>1, IdleFits
  <1>3. NoNewChildren
    BY <1>1, <1>2 DEF NoNewChildren, Others, Compacts
  <1>4. Faultless'
    <2>1. CASE faults' # 0
      BY <2>1 DEF Faultless
    <2>2. CASE faults' = faults /\ ready' = ready
      <3>1. \A v \in Worker : Compacts(v)' /\ Is(work[v].of, "active") => Is(work[v].of, "active")'
        BY <1>1, <1>2 DEF Others, Is
      <3> QED BY <1>1, <2>2, <3>1, FaultlessStays DEF IInv
    <2> QED BY <2>1, <2>2
  <1> QED BY <1>1, <1>2, <1>3, <1>4, WorkStep

LEMMA FailStep == ASSUME IInv, NEW w \in Worker, JobFails(w) PROVE IInv'
  <1>1. ready' \in BOOLEAN /\ faults' \in 0..MaxFaults /\ faults' > 0 /\ files' \subseteq PartId
    BY PartitionsAssumption DEF JobFails, IInv, StateOK
  <1> QED BY <1>1, EndStep DEF JobFails

\* An active partition with rows has its file, so a download fails after a fault only.
LEMMA DownloadStep == ASSUME IInv, NEW w \in Worker, DownloadFails(w) PROVE IInv'
  <1>1. ready' \in BOOLEAN /\ faults' = faults /\ faults' \in 0..MaxFaults /\ files' \subseteq PartId
    BY DEF DownloadFails, IInv, StateOK
  <1>2. Compacts(w)
    BY DEF DownloadFails, Compacts, CompactJob
  <1>3. faults # 0
    <2> SUFFICES ASSUME faults = 0 PROVE FALSE
      OBVIOUS
    <2>1. Is(work[w].of, "active")
      BY <1>2 DEF IInv, Faultless
    <2>2. work[w].of \in PartId
      BY <1>2, NewIs DEF IInv, JobsFit
    <2>3. ~Missing(w)
      BY <2>1, <2>2 DEF IInv, PartsFit, PartFits, Missing
    <2> QED BY <2>3 DEF DownloadFails
  <1> QED BY <1>1, <1>3, EndStep DEF DownloadFails

LEMMA BeginStep ==
    ASSUME IInv, NEW w \in Worker,
           NEW pc \in CompactJob \cup MoveJob \cup ImportJob,
           NEW of \in PartId \cup ChunkId \cup Batch, NEW old \in SUBSET ChunkId,
           NEW plan \in SUBSET (Piece \cup Place), Begin(w, pc, of, old, plan),
           part' = part, chunk' = chunk, files' = files, doomed' = doomed, committed' = committed,
           posted' = posted, ready' = ready, faults' = faults,
           Compacts(w)' => CompactionFits(w)', Places(w)' => PlacementFits(w)',
           pc \in ImportJob => \A v \in Worker : ~(work[v].pc \in ImportJob /\ work[v].of = of),
           faults = 0 /\ pc \in CompactJob =>
             Is(of, "active") /\ \A v \in Worker : v # w /\ Compacts(v) => work[v].of # of
    PROVE  IInv'
  <1>0. work \in [Worker -> Job] /\ posted \subseteq PartId
    BY DEF IInv, StateOK
  <1>1. /\ work' \in [Worker -> Job] /\ Others(w)
        /\ work'[w].pc = pc /\ work'[w].of = of /\ work'[w].owner /\ work'[w].old = old
        /\ work'[w].new = {} /\ work'[w].plan = plan
        /\ work'[w].seen = {p \in PartId : Is(p, "inactive")}
        /\ work'[w].kept = {c \in ChunkId : chunk[c].state = "created"}
    BY <1>0, BeginIs
  <1>2. NoNewChildren
    BY <1>1 DEF NoNewChildren, Others, Compacts
  <1>3. JobFits(w)'
    BY <1>1 DEF JobFits, Is
  <1>4. \A v \in Worker : v # w => Apart(v, w)'
    BY <1>1 DEF Apart, Others
  <1>5. Faultless'
    <2> SUFFICES ASSUME faults = 0 PROVE Faultless'
      BY DEF Faultless
    <2>1. ready' /\ \A v \in Worker : work'[v].pc # "idle" => work'[v].owner
      BY <1>1 DEF IInv, Faultless, Others
    <2>2. \A v \in Worker : Compacts(v)' => part'[work'[v].of].state = "active"
      <3> SUFFICES ASSUME NEW v \in Worker, Compacts(v)' PROVE part'[work'[v].of].state = "active"
        OBVIOUS
      <3>1. CASE v = w
        BY <1>1, <3>1 DEF Is, Compacts
      <3>2. CASE v # w
        BY <1>1, <3>2 DEF Is, Compacts, IInv, Faultless, Others
      <3> QED BY <3>1, <3>2
    <2>3. ASSUME NEW u \in Worker, NEW v \in Worker, u # v, Compacts(u)', Compacts(v)'
          PROVE  work'[u].of # work'[v].of
      <3>1. CASE u # w /\ v # w
        BY <1>1, <2>3, <3>1 DEF Compacts, IInv, Faultless, Others
      <3>2. CASE u = w
        BY <1>1, <2>3, <3>2 DEF Compacts, Others
      <3>3. CASE v = w
        BY <1>1, <2>3, <3>3 DEF Compacts, Others
      <3> QED BY <3>1, <3>2, <3>3
    <2> QED BY <2>1, <2>2, <2>3 DEF Faultless, Is
  <1>6. ready' \in BOOLEAN /\ faults' \in 0..MaxFaults /\ files' \subseteq PartId
    BY DEF IInv, StateOK
  <1> QED BY <1>1, <1>2, <1>3, <1>4, <1>5, <1>6, WorkStep

\* A job begins: what was settled is settled still.
LEMMA BeginSettles ==
    ASSUME IInv, NEW w \in Worker, Others(w), work'[w].new = {}, part' = part
    PROVE  \A p : /\ Settled(p) => Settled(p)'
                  /\ Exists(p)' = Exists(p) /\ Span(p)' = Span(p)
  <1>1. \A p : Exists(p)' = Exists(p) /\ Span(p)' = Span(p)
    BY DEF Exists, Span
  <1>2. \A p : Settled(p) => Settled(p)'
    BY DEF Settled, Is, Others, Compacts
  <1> QED BY <1>1, <1>2

\* Rows that are to be placed find their partitions, whatever rows they are.
LEMMA AssignStep ==
    ASSUME IInv, NEW w \in Worker, NEW pc \in {"import", "move"},
           NEW of \in ChunkId \cup Batch, NEW old \in SUBSET ChunkId, NEW rows \in SUBSET Row,
           Assign(w, pc, of, old, rows),
           part' = part, chunk' = chunk, files' = files, doomed' = doomed, committed' = committed,
           posted' = posted, faults' = faults,
           pc = "import" => /\ of \in Batch \ committed /\ old = {} /\ rows = {r \in Row : r[1] = of}
                            /\ \A v \in Worker : ~(work[v].pc \in ImportJob /\ work[v].of = of),
           pc = "move" => of \in ChunkId /\ old = {of} /\ chunk[of].state = "active" /\ rows = chunk[of].rows
    PROVE  IInv'
  <1>0. Tiled /\ PartsFit /\ work \in [Worker -> Job] /\ posted \subseteq PartId
    BY DEF IInv, StateOK
  <1>1. Begin(w, pc, of, old, Assigned(rows)) /\ ready' = ready
    BY <1>0, NobodyHomeless DEF Assign
  <1>2. /\ \A x \in Assigned(rows) : /\ x \in Place /\ Settled(x.part) /\ x.rows # {} /\ x.rows \subseteq rows
                                     /\ Keys(x.rows) \subseteq Span(x.part)
        /\ \A r \in rows : \E x \in Assigned(rows) : r \in x.rows
        /\ \A r \in rows : \A x, y \in Assigned(rows) : r \in x.rows /\ r \in y.rows => x = y
    BY <1>0, AssignedFits
  <1>3. PICK plan \in SUBSET (Piece \cup Place) : plan = Assigned(rows)
    BY <1>2
  <1>4. pc \in CompactJob \cup MoveJob \cup ImportJob /\ pc \notin CompactJob
    BY DEF CompactJob, MoveJob, ImportJob
  <1>5. /\ Others(w)
        /\ work'[w].pc = pc /\ work'[w].of = of /\ work'[w].old = old
        /\ work'[w].new = {} /\ work'[w].plan = plan
    BY <1>0, <1>1, <1>3, <1>4, BeginIs
  <1>6. \A x \in plan : Settled(x.part)' /\ Span(x.part)' = Span(x.part)
    BY <1>2, <1>3, <1>5, BeginSettles
  <1>7. Target(w)' = rows
    BY <1>5 DEF Target, ImportJob
  <1>8. ~Compacts(w)'
    BY <1>4, <1>5 DEF Compacts
  <1>9. PlacementFits(w)'
    <2>1. /\ pc \in ImportJob => pc = "import"
          /\ pc \in MoveJob => pc = "move"
          /\ pc \notin {"imported", "moved"}
      BY DEF ImportJob, MoveJob
    <2>2. \A x \in plan : /\ x \in Place /\ Settled(x.part)' /\ x.rows # {} /\ x.rows \subseteq Target(w)'
                          /\ Keys(x.rows) \subseteq Span(x.part)'
      BY <1>2, <1>3, <1>6, <1>7
    <2>3. /\ \A r \in Target(w)' : \E x \in plan : r \in x.rows
          /\ \A r \in Target(w)' : \A x, y \in plan : r \in x.rows /\ r \in y.rows => x = y
      BY <1>2, <1>3, <1>7
    <2> HIDE DEF Target
    <2> QED BY <1>5, <2>1, <2>2, <2>3 DEF PlacementFits
  <1>10. pc \in ImportJob => pc = "import"
    BY DEF ImportJob
  <1> QED BY <1>1, <1>3, <1>4, <1>8, <1>9, <1>10, BeginStep

LEMMA ImportStep == ASSUME IInv, NEW w \in Worker, NEW b \in Batch, ImportStart(w, b) PROVE IInv'
  <1>1. {r \in Row : r[1] = b} \in SUBSET Row /\ {} \in SUBSET ChunkId
    OBVIOUS
  <1>2. /\ Assign(w, "import", b, {}, {r \in Row : r[1] = b}) /\ b \notin committed
        /\ \A v \in Worker : ~(work[v].pc \in ImportJob /\ work[v].of = b)
        /\ part' = part /\ chunk' = chunk /\ files' = files /\ doomed' = doomed
        /\ posted' = posted /\ committed' = committed /\ faults' = faults
    BY DEF ImportStart
  <1> QED BY <1>1, <1>2, AssignStep

LEMMA MoveStep == ASSUME IInv, NEW w \in Worker, NEW c \in ActiveChunks, MoveStart(w, c) PROVE IInv'
  <1>1. c \in ChunkId /\ chunk[c].rows \in SUBSET Row
    BY DEF ActiveChunks, IInv, StateOK, ChunkRow
  <1>2. /\ Assign(w, "move", c, {c}, chunk[c].rows) /\ chunk[c].state = "active"
        /\ part' = part /\ chunk' = chunk /\ files' = files /\ doomed' = doomed
        /\ posted' = posted /\ committed' = committed /\ faults' = faults
    BY DEF MoveStart
  <1> QED BY <1>1, <1>2, AssignStep

LEMMA CompactStep ==
    ASSUME IInv, NEW w \in Worker, NEW p \in PartId, NEW old \in SUBSET ActiveChunks, CompactStart(w, p, old)
    PROVE  IInv'
  <1>0. work \in [Worker -> Job] /\ posted \subseteq PartId /\ old \in SUBSET ChunkId
    BY DEF IInv, StateOK, ActiveChunks
  <1>1. /\ Begin(w, "compact", p, old, {}) /\ Is(p, "active") /\ NoJob(CompactJob, p)
        /\ old # {} /\ \A c \in old : chunk[c].state = "active" /\ chunk[c].part = p
        /\ part' = part /\ chunk' = chunk /\ files' = files /\ doomed' = doomed
        /\ posted' = posted /\ committed' = committed /\ ready' = ready /\ faults' = faults
    BY DEF CompactStart, ActiveChunks
  <1>2. "compact" \in CompactJob \cup MoveJob \cup ImportJob /\ "compact" \in CompactJob /\ "compact" \notin ImportJob
        /\ "compact" \notin MoveJob /\ {} \in SUBSET (Piece \cup Place)
    BY DEF CompactJob, MoveJob, ImportJob
  <1>3. /\ Others(w)
        /\ work'[w].pc = "compact" /\ work'[w].of = p /\ work'[w].old = old /\ work'[w].new = {}
        /\ work'[w].seen = {q \in PartId : Is(q, "inactive")}
    BY <1>0, <1>1, <1>2, BeginIs
  <1>4. Settled(p)' /\ Exists(p)' /\ Span(p)' = Span(p)
    <2>1. Settled(p) /\ Exists(p)
      BY <1>1 DEF IInv, PartsFit, PartFits, Exists, Is, PartId, NoPart
    <2> QED BY <1>1, <1>3, <2>1, BeginSettles
  <1>5. \A c \in old : /\ chunk[c].state = "active" /\ Keys(chunk[c].rows) \subseteq Span(p)
    BY <1>0, <1>1 DEF IInv, ChunksFit, ChunkFits
  <1>6. CompactionFits(w)'
    <2>1. p \notin work'[w].seen
      BY <1>1, <1>3 DEF Is
    <2>2. \A c \in old : /\ chunk'[c].state \in {"active", "inactive", "gone"}
                         /\ Keys(chunk'[c].rows) \subseteq Span(p)'
      BY <1>1, <1>4, <1>5
    <2> QED BY <1>1, <1>3, <1>4, <2>1, <2>2 DEF CompactionFits
  <1>7. ~Places(w)'
    BY <1>2, <1>3 DEF Places
  <1>8. faults = 0 => \A v \in Worker : v # w /\ Compacts(v) => work[v].of # p
    <2>1. \A v \in Worker : Compacts(v) => v \in Busy /\ work[v].pc # "idle"
      BY DEF Compacts, CompactJob, Busy
    <2> QED BY <1>1, <2>1 DEF NoJob, IInv, Faultless, Compacts
  <1> QED BY <1>0, <1>1, <1>2, <1>6, <1>7, <1>8, BeginStep

-----------------------------------------------------------------------------
(* Steps of the chunks.                                                    *)

\* A step of worker w that leaves the partitions and their files as they are.
LEMMA ChunkStep ==
    ASSUME IInv, NEW w \in Worker, Others(w), work' \in [Worker -> Job],
           chunk' \in [ChunkId -> ChunkRow], part' = part, files' = files, doomed' = doomed, posted' = posted,
           committed' \subseteq Batch, ready' = ready, faults' = faults,
           ~Compacts(w)', ChunksStay, ChunksFit', ReadOnce', JobFits(w)',
           \A v \in Worker : v # w => Apart(v, w)',
           IdleJob(w) \/ (work[w].pc # "idle" /\ work'[w].owner = work[w].owner /\ work'[w].of = work[w].of),
           \A v \in Worker : v # w /\ Places(v) => \A c \in work[v].new :
             chunk[c].state \in {"created", "gone"} => chunk'[c].state \in {"created", "gone"},
           \A v \in Worker : v # w /\ work[v].pc \in ImportJob => work[v].of \notin committed'
    PROVE  IInv'
  <1>1. NoNewChildren
    BY DEF NoNewChildren, Others, Compacts
  <1>2. /\ PartsStay /\ PartsFit' /\ IdsInOrder' /\ ParentsExist' /\ Tiled'
    BY <1>1, PartsRest DEF IInv
  <1>3. \A v \in Worker : v # w => Spared(v)
    <2> SUFFICES ASSUME NEW v \in Worker, v # w PROVE Spared(v)
      OBVIOUS
    <2>1. work'[v] = work[v]
      BY DEF Others
    <2>2. JobFits(v)
      BY DEF IInv, JobsFit
    <2>3. Places(v) => \A c \in work[v].new : c \notin doomed'
      BY <2>2, NewIs
    <2> QED BY <2>3 DEF Spared
  <1>4. JobsFit' /\ JobsApart'
    BY <1>2, <1>3, JobsStay DEF IInv
  <1>5. Faultless'
    <2>1. \A v \in Worker : Compacts(v)' /\ Is(work[v].of, "active") => Is(work[v].of, "active")'
      BY DEF Others, Is
    <2> QED BY <2>1, FaultlessStays DEF IInv
  <1>6. StateOK'
    BY DEF IInv, StateOK
  <1> QED BY <1>2, <1>4, <1>5, <1>6 DEF IInv

\* Chunks are created for the places of the plan, one for each.
LEMMA CreateStep ==
    ASSUME IInv, NEW w \in Worker, NEW from, NEW to,
           <<from, to>> \in {<<"import", "imported">>, <<"move", "moved">>},
           CreateChunks(w, from, to)
    PROVE  IInv'
  <1> DEFINE new == FreshChunks(Cardinality(work[w].plan))
             plan == work[w].plan
  <1>a. \/ from = "import" /\ to = "imported"
        \/ from = "move" /\ to = "moved"
    OBVIOUS
  <1>0. /\ work \in [Worker -> Job] /\ chunk \in [ChunkId -> ChunkRow] /\ work[w].pc = from
        /\ IsFiniteSet(new) /\ new \subseteq ChunkId /\ (\A c \in new : chunk[c].state = "none")
        /\ part' = part /\ files' = files /\ doomed' = doomed /\ committed' = committed
        /\ posted' = posted /\ ready' = ready /\ faults' = faults
    BY FreshChunksAre DEF CreateChunks, IInv, StateOK
  <1>1. PICK at \in [new -> plan] :
          /\ \A x \in plan : \E c \in new : at[c] = x
          /\ chunk' = [c \in ChunkId |->
               IF c \in new THEN [state |-> "created", part |-> at[c].part, rows |-> at[c].rows] ELSE chunk[c]]
    BY DEF CreateChunks
  <1>2. \A c, d \in new : at[c] = at[d] => c = d
    <2>1. Cardinality(new) = Cardinality(plan)
      BY DEF CreateChunks
    <2>2. at \in Surjection(new, plan)
      BY <1>1 DEF Surjection
    <2>3. at \in Injection(new, plan)
      BY <1>0, <2>1, <2>2, FS_SurjSameCardinalityImpliesInj
    <2> QED BY <2>3 DEF Injection, IsInjective
  <1>3. work' = [work EXCEPT ![w] = [work[w] EXCEPT !.pc = to, !.new = new, !.plan = {}]]
    BY <1>0 DEF CreateChunks
  <1>4. to \in CompactJob \cup MoveJob \cup ImportJob /\ to \notin CompactJob /\ Places(w) /\ ~Compacts(w)
    BY <1>a, <1>0 DEF CompactJob, MoveJob, ImportJob, Places, Compacts
  <1>5. new \in SUBSET (PartId \cup ChunkId) /\ {} \in SUBSET (Piece \cup Place)
    BY <1>0
  <1> HIDE DEF new
  <1>b. PICK pc \in CompactJob \cup MoveJob \cup ImportJob, made \in SUBSET (PartId \cup ChunkId),
             none \in SUBSET (Piece \cup Place) : pc = to /\ made = new /\ none = {}
    BY <1>4, <1>5
  <1>c. work' = [work EXCEPT ![w] = [work[w] EXCEPT !.pc = pc, !.new = made, !.plan = none]]
    BY <1>3, <1>b
  <1>d. work \in [Worker -> Job]
    BY <1>0
  <1>e. /\ work' \in [Worker -> Job] /\ Others(w)
        /\ work'[w].pc = pc /\ work'[w].new = made /\ work'[w].plan = none
        /\ work'[w].of = work[w].of /\ work'[w].owner = work[w].owner /\ work'[w].old = work[w].old
        /\ work'[w].seen = work[w].seen /\ work'[w].kept = work[w].kept
    BY <1>d, <1>c, JobGoesOn, Zenon
  <1>6. /\ work' \in [Worker -> Job] /\ Others(w)
        /\ work'[w].pc = to /\ work'[w].new = new
        /\ work'[w].of = work[w].of /\ work'[w].owner = work[w].owner /\ work'[w].old = work[w].old
        /\ work'[w].seen = work[w].seen /\ work'[w].kept = work[w].kept
    BY <1>b, <1>e
  <1>7. PlacementFits(w) /\ JobFits(w)
    BY <1>4 DEF IInv, JobsFit, JobFits
  <1>8. /\ work[w].new = {}
        /\ \A x \in plan : /\ x \in Place /\ Settled(x.part) /\ x.rows # {} /\ x.rows \subseteq Target(w)
                           /\ Keys(x.rows) \subseteq Span(x.part)
        /\ \A r \in Target(w) : \E x \in plan : r \in x.rows
        /\ \A r \in Target(w) : \A x, y \in plan : r \in x.rows /\ r \in y.rows => x = y
    BY <1>a, <1>0, <1>7 DEF PlacementFits
  <1>9. \A c \in new : /\ at[c] \in plan /\ at[c].part \in PartId /\ at[c].rows \subseteq Row
                       /\ chunk'[c].state = "created" /\ chunk'[c].part = at[c].part /\ chunk'[c].rows = at[c].rows
    BY <1>0, <1>1, <1>8 DEF Place
  <1>10. chunk' \in [ChunkId -> ChunkRow]
    <2>1. \A c \in new : [state |-> "created", part |-> at[c].part, rows |-> at[c].rows] \in ChunkRow
      BY <1>9 DEF ChunkRow
    <2> QED BY <1>0, <1>1, <2>1
  <1>11. \A c \in ChunkId : c \notin new => chunk'[c] = chunk[c]
    BY <1>1
  <1>12. \A p : (Settled(p) => Settled(p)') /\ Span(p)' = Span(p) /\ Exists(p)' = Exists(p)
    <2>1. ~Compacts(w)'
      BY <1>4, <1>6 DEF Compacts
    <2> QED BY <1>0, <1>6, <2>1 DEF Settled, Span, Exists, Is, Others, Compacts
  <1>13. ChunksStay
    BY <1>0, <1>11 DEF ChunksStay
  <1>14. ChunksFit'
    <2> SUFFICES ASSUME NEW c \in ChunkId PROVE ChunkFits(c)'
      BY DEF ChunksFit
    <2>1. ChunkFits(c)
      BY DEF IInv, ChunksFit
    <2>2. CASE c \in new
      <3>1. Settled(at[c].part)' /\ Keys(at[c].rows) \subseteq Span(at[c].part)' /\ at[c].rows # {}
        BY <1>8, <1>9, <1>12, <2>2
      <3> QED BY <1>0, <1>9, <2>1, <2>2, <3>1 DEF ChunkFits
    <2>3. CASE c \notin new
      <3>1. chunk'[c] = chunk[c]
        BY <1>11, <2>3
      <3>2. Settled(chunk[c].part) => Settled(chunk[c].part)'
        BY <1>12, <3>1 DEF Settled, Is
      <3>3. Span(chunk[c].part)' = Span(chunk[c].part) /\ (Exists(chunk[c].part) => Exists(chunk[c].part)')
        BY <1>0, <3>1 DEF Span, Exists
      <3> QED BY <1>0, <2>1, <3>1, <3>2, <3>3 DEF ChunkFits
    <2> QED BY <2>2, <2>3
  <1>15. ReadOnce'
    <2>1. \A r \in Row, c \in ChunkId : InChunk(r, c)' <=> InChunk(r, c)
      BY <1>0, <1>9, <1>11 DEF InChunk
    <2>2. \A r \in Row, p \in PartId : InFile(r, p)' <=> InFile(r, p)
      BY <1>0 DEF InFile, Is
    <2> QED BY <1>0, <2>1, <2>2, ReadsRest DEF IInv
  <1>16. JobFits(w)'
    <2>1. to \in ImportJob <=> from \in ImportJob
      BY <1>a DEF ImportJob
    <2>2. to \in MoveJob <=> from \in MoveJob
      BY <1>a DEF MoveJob
    <2>3. /\ to \in ImportJob => work[w].of \in Batch \ committed' /\ work[w].old = {}
          /\ to \in MoveJob => /\ work[w].of \in ChunkId /\ work[w].old = {work[w].of}
                               /\ chunk'[work[w].of].state \in {"active", "inactive", "gone"}
                               /\ chunk'[work[w].of] = chunk[work[w].of]
      BY <1>0, <1>7, <1>11, <2>1, <2>2 DEF PlacementFits
    <2>4. Target(w)' = Target(w)
      BY <1>0, <1>4, <1>6, <2>1, <2>3 DEF Target, Places
    <2>5. \A c \in new : /\ c \in ChunkId /\ chunk'[c].state \in {"created", "gone"}
                         /\ c \notin work[w].kept /\ c \notin doomed' /\ chunk'[c].rows \subseteq Target(w)'
      <3>1. \A c \in new : c \notin work[w].kept
        BY <1>0, <1>7 DEF JobFits
      <3>2. \A c \in new : c \notin doomed
        BY <1>0 DEF IInv, ChunksFit, ChunkFits
      <3> QED BY <1>0, <1>8, <1>9, <2>4, <3>1, <3>2
    <2>6. \A r \in Target(w)' : \E c \in new : r \in chunk'[c].rows
      <3> SUFFICES ASSUME NEW r \in Target(w) PROVE \E c \in new : r \in chunk'[c].rows
        BY <2>4
      <3>1. PICK x \in plan : r \in x.rows
        BY <1>8
      <3>2. PICK c \in new : at[c] = x
        BY <1>1
      <3> QED BY <1>9, <3>1, <3>2
    <2>7. \A r \in Target(w)' : \A c, d \in new : r \in chunk'[c].rows /\ r \in chunk'[d].rows => c = d
      <3> SUFFICES ASSUME NEW r \in Target(w), NEW c \in new, NEW d \in new, r \in chunk'[c].rows, r \in chunk'[d].rows
                   PROVE  c = d
        BY <2>4
      <3>1. at[c] \in plan /\ at[d] \in plan /\ r \in at[c].rows /\ r \in at[d].rows
        BY <1>9
      <3>2. at[c] = at[d]
        BY <1>8, <3>1
      <3> QED BY <1>2, <3>2
    <2>8. to \notin {"import", "move"}
      BY <1>a
    <2>9. PlacementFits(w)'
      BY <1>6, <2>3, <2>5, <2>6, <2>7, <2>8 DEF PlacementFits
    <2>10. (\A p \in work[w].seen : ~Is(p, "none")') /\ \A c \in work[w].kept : chunk'[c].state # "none"
      <3>1. work[w].kept \subseteq ChunkId
        BY <1>0 DEF Job
      <3> QED BY <1>0, <1>7, <1>13, <3>1 DEF JobFits, Is, ChunksStay
    <2> QED BY <1>4, <1>6, <2>9, <2>10 DEF JobFits, Compacts
  <1>17. \A v \in Worker : v # w => Apart(v, w)'
    <2> SUFFICES ASSUME NEW v \in Worker, v # w PROVE Apart(v, w)'
      OBVIOUS
    <2>1. work'[v] = work[v]
      BY <1>6 DEF Others
    <2>2. Places(v) => work[v].new \cap new = {}
      BY <1>0, NewIs DEF IInv, JobsFit
    <2>3. to \in ImportJob <=> from \in ImportJob
      BY <1>a DEF ImportJob
    <2>4. work[v].pc \in ImportJob /\ to \in ImportJob => work[v].of # work[w].of
      BY <1>0, <2>3 DEF IInv, JobsApart, Apart
    <2> QED BY <1>4, <1>6, <2>1, <2>2, <2>4 DEF Apart, Compacts, Places
  <1>18. \A v \in Worker : v # w /\ Places(v) => \A c \in work[v].new :
           chunk[c].state \in {"created", "gone"} => chunk'[c].state \in {"created", "gone"}
    BY <1>0, <1>11, NewIs DEF IInv, JobsFit
  <1>19. /\ \A v \in Worker : v # w /\ work[v].pc \in ImportJob => work[v].of \notin committed'
         /\ committed' \subseteq Batch
    BY <1>0, NewIs DEF IInv, JobsFit, StateOK
  <1>20. ~Compacts(w)' /\ work[w].pc # "idle"
    BY <1>0, <1>4, <1>6 DEF Compacts
  <1> QED BY <1>0, <1>6, <1>10, <1>13, <1>14, <1>15, <1>16, <1>17, <1>18, <1>19, <1>20, ChunkStep

LEMMA SetChunksIs ==
    ASSUME chunk \in [ChunkId -> ChunkRow], NEW off, NEW on, SetChunks(off, on), part' = part
    PROVE  /\ chunk' \in [ChunkId -> ChunkRow]
           /\ \A c \in ChunkId : /\ chunk'[c].part = chunk[c].part /\ chunk'[c].rows = chunk[c].rows
                                 /\ c \in off => chunk'[c].state = "inactive"
                                 /\ c \in on /\ c \notin off => chunk'[c].state = "active"
                                 /\ c \notin on /\ c \notin off => chunk'[c] = chunk[c]
  <1>1. \A c \in ChunkId : /\ [chunk[c] EXCEPT !.state = "inactive"] \in ChunkRow
                           /\ [chunk[c] EXCEPT !.state = "inactive"].state = "inactive"
                           /\ [chunk[c] EXCEPT !.state = "inactive"].part = chunk[c].part
                           /\ [chunk[c] EXCEPT !.state = "inactive"].rows = chunk[c].rows
                           /\ [chunk[c] EXCEPT !.state = "active"] \in ChunkRow
                           /\ [chunk[c] EXCEPT !.state = "active"].state = "active"
                           /\ [chunk[c] EXCEPT !.state = "active"].part = chunk[c].part
                           /\ [chunk[c] EXCEPT !.state = "active"].rows = chunk[c].rows
    BY DEF ChunkRow
  <1>2. \A c \in ChunkId : chunk'[c] = IF c \in off THEN [chunk[c] EXCEPT !.state = "inactive"]
                                       ELSE IF c \in on THEN [chunk[c] EXCEPT !.state = "active"] ELSE chunk[c]
    BY DEF SetChunks
  <1>3. chunk' = [c \in ChunkId |-> chunk'[c]]
    BY DEF SetChunks
  <1>4. \A c \in ChunkId : chunk'[c] \in ChunkRow
    BY <1>1, <1>2
  <1>5. chunk' \in [ChunkId -> ChunkRow]
    BY <1>3, <1>4
  <1> QED BY <1>1, <1>2, <1>5

\* Chunks are switched on and off at the end of an import or a repartition.
LEMMA SwitchStep ==
    ASSUME IInv, NEW w \in Worker, End(w), NEW off, NEW on, SetChunks(off, on),
           part' = part, files' = files, doomed' = doomed, committed' \subseteq Batch,
           posted' = posted, ready' = ready, faults' = faults, Places(w),
           \A c \in off : c \in ChunkId /\ chunk[c].state = "active" /\ c \notin on,
           on \subseteq work[w].new, \A c \in on : chunk[c].state # "gone" /\ Exists(chunk[c].part),
           ReadOnce',
           \A v \in Worker : v # w /\ work[v].pc \in ImportJob => work[v].of \notin committed'
    PROVE  IInv'
  <1>0. /\ work \in [Worker -> Job] /\ chunk \in [ChunkId -> ChunkRow] /\ JobFits(w)
    BY DEF IInv, StateOK, JobsFit
  <1>1. work' \in [Worker -> Job] /\ Others(w) /\ IdleJob(w)
    BY <1>0, EndIs
  <1>2. JobFits(w)' /\ (\A v \in Worker : Apart(v, w)') /\ ~Compacts(w)'
    BY <1>1, IdleFits
  <1>3. /\ chunk' \in [ChunkId -> ChunkRow]
        /\ \A c \in ChunkId : /\ chunk'[c].part = chunk[c].part /\ chunk'[c].rows = chunk[c].rows
                              /\ c \in off => chunk'[c].state = "inactive"
                              /\ c \in on /\ c \notin off => chunk'[c].state = "active"
                              /\ c \notin on /\ c \notin off => chunk'[c] = chunk[c]
    BY <1>0, SetChunksIs
  <1>4. \A c \in on : c \in ChunkId /\ chunk[c].state = "created" /\ c \notin doomed
    BY <1>0, NewIs
  <1>5. ChunksStay
    BY <1>3, <1>4 DEF ChunksStay
  <1>6. PartsStay
    <2>1. NoNewChildren
      BY <1>1, <1>2 DEF NoNewChildren, Others, Compacts
    <2> QED BY <2>1, PartsRest DEF IInv
  <1>7. ChunksFit'
    <2> SUFFICES ASSUME NEW c \in ChunkId PROVE ChunkFits(c)'
      BY DEF ChunksFit
    <2>1. ChunkFits(c)
      BY DEF IInv, ChunksFit
    <2>2. Exists(chunk[c].part)' = Exists(chunk[c].part)
      BY <1>3 DEF Exists
    <2>3. chunk'[c].state = "active" => Exists(chunk[c].part)'
      BY <1>3, <2>1, <2>2 DEF ChunkFits
    <2>4. c \in doomed' => chunk'[c].state \in {"created", "inactive"}
      BY <1>3, <1>4, <2>1 DEF ChunkFits
    <2>5. chunk[c].state = "none" => chunk'[c].state = "none"
      BY <1>3, <1>4
    <2> QED BY <1>3, <1>6, <2>1, <2>3, <2>4, <2>5, ChunkStays
  <1>8. \A v \in Worker : v # w /\ Places(v) => \A c \in work[v].new :
          chunk[c].state \in {"created", "gone"} => chunk'[c].state \in {"created", "gone"}
    <2> SUFFICES ASSUME NEW v \in Worker, v # w, Places(v), NEW c \in work[v].new, chunk[c].state \in {"created", "gone"}
                 PROVE  chunk'[c].state \in {"created", "gone"}
      OBVIOUS
    <2>1. c \in ChunkId
      BY NewIs DEF IInv, JobsFit
    <2>2. c \notin on
      BY DEF IInv, JobsApart, Apart
    <2> QED BY <1>3, <2>1, <2>2
  <1> QED BY <1>1, <1>2, <1>3, <1>5, <1>7, <1>8, ChunkStep

LEMMA ActivateStep == ASSUME IInv, NEW w \in Worker, Activate(w) PROVE IInv'
  <1> DEFINE new == work[w].new
             there == \A c \in new : chunk[c].state # "gone" /\ Exists(chunk[c].part)
  <1>0. /\ work[w].pc = "imported" /\ SetChunks({}, IF there THEN new ELSE {}) /\ End(w)
        /\ committed' = (IF there THEN committed \cup {work[w].of} ELSE committed)
        /\ part' = part /\ files' = files /\ doomed' = doomed /\ ready' = ready /\ faults' = faults
        /\ posted' = posted /\ work[w].pc \in ImportJob
    BY DEF Activate, ImportJob
  <1>1. Places(w) /\ JobFits(w) /\ PlacementFits(w)
    BY <1>0 DEF IInv, JobsFit, JobFits, Places
  <1>2. work[w].of \in Batch \ committed /\ Target(w) = {r \in Row : r[1] = work[w].of}
    BY <1>0, <1>1 DEF PlacementFits, Target
  <1>3. /\ \A c \in new : /\ c \in ChunkId /\ chunk[c].state \in {"created", "gone"} /\ chunk[c].rows \subseteq Target(w)
        /\ \A r \in Target(w) : \E c \in new : r \in chunk[c].rows
        /\ \A r \in Target(w) : \A c, d \in new : r \in chunk[c].rows /\ r \in chunk[d].rows => c = d
    BY <1>0, <1>1 DEF PlacementFits
  <1>4. /\ committed' \subseteq Batch
        /\ \A v \in Worker : v # w /\ work[v].pc \in ImportJob => work[v].of \notin committed'
    <2>1. \A v \in Worker : v # w /\ work[v].pc \in ImportJob => work[v].of \notin committed /\ work[v].of # work[w].of
      BY <1>0, NewIs DEF IInv, JobsFit, JobsApart, Apart
    <2> QED BY <1>0, <1>2, <2>1 DEF IInv, StateOK
  <1>5. PICK on : on = IF there THEN new ELSE {}
    OBVIOUS
  <1>6. SetChunks({}, on) /\ on \subseteq new /\ \A c \in on : chunk[c].state # "gone" /\ Exists(chunk[c].part)
    BY <1>0, <1>5
  <1>7. \A c \in ChunkId : /\ chunk'[c].rows = chunk[c].rows
                           /\ c \in on => chunk'[c].state = "active"
                           /\ c \notin on => chunk'[c] = chunk[c]
    BY <1>0, <1>6, SetChunksIs DEF IInv, StateOK
  <1>8. ReadOnce'
    <2> SUFFICES ASSUME NEW r \in Row
                 PROVE  /\ r[1] \in committed' => (\E p \in PartId : InFile(r, p)') \/ (\E c \in ChunkId : InChunk(r, c)')
                        /\ r[1] \notin committed' => (\A p \in PartId : ~InFile(r, p)') /\ (\A c \in ChunkId : ~InChunk(r, c)')
                        /\ \A p, q \in PartId : InFile(r, p)' /\ InFile(r, q)' => p = q
                        /\ \A c, d \in ChunkId : InChunk(r, c)' /\ InChunk(r, d)' => c = d
                        /\ \A p \in PartId, c \in ChunkId : ~(InFile(r, p)' /\ InChunk(r, c)')
      BY DEF ReadOnce
    <2>1. \A p \in PartId : InFile(r, p)' <=> InFile(r, p)
      BY <1>0 DEF InFile, Is
    <2>2. CASE there /\ r[1] = work[w].of
      <3>1. r \in Target(w) /\ on = new /\ r[1] \in committed'
        BY <1>0, <1>2, <1>5, <2>2
      <3>2. (\A p \in PartId : ~InFile(r, p)) /\ \A c \in ChunkId : ~InChunk(r, c)
        BY <1>2, <2>2 DEF IInv, ReadOnce
      <3>3. \A c \in ChunkId : InChunk(r, c)' <=> c \in new /\ r \in chunk[c].rows
        BY <1>3, <1>7, <3>1, <3>2 DEF InChunk
      <3> QED BY <1>3, <2>1, <3>1, <3>2, <3>3
    <2>3. CASE ~(there /\ r[1] = work[w].of)
      <3>1. \A c \in on : r \notin chunk[c].rows /\ chunk[c].state # "active"
        BY <1>2, <1>3, <1>5, <2>3
      <3>2. \A c \in ChunkId : InChunk(r, c)' <=> InChunk(r, c)
        BY <1>7, <3>1 DEF InChunk
      <3>3. r[1] \in committed' <=> r[1] \in committed
        BY <1>0, <2>3
      <3> QED BY <2>1, <3>2, <3>3 DEF IInv, ReadOnce
    <2> QED BY <2>2, <2>3
  <1> QED BY <1>0, <1>1, <1>4, <1>6, <1>8, SwitchStep

LEMMA SwapChunksStep == ASSUME IInv, NEW w \in Worker, SwapChunks(w) PROVE IInv'
  <1> DEFINE new == work[w].new
  <1>0. /\ work[w].pc = "moved" /\ End(w)
        /\ part' = part /\ files' = files /\ doomed' = doomed /\ ready' = ready /\ committed' = committed
        /\ faults' = faults /\ faults' \in 0..MaxFaults /\ ready' \in BOOLEAN /\ files' \subseteq PartId
        /\ posted' = posted /\ work[w].pc \in MoveJob /\ work[w].pc \notin ImportJob
    BY DEF SwapChunks, MoveJob, ImportJob, IInv, StateOK
  <1>1. CASE ~MaySwap(w)
    <2>1. chunk' = chunk
      BY <1>1 DEF SwapChunks
    <2> QED BY <1>0, <2>1, EndStep
  <1>2. CASE MaySwap(w)
    <2>1. Places(w) /\ JobFits(w) /\ PlacementFits(w)
      BY <1>0 DEF IInv, JobsFit, JobFits, Places
    <2>2. PICK of \in ChunkId : /\ of = work[w].of /\ work[w].old = {of} /\ Target(w) = chunk[of].rows
      BY <1>0, <2>1 DEF PlacementFits, Target
    <2>3. chunk[of].state = "active" /\ \A c \in new : chunk[c].state = "created" /\ Exists(chunk[c].part)
      BY <1>2, <2>2 DEF MaySwap
    <2>4. /\ \A c \in new : /\ c \in ChunkId /\ chunk[c].rows \subseteq Target(w)
          /\ \A r \in Target(w) : \E c \in new : r \in chunk[c].rows
          /\ \A r \in Target(w) : \A c, d \in new : r \in chunk[c].rows /\ r \in chunk[d].rows => c = d
      BY <1>0, <2>1 DEF PlacementFits
    <2>5. SetChunks({of}, new)
      BY <1>2, <2>2 DEF SwapChunks
    <2>6. \A c \in ChunkId : /\ chunk'[c].rows = chunk[c].rows
                             /\ c = of => chunk'[c].state = "inactive"
                             /\ c \in new => chunk'[c].state = "active"
                             /\ c # of /\ c \notin new => chunk'[c] = chunk[c]
      BY <1>0, <2>3, <2>5, SetChunksIs DEF IInv, StateOK
    <2>7. ReadOnce'
      <3> SUFFICES ASSUME NEW r \in Row
                   PROVE  /\ r[1] \in committed => (\E p \in PartId : InFile(r, p)') \/ (\E c \in ChunkId : InChunk(r, c)')
                          /\ r[1] \notin committed => (\A p \in PartId : ~InFile(r, p)') /\ (\A c \in ChunkId : ~InChunk(r, c)')
                          /\ \A p, q \in PartId : InFile(r, p)' /\ InFile(r, q)' => p = q
                          /\ \A c, d \in ChunkId : InChunk(r, c)' /\ InChunk(r, d)' => c = d
                          /\ \A p \in PartId, c \in ChunkId : ~(InFile(r, p)' /\ InChunk(r, c)')
        BY <1>0 DEF ReadOnce
      <3>1. \A p \in PartId : InFile(r, p)' <=> InFile(r, p)
        BY <1>0 DEF InFile, Is
      <3>2. CASE r \in chunk[of].rows
        <4>1. InChunk(r, of)
          BY <2>3, <3>2 DEF InChunk
        <4>2. r[1] \in committed /\ (\A p \in PartId : ~InFile(r, p)) /\ \A c \in ChunkId : InChunk(r, c) => c = of
          BY <4>1 DEF IInv, ReadOnce
        <4>3. \A c \in ChunkId : InChunk(r, c)' <=> c \in new /\ r \in chunk[c].rows
          BY <2>3, <2>6, <4>2 DEF InChunk
        <4> QED BY <2>2, <2>4, <3>1, <3>2, <4>2, <4>3
      <3>3. CASE r \notin chunk[of].rows
        <4>1. \A c \in new : r \notin chunk[c].rows
          BY <2>2, <2>4, <3>3
        <4>2. \A c \in ChunkId : InChunk(r, c)' <=> InChunk(r, c)
          BY <2>6, <3>3, <4>1 DEF InChunk
        <4> QED BY <3>1, <4>2 DEF IInv, ReadOnce
      <3> QED BY <3>2, <3>3
    <2>8. /\ committed' \subseteq Batch
          /\ \A v \in Worker : v # w /\ work[v].pc \in ImportJob => work[v].of \notin committed'
      BY <1>0, NewIs DEF IInv, JobsFit, StateOK
    <2>9. \A c \in {of} : c \in ChunkId /\ chunk[c].state = "active" /\ c \notin new
      BY <2>3
    <2>10. \A c \in new : chunk[c].state # "gone" /\ Exists(chunk[c].part)
      BY <2>3
    <2> QED BY <1>0, <2>1, <2>5, <2>7, <2>8, <2>9, <2>10, SwitchStep
  <1> QED BY <1>1, <1>2

-----------------------------------------------------------------------------
(* Garbage collection.                                                     *)

LEMMA FaultlessRests ==
    ASSUME Faultless, work' = work, faults' = faults, ready' = ready,
           \A p \in Active : part'[p].state = "active",
           \A v \in Worker : Compacts(v) => work[v].of \in PartId
    PROVE  Faultless'
  BY DEF Faultless, Compacts, Is, Active

\* A step of the garbage collection.
LEMMA CollectStep ==
    ASSUME IInv, part' \in [PartId -> Partition], chunk' \in [ChunkId -> ChunkRow],
           files' \subseteq PartId, doomed' \subseteq ChunkId, posted' \subseteq PartId,
           work' = work, ready' = ready, committed' = committed, faults' = faults,
           PartsStay, ChunksStay, PartsFit', IdsInOrder', ParentsExist', ChunksFit', Tiled', ReadOnce',
           \A p \in Active : part'[p].state = "active",
           \A v \in Worker : Spared(v)
    PROVE  IInv'
  <1>1. StateOK'
    BY DEF IInv, StateOK
  <1>2. JobsFit' /\ JobsApart'
    BY JobsRest DEF IInv
  <1>3. \A v \in Worker : Compacts(v) => work[v].of \in PartId
    BY NewIs DEF IInv, JobsFit
  <1>4. Faultless'
    BY <1>3, FaultlessRests DEF IInv
  <1> QED BY <1>1, <1>2, <1>4 DEF IInv

LEMMA RemoveFileStep == ASSUME IInv, NEW p \in PartId, RemoveFile(p) PROVE IInv'
  <1>0. /\ Is(p, "inactive") /\ part[p].rows # {} /\ files' = files \ {p}
        /\ part' = part /\ chunk' = chunk /\ work' = work /\ doomed' = doomed
        /\ posted' = posted /\ ready' = ready /\ committed' = committed /\ faults' = faults
    BY DEF RemoveFile
  <1>1. NoNewChildren /\ \A q \in Active : q \in files => q \in files'
    BY <1>0 DEF NoNewChildren, Compacts, Active, Is
  <1>2. PartsStay /\ PartsFit' /\ IdsInOrder' /\ ParentsExist' /\ Tiled'
    BY <1>0, <1>1, PartsRest DEF IInv
  <1>3. ChunksFit' /\ ChunksStay
    <2>1. \A c \in ChunkId : c \in doomed' => chunk[c].state \in {"created", "inactive"}
      BY <1>0 DEF IInv, ChunksFit, ChunkFits
    <2>2. \A c \in ActiveChunks : Exists(chunk[c].part) => Exists(chunk[c].part)'
      BY <1>0 DEF Exists
    <2> QED BY <1>0, <1>2, <2>1, <2>2, ChunksRest DEF IInv
  <1>4. ReadOnce'
    BY <1>0, ReadsRest DEF IInv, InFile, InChunk, Is
  <1>5. \A v \in Worker : Spared(v)
    <2> SUFFICES ASSUME NEW v \in Worker PROVE Spared(v)
      OBVIOUS
    <2>1. JobFits(v)
      BY DEF IInv, JobsFit
    <2>2. Compacts(v) => p \notin work[v].new
      BY <1>0, <2>1, NewIs
    <2> QED BY <1>0, <2>1, <2>2, NewIs DEF Spared
  <1>6. /\ part' \in [PartId -> Partition] /\ chunk' \in [ChunkId -> ChunkRow]
        /\ files' \subseteq PartId /\ doomed' \subseteq ChunkId /\ posted' \subseteq PartId
        /\ \A q \in Active : part'[q].state = "active"
    BY <1>0 DEF IInv, StateOK, Active, Is
  <1> QED BY <1>0, <1>2, <1>3, <1>4, <1>5, <1>6, CollectStep

\* Chunks that were found unused are not those of a job that still runs.
LEMMA PickStep == ASSUME IInv, NEW C \in SUBSET ChunkId, PickChunks(C) PROVE IInv'
  <1>0. /\ doomed' = C
        /\ \A c \in C : chunk[c].state = "inactive" \/ (chunk[c].state = "created" /\ OutlivedChunk(c))
        /\ part' = part /\ chunk' = chunk /\ work' = work /\ files' = files
        /\ posted' = posted /\ ready' = ready /\ committed' = committed /\ faults' = faults
    BY DEF PickChunks
  <1>1. NoNewChildren /\ \A q \in Active : q \in files => q \in files'
    BY <1>0 DEF NoNewChildren, Compacts
  <1>2. PartsStay /\ PartsFit' /\ IdsInOrder' /\ ParentsExist' /\ Tiled'
    BY <1>0, <1>1, PartsRest DEF IInv
  <1>3. ChunksFit' /\ ChunksStay
    <2>1. \A c \in ChunkId : c \in doomed' => chunk[c].state \in {"created", "inactive"}
      BY <1>0
    <2>2. \A c \in ActiveChunks : Exists(chunk[c].part) => Exists(chunk[c].part)'
      BY <1>0 DEF Exists
    <2> QED BY <1>0, <1>2, <2>1, <2>2, ChunksRest DEF IInv
  <1>4. ReadOnce'
    BY <1>0, ReadsRest DEF IInv, InFile, InChunk, Is
  <1>5. \A v \in Worker : Spared(v)
    <2> SUFFICES ASSUME NEW v \in Worker PROVE Spared(v)
      OBVIOUS
    <2>1. JobFits(v)
      BY DEF IInv, JobsFit
    <2>3. ASSUME Places(v), NEW c \in work[v].new
          PROVE  c \notin C
      <3>1. v \in Busy
        BY <2>3 DEF Busy, Places, ImportJob, MoveJob
      <3>2. chunk[c].state \in {"created", "gone"} /\ c \notin work[v].kept
        BY <2>1, <2>3, NewIs
      <3> QED BY <1>0, <3>1, <3>2 DEF OutlivedChunk
    <2>4. work[v].pc \in ImportJob => work[v].of \notin committed'
      BY <1>0, <2>1, NewIs
    <2> QED BY <1>0, <2>3, <2>4 DEF Spared
  <1>6. /\ part' \in [PartId -> Partition] /\ chunk' \in [ChunkId -> ChunkRow]
        /\ files' \subseteq PartId /\ doomed' \subseteq ChunkId /\ posted' \subseteq PartId
        /\ \A q \in Active : part'[q].state = "active"
    BY <1>0 DEF IInv, StateOK, Active, Is
  <1> QED BY <1>0, <1>2, <1>3, <1>4, <1>5, <1>6, CollectStep

LEMMA DeleteChunksStep == ASSUME IInv, DeleteChunks PROVE IInv'
  <1>0. /\ doomed' = {} /\ chunk \in [ChunkId -> ChunkRow] /\ doomed \subseteq ChunkId
        /\ part' = part /\ work' = work /\ files' = files
        /\ posted' = posted /\ ready' = ready /\ committed' = committed /\ faults' = faults
    BY DEF DeleteChunks, IInv, StateOK
  <1>1. \A c \in doomed : chunk[c].state \in {"created", "inactive"}
    BY <1>0 DEF IInv, ChunksFit, ChunkFits
  <1>2. /\ chunk' \in [ChunkId -> ChunkRow]
        /\ \A c \in ChunkId : /\ c \notin doomed => chunk'[c] = chunk[c]
                              /\ c \in doomed => chunk'[c].state = "gone"
                              /\ chunk'[c].part = chunk[c].part /\ chunk'[c].rows = chunk[c].rows
    <2>1. \A c \in ChunkId : /\ [chunk[c] EXCEPT !.state = "gone"] \in ChunkRow
                             /\ [chunk[c] EXCEPT !.state = "gone"].state = "gone"
                             /\ [chunk[c] EXCEPT !.state = "gone"].part = chunk[c].part
                             /\ [chunk[c] EXCEPT !.state = "gone"].rows = chunk[c].rows
      BY <1>0 DEF ChunkRow
    <2>2. chunk' = [c \in ChunkId |-> IF c \in doomed THEN [chunk[c] EXCEPT !.state = "gone"] ELSE chunk[c]]
      BY DEF DeleteChunks
    <2> QED BY <1>0, <2>1, <2>2
  <1>3. NoNewChildren /\ \A q \in Active : q \in files => q \in files'
    BY <1>0 DEF NoNewChildren, Compacts
  <1>4. PartsStay /\ PartsFit' /\ IdsInOrder' /\ ParentsExist' /\ Tiled'
    BY <1>0, <1>3, PartsRest DEF IInv
  <1>5. ChunksStay
    BY <1>1, <1>2 DEF ChunksStay
  <1>6. ChunksFit'
    <2> SUFFICES ASSUME NEW c \in ChunkId PROVE ChunkFits(c)'
      BY DEF ChunksFit
    <2>1. ChunkFits(c)
      BY DEF IInv, ChunksFit
    <2>2. chunk'[c].state = "active" => Exists(chunk[c].part)'
      BY <1>0, <1>2, <2>1 DEF ChunkFits, Exists
    <2>3. chunk[c].state = "none" => chunk'[c].state = "none"
      BY <1>1, <1>2
    <2> QED BY <1>0, <1>2, <1>4, <2>1, <2>2, <2>3, ChunkStays
  <1>7. ReadOnce'
    <2>1. \A r \in Row, c \in ChunkId : InChunk(r, c)' <=> InChunk(r, c)
      BY <1>1, <1>2 DEF InChunk
    <2>2. \A r \in Row, p \in PartId : InFile(r, p)' <=> InFile(r, p)
      BY <1>0 DEF InFile, Is
    <2> QED BY <1>0, <2>1, <2>2, ReadsRest DEF IInv
  <1>8. \A v \in Worker : Spared(v)
    <2> SUFFICES ASSUME NEW v \in Worker PROVE Spared(v)
      OBVIOUS
    <2>1. JobFits(v)
      BY DEF IInv, JobsFit
    <2>3. Places(v) => \A c \in work[v].new : c \in ChunkId /\ c \notin doomed
      BY <2>1, NewIs
    <2>4. work[v].pc \in ImportJob => work[v].of \notin committed'
      BY <1>0, <2>1, NewIs
    <2> QED BY <1>0, <1>2, <2>3, <2>4 DEF Spared
  <1>9. /\ part' \in [PartId -> Partition]
        /\ files' \subseteq PartId /\ doomed' \subseteq ChunkId /\ posted' \subseteq PartId
        /\ \A q \in Active : part'[q].state = "active"
    BY <1>0 DEF IInv, StateOK, Active, Is
  <1> QED BY <1>0, <1>2, <1>4, <1>5, <1>6, <1>7, <1>8, <1>9, CollectStep

\* A step that changes the tasks at most.
LEMMA RestStep ==
    ASSUME IInv, posted' \subseteq PartId,
           UNCHANGED <<part, chunk, files, work, doomed, ready, committed, faults>>
    PROVE  IInv'
  <1>1. /\ part' = part /\ chunk' = chunk /\ files' = files /\ work' = work /\ doomed' = doomed
        /\ ready' = ready /\ committed' = committed /\ faults' = faults
    OBVIOUS
  <1>2. NoNewChildren
    BY <1>1 DEF NoNewChildren, Compacts
  <1>3. PartsStay /\ PartsFit' /\ IdsInOrder' /\ ParentsExist' /\ Tiled'
    BY <1>1, <1>2, PartsRest DEF IInv
  <1>4. ChunksFit' /\ ChunksStay
    <2>1. \A c \in ChunkId : c \in doomed' => chunk[c].state \in {"created", "inactive"}
      BY <1>1 DEF IInv, ChunksFit, ChunkFits
    <2>2. \A c \in ActiveChunks : Exists(chunk[c].part) => Exists(chunk[c].part)'
      BY <1>1 DEF Exists
    <2> QED BY <1>1, <1>3, <2>1, <2>2, ChunksRest DEF IInv
  <1>5. ReadOnce'
    BY <1>1, ReadsRest DEF IInv, InFile, InChunk, Is
  <1>6. \A v \in Worker : Spared(v)
    BY <1>1, SparedAtRest DEF IInv, JobsFit, SameJob
  <1>7. /\ part' \in [PartId -> Partition] /\ chunk' \in [ChunkId -> ChunkRow]
        /\ files' \subseteq PartId /\ doomed' \subseteq ChunkId
        /\ \A q \in Active : part'[q].state = "active"
    BY <1>1 DEF IInv, StateOK, Active, Is
  <1> QED BY <1>1, <1>3, <1>4, <1>5, <1>6, <1>7, CollectStep

\* An inactive partition goes, even one that a stale job is about; the parents of others
\* may change.
LEMMA PartitionGoes ==
    ASSUME IInv, NEW p \in PartId, Is(p, "inactive"), ~HasChunk(p),
           part' \in [PartId -> Partition],
           \A q \in PartId : /\ part'[q].lo = part[q].lo /\ part'[q].hi = part[q].hi /\ part'[q].rows = part[q].rows
                             /\ part'[q].state = IF q = p THEN "gone" ELSE part[q].state,
           ParentsExist', posted' \subseteq PartId,
           UNCHANGED <<chunk, files, work, doomed, ready, committed, faults>>
    PROVE  IInv'
  <1>1. \A q \in PartId : /\ Span(q)' = Span(q) /\ Is(q, "none")' = Is(q, "none")
                          /\ Is(q, "active")' = Is(q, "active")
                          /\ q # p => Exists(q)' = Exists(q)
    BY DEF Is, Span, Exists
  <1>2. \A q : Settled(q) => Settled(q)'
    BY <1>1 DEF Settled, Compacts
  <1>3. PartsStay
    BY <1>1, <1>2 DEF PartsStay
  <1>4. PartsFit' /\ IdsInOrder'
    BY <1>1, <1>2 DEF PartsFit, PartFits, IdsInOrder, IInv
  <1>5. Active' = Active /\ Active \subseteq PartId
    BY <1>1 DEF Active
  <1>6. Tiled'
    BY <1>1, <1>5 DEF Tiled, IInv
  <1>7. ChunksFit' /\ ChunksStay
    <2>1. \A c \in ChunkId : c \in doomed' => chunk[c].state \in {"created", "inactive"}
      BY DEF IInv, ChunksFit, ChunkFits
    <2>2. \A c \in ActiveChunks : Exists(chunk[c].part) => Exists(chunk[c].part)'
      <3> SUFFICES ASSUME NEW c \in ActiveChunks, Exists(chunk[c].part) PROVE Exists(chunk[c].part)'
        OBVIOUS
      <3>1. chunk[c].part # p /\ chunk[c].part \in PartId
        BY DEF HasChunk, ActiveChunks, IInv, ChunksFit, ChunkFits, Settled
      <3> QED BY <1>1, <3>1 DEF Exists
    <2> QED BY <1>3, <2>1, <2>2, ChunksRest DEF IInv
  <1>8. ReadOnce'
    <2>1. \A r \in Row, c \in ChunkId : InChunk(r, c)' <=> InChunk(r, c)
      BY DEF InChunk
    <2>2. \A r \in Row, q \in PartId : InFile(r, q)' <=> InFile(r, q)
      BY <1>1 DEF InFile
    <2> QED BY <2>1, <2>2, ReadsRest DEF IInv
  <1>9. \A v \in Worker : Spared(v)
    <2> SUFFICES ASSUME NEW v \in Worker PROVE Spared(v)
      OBVIOUS
    <2>1. JobFits(v)
      BY DEF IInv, JobsFit
    <2>2. Compacts(v) => \A q \in work[v].new : q \in PartId
      BY <2>1, NewIs
    <2>3. Places(v) => \A c \in work[v].new : c \in ChunkId /\ c \notin doomed
      BY <2>1, NewIs
    <2>4. work[v].pc \in ImportJob => work[v].of \notin committed'
      BY <2>1, NewIs
    <2> QED BY <2>2, <2>3, <2>4 DEF Spared
  <1>10. /\ chunk' \in [ChunkId -> ChunkRow]
         /\ files' \subseteq PartId /\ doomed' \subseteq ChunkId /\ posted' \subseteq PartId
         /\ \A q \in Active : part'[q].state = "active"
    BY <1>5 DEF IInv, StateOK, Active, Is
  <1> QED BY <1>3, <1>4, <1>6, <1>7, <1>8, <1>9, <1>10, CollectStep

\* What such a step does to the tree: the children of p, if there are any, get a parent
\* that is there.
LEMMA ParentsAfter ==
    ASSUME IInv, NEW p \in PartId, Is(p, "inactive"), NEW up,
           \A q \in PartId : /\ part'[q].lo = part[q].lo /\ part'[q].hi = part[q].hi /\ part'[q].rows = part[q].rows
                             /\ part'[q].state = IF q = p THEN "gone" ELSE part[q].state
                             /\ q # p => part'[q].parent = IF q \in Children(p) THEN up ELSE part[q].parent
                             /\ q # p /\ q \notin Children(p) => part'[q] = part[q],
           Children(p) # {} => up \in PartId /\ Settled(up) /\ up < p /\ Exists(up),
           UNCHANGED <<work, faults>>
    PROVE  ParentsExist'
  <1> SUFFICES ASSUME NEW q \in PartId, Exists(q)', part'[q].parent # NoPart
               PROVE  /\ part'[q].parent < q /\ Settled(part[q].parent)'
                      /\ Exists(part[q].parent)' \/ Lost(q)'
    BY DEF ParentsExist, ParentExists
  <1>1. q # p /\ Exists(q)
    BY DEF Exists
  <1>2. \A o \in PartId : Settled(o) => Settled(o)'
    BY DEF Settled, Is, Compacts
  <1>3. \A o \in PartId : o # p /\ Exists(o) => Exists(o)'
    BY DEF Exists
  <1>4. CASE q \in Children(p)
    <2>1. part[q].parent = p /\ p # NoPart /\ part'[q].parent = up /\ up \in PartId
      BY <1>1, <1>4 DEF Children, PartId, NoPart
    <2>2. p < q /\ up # p
      BY <1>1, <1>4, <2>1 DEF IInv, ParentsExist, ParentExists, PartId
    <2>3. up < q
      BY <1>4, <2>1, <2>2 DEF PartId
    <2> QED BY <1>2, <1>3, <1>4, <2>1, <2>2, <2>3 DEF Settled, Exists, Is
  <1>5. CASE q \notin Children(p)
    <2>1. part'[q] = part[q] /\ part[q].parent # p
      BY <1>1, <1>5 DEF Children
    <2>2. PICK o \in PartId : o = part[q].parent /\ o # p /\ o < q /\ Settled(o) /\ (Exists(o) \/ Lost(q))
      BY <1>1, <2>1 DEF IInv, ParentsExist, ParentExists, Settled
    <2>3. Lost(q) => Lost(q)'
      <3>1. NoNewChildren
        BY DEF NoNewChildren, Compacts
      <3>2. \A v \in Worker : Compacts(v) => work[v].of \in PartId
        BY NewIs DEF IInv, JobsFit
      <3>3. \A v \in Worker : Compacts(v) /\ part'[work[v].of].state = "active" => Is(work[v].of, "active")
        BY <3>2 DEF Is
      <3> QED BY <2>1, <3>1, <3>3, LostStays
    <2> QED BY <1>2, <1>3, <2>1, <2>2, <2>3 DEF Settled, Exists, Is
  <1> QED BY <1>4, <1>5

LEMMA DeletePartitionStep == ASSUME IInv, NEW p \in PartId, DeletePartition(p) PROVE IInv'
  <1>0. /\ Is(p, "inactive") /\ ~HasChunk(p) /\ Children(p) = {}
        /\ part' = [part EXCEPT ![p].state = "gone"] /\ part \in [PartId -> Partition]
        /\ UNCHANGED <<chunk, files, work, doomed, ready, committed, faults>>
        /\ posted' \subseteq PartId
    BY DEF DeletePartition, JustCreated, IInv, StateOK
  <1>1. [part[p] EXCEPT !.state = "gone"] \in Partition
    BY <1>0 DEF Partition
  <1>2. /\ part' \in [PartId -> Partition]
        /\ part'[p] = [part[p] EXCEPT !.state = "gone"] /\ \A q \in PartId \ {p} : part'[q] = part[q]
    BY <1>0, <1>1
  <1>3. \A q \in PartId : /\ part'[q].lo = part[q].lo /\ part'[q].hi = part[q].hi /\ part'[q].rows = part[q].rows
                          /\ part'[q].parent = part[q].parent
                          /\ part'[q].state = IF q = p THEN "gone" ELSE part[q].state
    BY <1>0, <1>2 DEF Partition
  <1>4. ParentsExist'
    BY <1>0, <1>2, <1>3, ParentsAfter
  <1> QED BY <1>0, <1>2, <1>3, <1>4, PartitionGoes

\* The parent of a partition is older than it, so that the children that are
\* handed to it keep a parent that is there.
LEMMA BypassStep ==
    ASSUME IInv, NEW p \in PartId, IsMiddleMan(p), part' = BypassedBy(p), posted' \subseteq PartId,
           UNCHANGED <<chunk, files, work, doomed, ready, committed, faults>>
    PROVE  IInv'
  <1> DEFINE up == part[p].parent
  <1>0. /\ Is(p, "inactive") /\ ~HasChunk(p) /\ Exists(up)
        /\ part' = [q \in PartId |->
             IF q = p THEN [part[q] EXCEPT !.state = "gone"]
             ELSE IF q \in Children(p) THEN [part[q] EXCEPT !.parent = up] ELSE part[q]]
        /\ part \in [PartId -> Partition]
    BY DEF IsMiddleMan, BypassedBy, IInv, StateOK
  <1>1. up \in PartId /\ Settled(up) /\ up < p
    <2>1. Exists(p) /\ up # NoPart
      BY <1>0 DEF Exists, Is, PartId, NoPart
    <2>2. Settled(up) /\ up < p
      BY <2>1 DEF IInv, ParentsExist, ParentExists
    <2> QED BY <2>2 DEF Settled
  <1> HIDE DEF up
  <1>2. \A q \in PartId : /\ [part[q] EXCEPT !.state = "gone"] \in Partition
                          /\ [part[q] EXCEPT !.parent = up] \in Partition
    BY <1>0, <1>1 DEF Partition
  <1>3. part' \in [PartId -> Partition]
    BY <1>0, <1>2
  <1>4. \A q \in PartId : /\ part'[q].lo = part[q].lo /\ part'[q].hi = part[q].hi /\ part'[q].rows = part[q].rows
                          /\ part'[q].state = IF q = p THEN "gone" ELSE part[q].state
                          /\ q # p => part'[q].parent = IF q \in Children(p) THEN up ELSE part[q].parent
                          /\ q # p /\ q \notin Children(p) => part'[q] = part[q]
    BY <1>0 DEF Partition
  <1>5. ParentsExist'
    BY <1>0, <1>1, <1>4, ParentsAfter
  <1> QED BY <1>0, <1>3, <1>4, <1>5, PartitionGoes

\* A task that finds its partition unfit is dropped.
LEMMA MiddleManStep == ASSUME IInv, NEW p \in PartId, DeleteMiddleMan(p) PROVE IInv'
  <1>0. posted' \subseteq PartId /\ UNCHANGED <<chunk, files, work, doomed, ready, committed, faults>>
    BY DEF DeleteMiddleMan, IInv, StateOK
  <1>1. CASE IsMiddleMan(p)
    <2>1. part' = BypassedBy(p)
      BY <1>1 DEF DeleteMiddleMan
    <2> QED BY <1>0, <1>1, <2>1, BypassStep
  <1>2. CASE ~IsMiddleMan(p)
    <2>1. part' = part
      BY <1>2 DEF DeleteMiddleMan
    <2> QED BY <1>0, <2>1, RestStep
  <1> QED BY <1>1, <1>2

\* The tasks that are posted are new to the jobs that run, and that is all that changes.
LEMMA PostStep == ASSUME IInv, PostMiddleMen PROVE IInv'
  <1>1. PICK found \in SUBSET PartId :
          /\ posted' = posted \cup found
          /\ work' = [w \in Worker |-> [work[w] EXCEPT !.after = @ \ found]]
          /\ UNCHANGED <<part, chunk, files, doomed, ready, committed, faults>>
    BY DEF PostMiddleMen
  <1>2. work \in [Worker -> Job] /\ posted' \subseteq PartId
    BY <1>1 DEF IInv, StateOK
  <1>3. \A w \in Worker : [work[w] EXCEPT !.after = @ \ found] \in Job
    BY <1>2 DEF Job
  <1>4. work' \in [Worker -> Job]
    BY <1>1, <1>3
  <1>5. \A w \in Worker : SameJob(w) /\ work'[w].owner = work[w].owner
    <2> SUFFICES ASSUME NEW w \in Worker PROVE SameJob(w) /\ work'[w].owner = work[w].owner
      OBVIOUS
    <2>1. work[w] \in Job /\ work'[w] = [work[w] EXCEPT !.after = @ \ found]
      BY <1>1, <1>2
    <2> QED BY <2>1 DEF SameJob, Job
  <1>6. NoNewChildren
    BY <1>5 DEF NoNewChildren, Compacts, SameJob
  <1>7. PartsStay /\ PartsFit' /\ IdsInOrder' /\ ParentsExist' /\ Tiled'
    BY <1>1, <1>6, PartsRest DEF IInv
  <1>8. ChunksFit' /\ ChunksStay
    <2>1. \A c \in ChunkId : c \in doomed' => chunk[c].state \in {"created", "inactive"}
      BY <1>1 DEF IInv, ChunksFit, ChunkFits
    <2>2. \A c \in ActiveChunks : Exists(chunk[c].part) => Exists(chunk[c].part)'
      BY <1>1 DEF Exists
    <2> QED BY <1>1, <1>7, <2>1, <2>2, ChunksRest DEF IInv
  <1>9. ReadOnce'
    BY <1>1, ReadsRest DEF IInv, InFile, InChunk, Is
  <1>10. JobsFit'
    <2> SUFFICES ASSUME NEW v \in Worker PROVE JobFits(v)'
      BY DEF JobsFit
    <2>1. JobFits(v)
      BY DEF IInv, JobsFit
    <2>2. Spared(v)
      BY <1>1, <1>5, <2>1, SparedAtRest
    <2> QED BY <1>5, <1>7, <1>8, <2>1, <2>2, JobStays DEF IInv
  <1>11. JobsApart'
    BY <1>5 DEF IInv, JobsApart, Apart, SameJob, Compacts, Places
  <1>12. Faultless'
    <2> SUFFICES ASSUME faults = 0 PROVE Faultless'
      BY <1>1 DEF Faultless
    <2>1. /\ ready' = ready /\ part' = part
          /\ \A w \in Worker : /\ work'[w].pc = work[w].pc /\ work'[w].of = work[w].of
                               /\ work'[w].owner = work[w].owner
      BY <1>1, <1>5 DEF SameJob
    <2>2. \A w \in Worker : Compacts(w)' <=> Compacts(w)
      BY <2>1 DEF Compacts
    <2>3. \A w \in Worker : Compacts(w)' => part'[work'[w].of].state = "active"
      BY <2>1, <2>2 DEF IInv, Faultless, Is
    <2>4. /\ ready' /\ \A w \in Worker : work'[w].pc # "idle" => work'[w].owner
          /\ \A v, w \in Worker : v # w /\ Compacts(v)' /\ Compacts(w)' => work'[v].of # work'[w].of
      BY <2>1, <2>2 DEF IInv, Faultless
    <2> QED BY <2>3, <2>4 DEF Faultless, Is
  <1>13. StateOK'
    BY <1>1, <1>2, <1>4 DEF IInv, StateOK
  <1> QED BY <1>7, <1>8, <1>9, <1>10, <1>11, <1>12, <1>13 DEF IInv

-----------------------------------------------------------------------------
(* Compaction.                                                             *)

LEMMA CreateChildrenStep == ASSUME IInv, NEW w \in Worker, NEW n \in 1..2, CreateChildren(w, n) PROVE IInv'
  <1> DEFINE new == FreshParts(n)
             child == [state |-> "inactive", lo |-> 0, hi |-> Top, parent |-> work[w].of, rows |-> {}]
  <1>0. /\ work \in [Worker -> Job] /\ part \in [PartId -> Partition] /\ work[w].pc = "compact"
        /\ Cardinality(new) = n
        /\ part' = [p \in PartId |-> IF p \in new THEN child ELSE part[p]]
        /\ work' = [work EXCEPT ![w] = [work[w] EXCEPT !.pc = "created", !.new = new]]
        /\ chunk' = chunk /\ files' = files /\ doomed' = doomed /\ posted' = posted
        /\ ready' = ready /\ committed' = committed /\ faults' = faults
    BY DEF CreateChildren, IInv, StateOK
  <1>1. /\ \A p \in new : p \in PartId /\ Is(p, "none")
        /\ \A p, q \in PartId : Is(p, "none") /\ p < q /\ q \in new => p \in new
    BY <1>0, FreshPartsAre
  <1> HIDE DEF new
  <1>2. Compacts(w) /\ JobFits(w) /\ CompactionFits(w)
    BY <1>0 DEF Compacts, CompactJob, IInv, JobsFit, JobFits
  <1>3. PICK of \in PartId : of = work[w].of /\ Settled(of) /\ of \notin new
    BY <1>1, <1>2, NewIs DEF Settled
  <1>4. child \in Partition
    BY <1>3, KeyIs DEF Partition
  <1>5. /\ part' \in [PartId -> Partition]
        /\ \A p \in PartId : p \notin new => part'[p] = part[p]
        /\ \A p \in new : /\ part'[p].state = "inactive" /\ part'[p].lo = 0 /\ part'[p].hi = Top
                          /\ part'[p].parent = of /\ part'[p].rows = {}
    BY <1>0, <1>1, <1>3, <1>4
  <1> HIDE DEF child
  <1>6. PICK pc \in CompactJob \cup MoveJob \cup ImportJob, made \in SUBSET (PartId \cup ChunkId),
             plan \in SUBSET (Piece \cup Place) : pc = "created" /\ made = new /\ plan = work[w].plan
    BY <1>0, <1>1 DEF CompactJob, Job
  <1>7. work \in [Worker -> Job] /\ work' = [work EXCEPT ![w] = [work[w] EXCEPT !.pc = pc, !.new = made, !.plan = plan]]
    <2>1. work[w] \in Job
      BY <1>0
    <2>2. [work[w] EXCEPT !.pc = "created", !.new = new] = [work[w] EXCEPT !.pc = pc, !.new = made, !.plan = plan]
      BY <1>6, <2>1 DEF Job
    <2> QED BY <1>0, <2>2
  <1>8. /\ work' \in [Worker -> Job] /\ Others(w)
        /\ work'[w].pc = pc /\ work'[w].new = made /\ work'[w].plan = plan
        /\ work'[w].of = work[w].of /\ work'[w].owner = work[w].owner /\ work'[w].old = work[w].old
        /\ work'[w].seen = work[w].seen /\ work'[w].kept = work[w].kept
    BY <1>7, JobGoesOn, Zenon
  <1>9. /\ work' \in [Worker -> Job] /\ Others(w)
        /\ work'[w].pc = "created" /\ work'[w].new = new
        /\ work'[w].of = of /\ work'[w].owner = work[w].owner /\ work'[w].old = work[w].old
        /\ work'[w].seen = work[w].seen /\ work'[w].kept = work[w].kept
    BY <1>3, <1>6, <1>8
  <1>10. \A p \in PartId : /\ p \notin new => Span(p)' = Span(p) /\ Exists(p)' = Exists(p)
                           /\ Is(p, "none")' <=> Is(p, "none") /\ p \notin new
                           /\ Is(p, "active")' <=> Is(p, "active")
    BY <1>1, <1>5 DEF Span, Exists, Is
  <1>11. \A p : Settled(p) => Settled(p)' /\ p \notin new /\ p \in PartId
    BY <1>1, <1>9, <1>10 DEF Settled, Compacts, Others
  <1>12. PartsStay
    BY <1>1, <1>5, <1>10, <1>11 DEF PartsStay
  <1>13. PartsFit'
    <2> SUFFICES ASSUME NEW p \in PartId PROVE PartFits(p)'
      BY DEF PartsFit
    <2>1. PartFits(p)
      BY DEF IInv, PartsFit
    <2>2. CASE p \in new
      BY <1>1, <1>5, <1>10, <2>2 DEF PartFits, Keys, Is
    <2>3. CASE p \notin new
      <3>1. Span(p)' = Span(p) /\ (Is(p, "active")' <=> Is(p, "active")) /\ part'[p] = part[p]
        BY <1>5, <1>10, <2>3
      <3> QED BY <1>0, <1>11, <2>1, <3>1 DEF PartFits
    <2> QED BY <2>2, <2>3
  <1>14. IdsInOrder'
    BY <1>1, <1>10 DEF IInv, IdsInOrder
  <1>15. ParentsExist'
    <2> SUFFICES ASSUME NEW q \in PartId, Exists(q)', part'[q].parent # NoPart
                 PROVE  /\ part'[q].parent < q /\ Settled(part[q].parent)'
                        /\ Exists(part[q].parent)' \/ Lost(q)'
      BY DEF ParentsExist, ParentExists
    <2>1. CASE q \in new
      <3>1. ~Is(of, "none") /\ Is(q, "none") /\ of # q
        BY <1>1, <1>3, <2>1 DEF Settled
      <3>2. ~(q < of)
        BY <3>1 DEF IInv, IdsInOrder
      <3>3. of < q /\ part'[q].parent = of
        BY <1>5, <2>1, <3>1, <3>2 DEF PartId
      <3>4. CASE Exists(of)
        BY <1>3, <1>10, <1>11, <3>3, <3>4 DEF Exists, Settled, Is
      <3>5. CASE ~Exists(of)
        <4>1. ~Is(of, "active") /\ ~Is(of, "active")'
          BY <1>3, <1>10, <3>5 DEF Exists, Is, PartId, NoPart
        <4>2. faults' > 0
          BY <1>0, <1>2, <1>3, <4>1 DEF IInv, StateOK, Faultless
        <4>3. JustCreated(q)'
          BY <1>5, <2>1 DEF JustCreated, Is
        <4>4. ASSUME NEW v \in Worker, Compacts(v)', q \in work'[v].new
              PROVE  ~Is(work[v].of, "active")'
          <5>1. CASE v = w
            BY <1>9, <4>1, <5>1 DEF Is
          <5>2. CASE v # w
            <6>1. Compacts(v) /\ q \in work[v].new
              BY <1>9, <4>4, <5>2 DEF Others, Compacts
            <6> QED BY <3>1, <6>1, NewIs DEF IInv, JobsFit, Is
          <5> QED BY <5>1, <5>2
        <4>5. Lost(q)'
          BY <4>2, <4>3, <4>4 DEF Lost
        <4> QED BY <1>3, <1>11, <3>3, <4>5 DEF Settled, Is
      <3> QED BY <3>4, <3>5
    <2>2. CASE q \notin new
      <3>1. part'[q] = part[q] /\ Exists(q)
        BY <1>5, <1>10, <2>2
      <3>2. PICK o \in PartId : o = part[q].parent /\ o < q /\ Settled(o) /\ (Exists(o) \/ Lost(q))
        BY <3>1 DEF IInv, ParentsExist, ParentExists, Settled
      <3>3. o \notin new /\ Settled(o)' /\ (Exists(o) => Exists(o)')
        BY <1>10, <1>11, <3>2
      <3>4. Lost(q) => Lost(q)'
        <4>1. NoNewChildren
          BY <1>1, <1>2, <1>3, <1>9 DEF NoNewChildren, Others, Compacts
        <4>2. \A v \in Worker : Compacts(v) => work[v].of \in PartId
          BY NewIs DEF IInv, JobsFit
        <4>3. \A v \in Worker : Compacts(v) /\ part'[work[v].of].state = "active" => Is(work[v].of, "active")
          BY <1>10, <4>2 DEF Is
        <4> QED BY <1>0, <3>1, <4>1, <4>3, LostStays
      <3> QED BY <3>1, <3>2, <3>3, <3>4 DEF Exists, Settled, Is
    <2> QED BY <2>1, <2>2
  <1>16. Tiled'
    <2>1. Active' = Active /\ \A p \in Active : Span(p)' = Span(p)
      BY <1>1, <1>10 DEF Active, Is
    <2> QED BY <2>1 DEF Tiled, IInv
  <1>17. ChunksFit' /\ ChunksStay
    <2>1. \A c \in ChunkId : c \in doomed' => chunk[c].state \in {"created", "inactive"}
      BY <1>0 DEF IInv, ChunksFit, ChunkFits
    <2>2. \A c \in ActiveChunks : Exists(chunk[c].part) => Exists(chunk[c].part)'
      <3> SUFFICES ASSUME NEW c \in ActiveChunks, Exists(chunk[c].part) PROVE Exists(chunk[c].part)'
        OBVIOUS
      <3>1. chunk[c].part \notin new
        BY <1>1 DEF Exists, Is
      <3>2. chunk[c].part \in PartId
        BY DEF ActiveChunks, IInv, ChunksFit, ChunkFits, Settled
      <3> QED BY <1>0, <1>5, <3>1, <3>2 DEF Exists
    <2> QED BY <1>0, <1>12, <2>1, <2>2, ChunksRest DEF IInv
  <1>18. ReadOnce'
    <2>1. \A r \in Row, c \in ChunkId : InChunk(r, c)' <=> InChunk(r, c)
      BY <1>0 DEF InChunk
    <2>2. \A r \in Row, q \in PartId : InFile(r, q)' <=> InFile(r, q)
      BY <1>1, <1>5, <1>10 DEF InFile, Is
    <2> QED BY <1>0, <2>1, <2>2, ReadsRest DEF IInv
  <1>19. JobFits(w)'
    <2>1. CompactionFits(w)'
      <3>1. \A c \in work[w].old : /\ chunk[c].state \in {"active", "inactive", "gone"}
                                   /\ Keys(chunk[c].rows) \subseteq Span(of)
        BY <1>2, <1>3 DEF CompactionFits
      <3>2. work[w].old # {} /\ of \notin work[w].seen
        BY <1>2, <1>3 DEF CompactionFits
      <3>3. \A p \in new : p \in PartId /\ p \notin work[w].seen
        BY <1>1, <1>2 DEF JobFits
      <3>4. Settled(of)' /\ Span(of)' = Span(of)
        BY <1>3, <1>10, <1>11
      <3>5. Cardinality(new) \in 1..2
        BY <1>0
      <3> QED BY <1>0, <1>5, <1>9, <3>1, <3>2, <3>3, <3>4, <3>5 DEF CompactionFits
    <2>2. ~Places(w)'
      BY <1>9 DEF Places, MoveJob, ImportJob
    <2>3. (\A p \in work[w].seen : ~Is(p, "none")') /\ \A c \in work[w].kept : chunk'[c].state # "none"
      <3>1. work[w].seen \subseteq PartId
        BY <1>0 DEF Job
      <3> QED BY <1>0, <1>2, <1>12, <3>1 DEF JobFits, PartsStay
    <2> QED BY <1>9, <2>1, <2>2, <2>3 DEF JobFits
  <1>20. \A v \in Worker : v # w => Spared(v) /\ Apart(v, w)'
    <2> SUFFICES ASSUME NEW v \in Worker, v # w PROVE Spared(v) /\ Apart(v, w)'
      OBVIOUS
    <2>1. JobFits(v) /\ work'[v] = work[v]
      BY <1>9 DEF IInv, JobsFit, Others
    <2>2. ASSUME Compacts(v)
          PROVE  \A p \in work[v].new : p \in PartId /\ p \notin new /\ part'[p] = part[p]
      <3>1. \A p \in work[v].new : p \in PartId /\ p \notin new
        BY <1>1, <2>1, <2>2, NewIs DEF Is
      <3> QED BY <1>5, <3>1
    <2>3. Places(v) => \A c \in work[v].new : c \in ChunkId /\ c \notin doomed
      BY <2>1, NewIs
    <2>4. work[v].pc \in ImportJob => work[v].of \notin committed'
      BY <1>0, <2>1, NewIs
    <2>5. Spared(v)
      BY <1>0, <2>2, <2>3, <2>4 DEF Spared
    <2>6. Apart(v, w)'
      BY <1>9, <2>1, <2>2 DEF Apart, Compacts, Places, MoveJob, ImportJob
    <2> QED BY <2>5, <2>6
  <1>21. JobsFit' /\ JobsApart'
    BY <1>9, <1>12, <1>17, <1>19, <1>20, JobsStay DEF IInv
  <1>22. Faultless'
    <2>1. faults = 0 => \A v \in Worker : Compacts(v)' /\ Is(work[v].of, "active") => Is(work[v].of, "active")'
      <3> SUFFICES ASSUME NEW v \in Worker, Compacts(v)', Is(work[v].of, "active") PROVE Is(work[v].of, "active")'
        OBVIOUS
      <3>1. Compacts(v) /\ work'[v].of = work[v].of
        BY <1>2, <1>3, <1>9 DEF Others, Compacts
      <3>2. work[v].of \in PartId
        BY <3>1, NewIs DEF IInv, JobsFit
      <3> QED BY <1>10, <3>1, <3>2 DEF Is
    <2>2. work[w].pc # "idle" /\ work'[w].of = work[w].of
      BY <1>0, <1>3, <1>9
    <2> QED BY <1>0, <1>2, <1>9, <2>1, <2>2, FaultlessStays DEF IInv
  <1>23. StateOK'
    BY <1>0, <1>5, <1>9 DEF IInv, StateOK
  <1> QED BY <1>12, <1>13, <1>14, <1>15, <1>16, <1>17, <1>18, <1>21, <1>22, <1>23 DEF IInv

\* The pieces that are written divide what was read, and the range, between them.
LEMMA PiecesSplit ==
    ASSUME NEW p \in PartId, part[p] \in Partition, PartFits(p), NEW rows \in SUBSET Row,
           part[p].rows \subseteq rows, Keys(rows) \subseteq Span(p), NEW n, NEW plan \in Pieces(p, rows, n)
    PROVE  plan \in SUBSET Piece /\ Split(p, rows, plan)
  <1> DEFINE lo == part[p].lo
             hi == part[p].hi
             below(k) == {r \in rows : r[2] < k}
             above(k) == {r \in rows : ~(r[2] < k)}
  <1>0. lo \in 0..Top /\ hi \in 0..Top /\ lo \in Nat
    BY KeyIs DEF Partition
  <1>1. \A k \in Keys(rows) : k \in Nat /\ k \in 0..Top /\ lo <= k
    BY KeyIs DEF Span
  <1>2. CASE plan = {[lo |-> lo, hi |-> hi, rows |-> rows]}
    <2>1. Split(p, rows, plan)
      BY <1>2 DEF Split
    <2>2. [lo |-> lo, hi |-> hi, rows |-> rows] \in Piece
      BY <1>0 DEF Piece
    <2> QED BY <1>2, <2>1, <2>2
  <1>3. ASSUME NEW k \in Keys(rows), k # Least(Keys(rows)),
               plan = {[lo |-> IF lo = 0 THEN 0 ELSE Least(Keys(below(k))), hi |-> k, rows |-> below(k)],
                       [lo |-> k, hi |-> hi, rows |-> rows \ below(k)]}
        PROVE  plan \in SUBSET Piece /\ Split(p, rows, plan)
    <2>1. below(k) # {}
      <3> SUFFICES ASSUME below(k) = {} PROVE FALSE
        OBVIOUS
      <3>1. \A r \in rows : ~(r[2] < k)
        OBVIOUS
      <3>2. \A y \in Keys(rows) : ~(y < k)
        BY <3>1, KeysOfRows
      <3>3. \A y \in Keys(rows) : k <= y
        BY <1>1, <3>2
      <3>4. Keys(rows) \in SUBSET Nat
        BY <1>1
      <3> QED BY <1>3, <3>3, <3>4, LeastIs
    <2>2. lo < k
      <3>1. PICK r \in rows : r[2] < k
        BY <2>1
      <3>2. r[2] \in Keys(rows)
        BY KeysOfRows
      <3> QED BY <1>0, <1>1, <3>1, <3>2
    <2>3. (IF lo = 0 THEN 0 ELSE Least(Keys(below(k)))) = lo
      <3> SUFFICES ASSUME lo # 0 PROVE Least(Keys(below(k))) = lo
        OBVIOUS
      <3>1. lo \in Keys(part[p].rows)
        BY DEF PartFits
      <3>2. PICK r \in rows : r[2] = lo
        BY <3>1, KeysOfRows
      <3>3. r \in below(k)
        BY <2>2, <3>2
      <3>4. lo \in Keys(below(k))
        BY <3>2, <3>3, KeysOfRows
      <3>5. \A y \in Keys(below(k)) : y \in Keys(rows)
        BY KeysOfRows
      <3>6. Keys(below(k)) \in SUBSET Nat /\ \A y \in Keys(below(k)) : lo <= y
        BY <1>1, <3>5
      <3> HIDE DEF lo, below
      <3> QED BY <3>4, <3>6, LeastIs
    <2>4. rows \ below(k) = above(k)
      OBVIOUS
    <2>5. plan = {[lo |-> lo, hi |-> k, rows |-> below(k)], [lo |-> k, hi |-> hi, rows |-> above(k)]}
      BY <1>3, <2>3, <2>4
    <2>6. Split(p, rows, plan)
      BY <2>1, <2>2, <2>5 DEF Split
    <2>7. [lo |-> lo, hi |-> k, rows |-> below(k)] \in Piece /\ [lo |-> k, hi |-> hi, rows |-> above(k)] \in Piece
      BY <1>0, <1>1 DEF Piece
    <2> QED BY <2>5, <2>6, <2>7
  <1>4. \/ plan = {[lo |-> lo, hi |-> hi, rows |-> rows]}
        \/ \E k \in Keys(rows) : /\ k # Least(Keys(rows))
             /\ plan = {[lo |-> IF lo = 0 THEN 0 ELSE Least(Keys(below(k))), hi |-> k, rows |-> below(k)],
                        [lo |-> k, hi |-> hi, rows |-> rows \ below(k)]}
    BY DEF Pieces
  <1> QED BY <1>2, <1>3, <1>4

\* What a compaction reads.
LEMMA InputFits ==
    ASSUME IInv, NEW w \in Worker, Compacts(w)
    PROVE  /\ work[w].of \in PartId /\ part[work[w].of] \in Partition /\ PartFits(work[w].of)
           /\ Input(w) \in SUBSET Row /\ part[work[w].of].rows \subseteq Input(w)
           /\ Keys(Input(w)) \subseteq Span(work[w].of)
           /\ \A c \in work[w].old : c \in ChunkId /\ chunk[c].rows \subseteq Input(w)
  <1>1. JobFits(w) /\ CompactionFits(w)
    BY DEF IInv, JobsFit, JobFits
  <1>2. PICK of \in PartId : of = work[w].of
    BY <1>1, NewIs
  <1>3. part[of] \in Partition /\ PartFits(of) /\ part[of].rows \subseteq Row
    BY DEF IInv, StateOK, PartsFit, Partition
  <1>4. \A c \in work[w].old : c \in ChunkId /\ chunk[c].rows \subseteq Row /\ Keys(chunk[c].rows) \subseteq Span(of)
    BY <1>1, <1>2 DEF CompactionFits, IInv, StateOK, Job, ChunkRow
  <1>5. /\ Input(w) \in SUBSET Row /\ part[of].rows \subseteq Input(w)
        /\ \A c \in work[w].old : chunk[c].rows \subseteq Input(w)
        /\ \A r \in Input(w) : r \in part[of].rows \/ \E c \in work[w].old : r \in chunk[c].rows
    BY <1>2, <1>3, <1>4 DEF Input
  <1>6. \A r \in Input(w) : r[2] \in Span(of)
    BY <1>3, <1>4, <1>5, KeysOfRows DEF PartFits
  <1>7. Keys(Input(w)) \subseteq Span(of)
    BY <1>6, KeysOfRows
  <1> QED BY <1>2, <1>3, <1>4, <1>5, <1>7

LEMMA WriteStep == ASSUME IInv, NEW w \in Worker, WriteFiles(w) PROVE IInv'
  <1> DEFINE new == work[w].new
  <1>0. /\ work \in [Worker -> Job] /\ part \in [PartId -> Partition] /\ files \subseteq PartId
        /\ work[w].pc = "created"
        /\ chunk' = chunk /\ doomed' = doomed /\ posted' = posted
        /\ ready' = ready /\ committed' = committed /\ faults' = faults
    BY DEF WriteFiles, IInv, StateOK
  <1>1. Compacts(w) /\ JobFits(w) /\ CompactionFits(w)
    BY <1>0 DEF Compacts, CompactJob, IInv, JobsFit, JobFits
  <1>2. PICK of \in PartId : of = work[w].of /\ Settled(of) /\ of \notin new
    BY <1>1, NewIs DEF Settled
  <1>3. \A p \in new : /\ p \in PartId /\ p \notin work[w].seen
                       /\ part[p].state \in {"inactive", "gone"} /\ part[p].rows = {}
                       /\ part[p].lo = 0 /\ part[p].hi = Top
    BY <1>1, NewIs
  <1>a. PICK plan \in Pieces(work[w].of, Input(w), Cardinality(new)), used \in SUBSET new :
          /\ Cardinality(used) = Cardinality(plan)
          /\ files' = files \cup used
          /\ IF \A s \in new \ used : Exists(s)
             THEN /\ part' = [q \in PartId |-> IF q \in new \ used THEN [part[q] EXCEPT !.state = "gone"] ELSE part[q]]
                  /\ work' = [work EXCEPT ![w].pc = "written", ![w].new = used, ![w].plan = plan]
             ELSE UNCHANGED part /\ End(w)
    BY Zenon DEF WriteFiles, Input
  <1>b. work[w] \in Job
    BY <1>0
  <1>c. [work EXCEPT ![w].pc = "written", ![w].new = used, ![w].plan = plan]
          = [work EXCEPT ![w] = [work[w] EXCEPT !.pc = "written", !.new = used, !.plan = plan]]
    BY <1>0, <1>b
  <1>4. /\ plan \in Pieces(of, Input(w), Cardinality(new)) /\ used \in SUBSET new
        /\ Cardinality(used) = Cardinality(plan)
        /\ files' = files \cup used
        /\ IF \A s \in new \ used : Exists(s)
           THEN /\ part' = [q \in PartId |-> IF q \in new \ used THEN [part[q] EXCEPT !.state = "gone"] ELSE part[q]]
                /\ work' = [work EXCEPT ![w] = [work[w] EXCEPT !.pc = "written", !.new = used, !.plan = plan]]
           ELSE part' = part /\ End(w)
    BY <1>2, <1>a, <1>c, Zenon
  <1>5. plan \in SUBSET Piece /\ Split(of, Input(w), plan)
    BY <1>1, <1>2, InputFits, PiecesSplit
  <1>6. files \subseteq files' /\ files' \subseteq PartId /\ used \subseteq PartId
    BY <1>0, <1>3, <1>4
  <1>7. CASE ~ \A s \in new \ used : Exists(s)
    <2>1. part' = part /\ End(w)
      BY <1>4, <1>7
    <2>2. ready' \in BOOLEAN /\ faults' \in 0..MaxFaults
      BY <1>0 DEF IInv, StateOK
    <2> QED BY <1>0, <1>6, <2>1, <2>2, EndStep
  <1>8. CASE \A s \in new \ used : Exists(s)
    <2> DEFINE spare == new \ used
    <2>1. PICK pc \in CompactJob \cup MoveJob \cup ImportJob, made \in SUBSET (PartId \cup ChunkId),
               what \in SUBSET (Piece \cup Place) : pc = "written" /\ made = used /\ what = plan
      BY <1>5, <1>6 DEF CompactJob
    <2>2. work \in [Worker -> Job] /\ work' = [work EXCEPT ![w] = [work[w] EXCEPT !.pc = pc, !.new = made, !.plan = what]]
      BY <1>0, <1>4, <1>8, <2>1
    <2>3. /\ work' \in [Worker -> Job] /\ Others(w)
          /\ work'[w].pc = pc /\ work'[w].new = made /\ work'[w].plan = what
          /\ work'[w].of = work[w].of /\ work'[w].owner = work[w].owner /\ work'[w].old = work[w].old
          /\ work'[w].seen = work[w].seen /\ work'[w].kept = work[w].kept
      BY <2>2, JobGoesOn, Zenon
    <2>4. /\ work'[w].pc = "written" /\ work'[w].new = used /\ work'[w].plan = plan
          /\ work'[w].of = of /\ work'[w].owner = work[w].owner /\ work'[w].old = work[w].old
          /\ work'[w].seen = work[w].seen /\ work'[w].kept = work[w].kept
      BY <1>2, <2>1, <2>3
    <2>5. \A s \in spare : s \in PartId /\ s \in new /\ part[s].state = "inactive"
      BY <1>3, <1>8 DEF Exists
    <2>6. /\ part' \in [PartId -> Partition]
          /\ \A q \in PartId : /\ q \notin spare => part'[q] = part[q]
                               /\ q \in spare => part'[q].state = "gone"
                               /\ part'[q].lo = part[q].lo /\ part'[q].hi = part[q].hi
                               /\ part'[q].rows = part[q].rows /\ part'[q].parent = part[q].parent
      <3>1. \A q \in PartId : /\ [part[q] EXCEPT !.state = "gone"] \in Partition
                              /\ [part[q] EXCEPT !.state = "gone"].state = "gone"
                              /\ [part[q] EXCEPT !.state = "gone"].lo = part[q].lo
                              /\ [part[q] EXCEPT !.state = "gone"].hi = part[q].hi
                              /\ [part[q] EXCEPT !.state = "gone"].rows = part[q].rows
                              /\ [part[q] EXCEPT !.state = "gone"].parent = part[q].parent
        BY <1>0 DEF Partition
      <3>2. part' = [q \in PartId |-> IF q \in spare THEN [part[q] EXCEPT !.state = "gone"] ELSE part[q]]
        BY <1>4, <1>8
      <3> HIDE DEF spare
      <3> QED BY <1>0, <3>1, <3>2
    <2>7. \A q \in PartId : /\ Span(q)' = Span(q)
                            /\ q \notin spare => Exists(q)' = Exists(q)
                            /\ Is(q, "none")' <=> Is(q, "none")
                            /\ Is(q, "active")' <=> Is(q, "active")
      BY <2>5, <2>6 DEF Span, Exists, Is
    <2>8. \A q : Settled(q) => Settled(q)' /\ q \notin new /\ q \notin spare /\ q \in PartId
      BY <1>1, <2>3, <2>4, <2>7 DEF Settled, Compacts, Others
    <2> HIDE DEF spare
    <2>9. PartsStay
      BY <2>6, <2>7, <2>8 DEF PartsStay
    <2>10. PartsFit' /\ IdsInOrder'
      <3>1. \A p \in PartId : part'[p].rows # {} => (p \in files => p \in files')
        BY <1>6
      <3>2. \A p \in PartId : PartFits(p)'
        BY <1>6, <2>6, <2>7, <2>8 DEF PartFits, IInv, PartsFit
      <3> QED BY <2>7, <3>2 DEF PartsFit, IdsInOrder, IInv
    <2>11. ParentsExist'
      <3> SUFFICES ASSUME NEW q \in PartId, Exists(q)', part'[q].parent # NoPart
                   PROVE  /\ part'[q].parent < q /\ Settled(part[q].parent)'
                          /\ Exists(part[q].parent)' \/ Lost(q)'
        BY DEF ParentsExist, ParentExists
      <3>1. Exists(q) /\ part'[q] = part[q]
        BY <2>6 DEF Exists
      <3>2. PICK o \in PartId : o = part[q].parent /\ o < q /\ Settled(o) /\ (Exists(o) \/ Lost(q))
        BY <3>1 DEF IInv, ParentsExist, ParentExists, Settled
      <3>3. part'[o] = part[o] /\ Settled(o)'
        BY <2>6, <2>8, <3>2
      <3>4. Lost(q) => Lost(q)'
        <4>1. NoNewChildren
          BY <1>1, <1>2, <2>3, <2>4 DEF NoNewChildren, Others, Compacts
        <4>2. \A v \in Worker : Compacts(v) => work[v].of \in PartId
          BY NewIs DEF IInv, JobsFit
        <4>3. \A v \in Worker : Compacts(v) /\ part'[work[v].of].state = "active" => Is(work[v].of, "active")
          BY <2>7, <4>2 DEF Is
        <4> QED BY <1>0, <3>1, <4>1, <4>3, LostStays
      <3> QED BY <3>1, <3>2, <3>3, <3>4 DEF Exists, Settled, Is
    <2>12. Tiled'
      <3>1. Active' = Active /\ \A p \in Active : Span(p)' = Span(p)
        BY <2>7 DEF Active
      <3> QED BY <3>1 DEF Tiled, IInv
    <2>13. ChunksFit' /\ ChunksStay
      <3>1. \A c \in ChunkId : c \in doomed' => chunk[c].state \in {"created", "inactive"}
        BY <1>0 DEF IInv, ChunksFit, ChunkFits
      <3>2. \A c \in ActiveChunks : Exists(chunk[c].part) => Exists(chunk[c].part)'
        <4> SUFFICES ASSUME NEW c \in ActiveChunks, Exists(chunk[c].part) PROVE Exists(chunk[c].part)'
          OBVIOUS
        <4>1. Settled(chunk[c].part)
          BY DEF ActiveChunks, IInv, ChunksFit, ChunkFits
        <4>2. part'[chunk[c].part] = part[chunk[c].part]
          BY <2>6, <2>8, <4>1
        <4> QED BY <1>0, <4>2 DEF Exists
      <3> QED BY <1>0, <2>9, <3>1, <3>2, ChunksRest DEF IInv
    <2>14. ReadOnce'
      <3>1. \A r \in Row, c \in ChunkId : InChunk(r, c)' <=> InChunk(r, c)
        BY <1>0 DEF InChunk
      <3>2. \A r \in Row, q \in PartId : InFile(r, q)' <=> InFile(r, q)
        BY <2>6, <2>7 DEF InFile
      <3> QED BY <1>0, <3>1, <3>2, ReadsRest DEF IInv
    <2>15. JobFits(w)'
      <3>1. CompactionFits(w)'
        <4>1. \A c \in work[w].old : /\ chunk[c].state \in {"active", "inactive", "gone"}
                                     /\ Keys(chunk[c].rows) \subseteq Span(of)
          BY <1>1, <1>2 DEF CompactionFits
        <4>2. work[w].old # {} /\ of \notin work[w].seen
          BY <1>1, <1>2 DEF CompactionFits
        <4>3. \A p \in used : /\ p \in PartId /\ p \notin work[w].seen
                              /\ part'[p].state \in {"inactive", "gone"} /\ part'[p].rows = {}
                              /\ part'[p].lo = 0 /\ part'[p].hi = Top
          BY <1>3, <2>6
        <4>4. Settled(of)' /\ Span(of)' = Span(of) /\ part'[of] = part[of]
          BY <1>2, <2>6, <2>7, <2>8
        <4>5. Input(w)' = Input(w)
          BY <1>0, <1>2, <2>4, <4>4 DEF Input
        <4>6. Split(of, Input(w), plan)'
          BY <1>5, <4>4, <4>5 DEF Split
        <4>7. used \subseteq files' /\ Cardinality(used) = Cardinality(plan)
          BY <1>4
        <4> QED BY <1>0, <2>4, <4>1, <4>2, <4>3, <4>4, <4>6, <4>7 DEF CompactionFits
      <3>2. ~Places(w)'
        BY <2>4 DEF Places, MoveJob, ImportJob
      <3>3. (\A p \in work[w].seen : ~Is(p, "none")') /\ \A c \in work[w].kept : chunk'[c].state # "none"
        <4>1. work[w].seen \subseteq PartId
          BY <1>0 DEF Job
        <4> QED BY <1>0, <1>1, <2>9, <4>1 DEF JobFits, PartsStay
      <3> QED BY <2>4, <3>1, <3>2, <3>3 DEF JobFits
    <2>16. \A v \in Worker : v # w => Spared(v) /\ Apart(v, w)'
      <3> SUFFICES ASSUME NEW v \in Worker, v # w PROVE Spared(v) /\ Apart(v, w)'
        OBVIOUS
      <3>1. JobFits(v) /\ work'[v] = work[v]
        BY <2>3 DEF IInv, JobsFit, Others
      <3>2. ASSUME Compacts(v)
            PROVE  \A p \in work[v].new : p \in PartId /\ p \notin new /\ part'[p] = part[p]
        <4>3. \A p \in work[v].new : p \in PartId /\ p \notin new
          BY <1>1, <3>1, <3>2, NewIs DEF IInv, JobsApart, Apart
        <4>4. \A p \in work[v].new : p \notin spare
          BY <4>3 DEF spare
        <4> QED BY <2>6, <4>3, <4>4
      <3>3. Places(v) => \A c \in work[v].new : c \in ChunkId /\ c \notin doomed
        BY <3>1, NewIs
      <3>4. work[v].pc \in ImportJob => work[v].of \notin committed'
        BY <1>0, <3>1, NewIs
      <3>5. Spared(v)
        BY <1>0, <1>6, <3>2, <3>3, <3>4 DEF Spared
      <3>6. Apart(v, w)'
        BY <2>4, <3>1, <3>2 DEF Apart, Compacts, Places, MoveJob, ImportJob
      <3> QED BY <3>5, <3>6
    <2>17. JobsFit' /\ JobsApart'
      BY <2>3, <2>9, <2>13, <2>15, <2>16, JobsStay DEF IInv
    <2>18. Faultless'
      <3>1. faults = 0 => \A v \in Worker : Compacts(v)' /\ Is(work[v].of, "active") => Is(work[v].of, "active")'
        <4> SUFFICES ASSUME NEW v \in Worker, Compacts(v)', Is(work[v].of, "active") PROVE Is(work[v].of, "active")'
          OBVIOUS
        <4>1. Compacts(v) /\ work'[v].of = work[v].of
          BY <1>1, <1>2, <2>3, <2>4 DEF Others, Compacts
        <4>2. work[v].of \in PartId
          BY <4>1, NewIs DEF IInv, JobsFit
        <4> QED BY <2>7, <4>1, <4>2 DEF Is
      <3>2. work[w].pc # "idle" /\ work'[w].of = work[w].of
        BY <1>0, <1>2, <2>4
      <3> QED BY <1>0, <1>1, <2>3, <2>4, <3>1, <3>2, FaultlessStays DEF IInv
    <2>19. StateOK'
      BY <1>0, <1>6, <2>3, <2>6 DEF IInv, StateOK
    <2> QED BY <2>9, <2>10, <2>11, <2>12, <2>13, <2>14, <2>17, <2>18, <2>19 DEF IInv
  <1> QED BY <1>7, <1>8

\* A piece has its bounds within those of the partition, and its rows within its bounds.
PieceFits(p, rows, x) ==
  /\ x \in Piece /\ x.rows # {} /\ x.rows \subseteq rows
  /\ part[p].lo <= x.lo /\ x.hi <= part[p].hi
  /\ \A r \in x.rows : x.lo <= r[2] /\ r[2] < x.hi
  /\ x.lo # 0 => x.lo \in Keys(x.rows)

\* The pieces share the keys of the partition and the rows: each is in one of them.
LEMMA SplitShares ==
    ASSUME NEW p \in PartId, part[p] \in Partition, PartFits(p), NEW rows \in SUBSET Row, rows # {},
           part[p].rows \subseteq rows, Keys(rows) \subseteq Span(p), NEW plan, Split(p, rows, plan)
    PROVE  /\ IsFiniteSet(plan) /\ \A x \in plan : PieceFits(p, rows, x)
           /\ \A k \in Span(p) : \E x \in plan : x.lo <= k /\ k < x.hi
           /\ \A k \in Span(p) : \A x, y \in plan : x.lo <= k /\ k < x.hi /\ y.lo <= k /\ k < y.hi => x = y
           /\ \A r \in rows : \E x \in plan : r \in x.rows
           /\ \A r \in rows : \A x, y \in plan : r \in x.rows /\ r \in y.rows => x = y
           /\ Cardinality(plan) = 1 => \A x \in plan : x.lo = part[p].lo /\ x.hi = part[p].hi
  <1> DEFINE lo == part[p].lo
             hi == part[p].hi
  <1>0. lo \in 0..Top /\ hi \in 0..Top /\ lo \in Nat /\ hi \in Nat
    BY KeyIs DEF Partition
  <1>1. \A r \in rows : r[2] \in Nat /\ r[2] \in 0..Top /\ lo <= r[2] /\ r[2] < hi /\ r[2] \in Keys(rows)
    BY KeyIs, KeysOfRows DEF Span
  <1>2. \A k \in Span(p) : k \in Nat /\ lo <= k /\ k < hi
    BY KeyIs DEF Span
  <1>3. lo # 0 => \E r \in rows : r[2] = lo
    BY KeysOfRows DEF PartFits
  <1>4. CASE plan = {[lo |-> lo, hi |-> hi, rows |-> rows]}
    <2> DEFINE x == [lo |-> lo, hi |-> hi, rows |-> rows]
    <2>1. x \in Piece /\ x.lo = lo /\ x.hi = hi /\ x.rows = rows
      BY <1>0 DEF Piece
    <2>2. lo # 0 => lo \in Keys(rows)
      BY <1>1, <1>3
    <2> HIDE DEF x
    <2>3. PieceFits(p, rows, x)
      BY <1>0, <1>1, <2>1, <2>2 DEF PieceFits
    <2>4. plan = {x}
      BY <1>4 DEF x
    <2> QED BY <1>2, <2>1, <2>3, <2>4, FS_Singleton
  <1>5. ASSUME NEW k \in Keys(rows), lo < k, {r \in rows : r[2] < k} # {},
               plan = {[lo |-> lo, hi |-> k, rows |-> {r \in rows : r[2] < k}],
                       [lo |-> k, hi |-> hi, rows |-> {r \in rows : ~(r[2] < k)}]}
        PROVE  /\ IsFiniteSet(plan) /\ \A x \in plan : PieceFits(p, rows, x)
               /\ \A j \in Span(p) : \E x \in plan : x.lo <= j /\ j < x.hi
               /\ \A j \in Span(p) : \A x, y \in plan : x.lo <= j /\ j < x.hi /\ y.lo <= j /\ j < y.hi => x = y
               /\ \A r \in rows : \E x \in plan : r \in x.rows
               /\ \A r \in rows : \A x, y \in plan : r \in x.rows /\ r \in y.rows => x = y
               /\ Cardinality(plan) # 1
    <2> DEFINE below == {r \in rows : r[2] < k}
               above == {r \in rows : ~(r[2] < k)}
               x == [lo |-> lo, hi |-> k, rows |-> below]
               y == [lo |-> k, hi |-> hi, rows |-> above]
    <2>0. PICK s \in rows : s[2] = k
      BY KeysOfRows
    <2>1. k \in Nat /\ k \in 0..Top /\ lo < k /\ k < hi
      BY <1>1, <1>5, <2>0
    <2>2. /\ x \in Piece /\ x.lo = lo /\ x.hi = k /\ x.rows = below
          /\ y \in Piece /\ y.lo = k /\ y.hi = hi /\ y.rows = above
      BY <1>0, <2>1 DEF Piece
    <2>3. plan = {x, y}
      BY <1>5
    <2>4. below # {} /\ below \subseteq rows /\ \A r \in below : lo <= r[2] /\ r[2] < k
      BY <1>1, <1>5
    <2>5. s \in above /\ above \subseteq rows /\ \A r \in above : k <= r[2] /\ r[2] < hi
      BY <1>1, <2>0, <2>1
    <2>6. \A r \in rows : r \in below <=> r \notin above
      OBVIOUS
    <2>7. lo # 0 => lo \in Keys(below)
      <3>1. lo # 0 => \E r \in below : r[2] = lo
        BY <1>3, <2>1
      <3> QED BY <3>1, KeysOfRows
    <2>8. k \in Keys(above)
      BY <2>0, <2>5, KeysOfRows
    <2> HIDE DEF below, above, x, y
    <2>9. PieceFits(p, rows, x)
      BY <1>0, <2>1, <2>2, <2>4, <2>7 DEF PieceFits
    <2>10. PieceFits(p, rows, y)
      BY <1>0, <2>1, <2>2, <2>5, <2>8 DEF PieceFits
    <2>11. x # y
      BY <1>0, <2>1, <2>2
    <2>a. IsFiniteSet({x, y}) /\ Cardinality({x, y}) = 2
      BY <2>11, TwoOf
    <2>12. IsFiniteSet(plan) /\ Cardinality(plan) # 1
      BY <2>3, <2>a
    <2>13. \A j \in Span(p) : \E z \in plan : z.lo <= j /\ j < z.hi
      BY <1>2, <2>1, <2>2, <2>3
    <2>14. \A j \in Span(p) : ~(x.lo <= j /\ j < x.hi /\ y.lo <= j /\ j < y.hi)
      BY <1>2, <2>1, <2>2
    <2>15. \A r \in rows : /\ r \in x.rows \/ r \in y.rows
                           /\ ~(r \in x.rows /\ r \in y.rows)
      BY <2>2, <2>6
    <2> QED BY <2>3, <2>9, <2>10, <2>12, <2>13, <2>14, <2>15
  <1> QED BY <1>4, <1>5 DEF Split

\* The children take the pieces in order: each takes one, and all are taken.
LEMMA ChildrenTake ==
    ASSUME NEW new \in SUBSET PartId, NEW plan, IsFiniteSet(plan), Cardinality(new) = Cardinality(plan),
           \A x \in plan : x.lo \in Nat,
           NEW at \in [new -> plan], \A q, o \in new : q < o => at[q].lo < at[o].lo
    PROVE  /\ \A q, o \in new : at[q] = at[o] => q = o
           /\ \A x \in plan : \E q \in new : at[q] = x
  <1>1. ASSUME NEW q \in new, NEW o \in new, at[q] = at[o]
        PROVE  q = o
    <2>0. q \in PartId /\ o \in PartId /\ at[q] \in plan
      OBVIOUS
    <2>1. q \in Int /\ o \in Int /\ at[q].lo \in Nat
      BY <2>0 DEF PartId
    <2>2. ~(q < o) /\ ~(o < q)
      <3>1. ~(at[q].lo < at[o].lo) /\ ~(at[o].lo < at[q].lo)
        BY <1>1, <2>1
      <3> QED BY <3>1
    <2> QED BY <2>1, <2>2
  <1>2. at \in Injection(new, plan)
    BY <1>1 DEF Injection, IsInjective
  <1>3. at \in Surjection(new, plan)
    BY <1>2, FS_Injection
  <1> QED BY <1>1, <1>3 DEF Surjection

LEMMA SwapPartitionsStep == ASSUME IInv, NEW w \in Worker, SwapPartitions(w) PROVE IInv'
  <1> DEFINE new == work[w].new
             old == work[w].old
             plan == work[w].plan
             rows == Input(w)
  <1>0. /\ work \in [Worker -> Job] /\ part \in [PartId -> Partition] /\ chunk \in [ChunkId -> ChunkRow]
        /\ files \subseteq PartId /\ ready \in BOOLEAN /\ faults \in 0..MaxFaults
        /\ work[w].pc = "written" /\ End(w)
        /\ files' = files /\ doomed' = doomed /\ posted' = posted
        /\ ready' = ready /\ committed' = committed /\ faults' = faults
    BY DEF SwapPartitions, IInv, StateOK
  <1>1. CASE ~MayReplace(w)
    <2>1. part' = part /\ chunk' = chunk
      BY <1>1 DEF SwapPartitions
    <2> QED BY <1>0, <2>1, EndStep
  <1>2. CASE MayReplace(w)
    <2>1. Compacts(w) /\ JobFits(w) /\ CompactionFits(w)
      BY <1>0 DEF Compacts, CompactJob, IInv, JobsFit, JobFits
    <2>2. PICK of \in PartId : of = work[w].of /\ Settled(of) /\ of \notin new
      BY <2>1, NewIs DEF Settled
    <2>3. /\ part[of].state = "active"
          /\ \A c \in old : c \in ChunkId /\ chunk[c].state = "active"
          /\ \A q \in new : q \in PartId /\ part[q].state = "inactive" /\ part[q].rows = {}
      BY <1>2, <2>1, <2>2, NewIs, InputFits DEF MayReplace, Is
    <2>4. /\ old # {} /\ new \subseteq files /\ Cardinality(new) = Cardinality(plan) /\ Split(of, rows, plan)
      BY <1>0, <2>1, <2>2 DEF CompactionFits
    <2>5. /\ part[of] \in Partition /\ PartFits(of) /\ rows \in SUBSET Row /\ part[of].rows \subseteq rows
          /\ Keys(rows) \subseteq Span(of)
          /\ \A c \in old : chunk[c].rows \subseteq rows
      BY <2>1, <2>2, InputFits
    <2>6. \A r \in rows : r \in part[of].rows \/ \E c \in old : r \in chunk[c].rows
      BY <2>2 DEF Input
    <2>7. rows # {}
      BY <2>3, <2>4, <2>5 DEF IInv, ChunksFit, ChunkFits
    <2> HIDE DEF rows
    <2>8. /\ IsFiniteSet(plan) /\ \A x \in plan : PieceFits(of, rows, x)
          /\ \A k \in Span(of) : \E x \in plan : x.lo <= k /\ k < x.hi
          /\ \A k \in Span(of) : \A x, y \in plan : x.lo <= k /\ k < x.hi /\ y.lo <= k /\ k < y.hi => x = y
          /\ \A r \in rows : \E x \in plan : r \in x.rows
          /\ \A r \in rows : \A x, y \in plan : r \in x.rows /\ r \in y.rows => x = y
          /\ Cardinality(plan) = 1 => \A x \in plan : x.lo = part[of].lo /\ x.hi = part[of].hi
      BY <2>4, <2>5, <2>7, SplitShares
    <2>a. of = work[w].of
      BY <2>2
    <2>9. PICK at \in [new -> plan] :
            /\ \A x, y \in new : x < y => at[x].lo < at[y].lo
            /\ part' = [q \in PartId |->
                 IF q = of THEN [part[q] EXCEPT !.state = "inactive"]
                 ELSE IF q \in new
                 THEN [part[q] EXCEPT !.state = "active", !.lo = at[q].lo, !.hi = at[q].hi, !.rows = at[q].rows]
                 ELSE part[q]]
      BY <1>2, <2>a, ZenonT(60) DEF SwapPartitions
    <2>10. /\ \A q, o \in new : at[q] = at[o] => q = o
           /\ \A x \in plan : \E q \in new : at[q] = x
      <3> HIDE DEF new, plan
      <3>1. \A x \in plan : x.lo \in Nat
        BY <2>8, KeyIs DEF PieceFits, Piece
      <3>2. \A q \in new : q \in PartId
        BY <2>3
      <3>3. new \in SUBSET PartId
        BY <3>2
      <3>4. /\ Cardinality(new) = Cardinality(plan) /\ IsFiniteSet(plan)
            /\ \A q, o \in new : q < o => at[q].lo < at[o].lo
        BY <2>4, <2>8, <2>9
      <3> QED BY <3>1, <3>3, <3>4, ChildrenTake
    <2>11. \A q \in new : at[q] \in plan /\ at[q] \in Piece /\ PieceFits(of, rows, at[q])
      BY <2>8 DEF PieceFits
    <2>12. /\ part' \in [PartId -> Partition]
           /\ part'[of].state = "inactive"
           /\ \A q \in PartId : /\ q # of /\ q \notin new => part'[q] = part[q]
                                /\ q \notin new => /\ part'[q].lo = part[q].lo /\ part'[q].hi = part[q].hi
                                                   /\ part'[q].rows = part[q].rows
                                /\ part'[q].parent = part[q].parent
           /\ \A q \in new : /\ part'[q].state = "active" /\ part'[q].lo = at[q].lo
                             /\ part'[q].hi = at[q].hi /\ part'[q].rows = at[q].rows
      <3>1. \A q \in PartId : /\ [part[q] EXCEPT !.state = "inactive"] \in Partition
                              /\ [part[q] EXCEPT !.state = "inactive"].state = "inactive"
                              /\ [part[q] EXCEPT !.state = "inactive"].lo = part[q].lo
                              /\ [part[q] EXCEPT !.state = "inactive"].hi = part[q].hi
                              /\ [part[q] EXCEPT !.state = "inactive"].rows = part[q].rows
                              /\ [part[q] EXCEPT !.state = "inactive"].parent = part[q].parent
        BY <1>0 DEF Partition
      <3> DEFINE filled(q) == [part[q] EXCEPT !.state = "active", !.lo = at[q].lo, !.hi = at[q].hi, !.rows = at[q].rows]
      <3>2. \A q \in new : /\ filled(q) \in Partition /\ filled(q).state = "active" /\ filled(q).lo = at[q].lo
                           /\ filled(q).hi = at[q].hi /\ filled(q).rows = at[q].rows
                           /\ filled(q).parent = part[q].parent
        <4> SUFFICES ASSUME NEW q \in new
                     PROVE  /\ filled(q) \in Partition /\ filled(q).state = "active" /\ filled(q).lo = at[q].lo
                            /\ filled(q).hi = at[q].hi /\ filled(q).rows = at[q].rows
                            /\ filled(q).parent = part[q].parent
          OBVIOUS
        <4>1. part[q] \in Partition
          BY <1>0, <2>3
        <4>2. at[q].lo \in 0..Top /\ at[q].hi \in 0..Top /\ at[q].rows \in SUBSET Row
          BY <2>11 DEF Piece
        <4> QED BY <4>1, <4>2 DEF Partition
      <3>3. /\ \A q \in PartId : part'[q] = IF q = of THEN [part[q] EXCEPT !.state = "inactive"]
                                            ELSE IF q \in new THEN filled(q) ELSE part[q]
            /\ part' = [q \in PartId |-> part'[q]]
        BY <2>9
      <3> HIDE DEF filled
      <3>4. \A q \in PartId : part'[q] \in Partition
        BY <1>0, <3>1, <3>2, <3>3
      <3>5. part' \in [PartId -> Partition]
        BY <3>3, <3>4
      <3>6. part'[of] = [part[of] EXCEPT !.state = "inactive"]
        BY <3>3
      <3>7. \A q \in new : part'[q] = filled(q)
        BY <2>2, <2>3, <3>3
      <3>8. \A q \in PartId : q # of /\ q \notin new => part'[q] = part[q]
        BY <3>3
      <3>9. /\ part'[of].state = "inactive" /\ part'[of].lo = part[of].lo /\ part'[of].hi = part[of].hi
            /\ part'[of].rows = part[of].rows /\ part'[of].parent = part[of].parent
        BY <3>1, <3>6
      <3>10. \A q \in new : /\ part'[q].state = "active" /\ part'[q].lo = at[q].lo
                            /\ part'[q].hi = at[q].hi /\ part'[q].rows = at[q].rows
                            /\ part'[q].parent = part[q].parent
        BY <3>2, <3>7
      <3> QED BY <3>5, <3>8, <3>9, <3>10
    <2>13. \A q \in PartId : /\ Exists(q)' <=> Exists(q)
                             /\ Is(q, "none")' <=> Is(q, "none")
                             /\ Is(q, "active")' <=> (Is(q, "active") /\ q # of) \/ q \in new
                             /\ q \notin new => Span(q)' = Span(q)
                             /\ q \in new => Span(q)' = {k \in Key : at[q].lo <= k /\ k < at[q].hi}
      <3> SUFFICES ASSUME NEW q \in PartId
                   PROVE  /\ Exists(q)' <=> Exists(q)
                          /\ Is(q, "none")' <=> Is(q, "none")
                          /\ Is(q, "active")' <=> (Is(q, "active") /\ q # of) \/ q \in new
                          /\ q \notin new => Span(q)' = Span(q)
                          /\ q \in new => Span(q)' = {k \in Key : at[q].lo <= k /\ k < at[q].hi}
        OBVIOUS
      <3>1. Span(q)' = {k \in Key : part'[q].lo <= k /\ k < part'[q].hi}
        BY DEF Span
      <3>2. CASE q = of
        BY <2>2, <2>3, <2>12, <3>1, <3>2 DEF Exists, Is, Span
      <3>3. CASE q \in new
        BY <2>2, <2>3, <2>12, <3>1, <3>3 DEF Exists, Is
      <3>4. CASE q # of /\ q \notin new
        BY <2>12, <3>1, <3>4 DEF Exists, Is, Span
      <3> QED BY <3>2, <3>3, <3>4
    <2>14. work' \in [Worker -> Job] /\ Others(w) /\ IdleJob(w)
      BY <1>0, EndIs
    <2>15. JobFits(w)' /\ (\A v \in Worker : Apart(v, w)') /\ ~Compacts(w)'
      BY <2>14, IdleFits
    <2>16. \A q : Settled(q) => Settled(q)' /\ q \notin new /\ q \in PartId
      BY <2>1, <2>13, <2>14, <2>15 DEF Settled, Compacts, Others
    <2>17. \A q \in new : Settled(q)'
      <3> SUFFICES ASSUME NEW q \in new, NEW v \in Worker, Compacts(v)' PROVE q \notin work'[v].new
        BY <2>3, <2>12 DEF Settled, Is
      <3>1. v # w /\ Compacts(v) /\ work'[v] = work[v]
        BY <2>14, <2>15 DEF Others, Compacts
      <3> QED BY <2>1, <3>1 DEF IInv, JobsApart, Apart
    <2>18. PartsStay
      BY <2>12, <2>13, <2>16 DEF PartsStay
    <2>19. PartsFit' /\ IdsInOrder'
      <3>1. ASSUME NEW q \in PartId
            PROVE  PartFits(q)'
        <4>1. CASE q \in new
          <5>1. at[q].rows # {} /\ Keys(at[q].rows) \subseteq Span(q)' /\ (at[q].lo # 0 => at[q].lo \in Keys(at[q].rows))
            <6>1. PieceFits(of, rows, at[q]) /\ at[q].rows \subseteq Row
              BY <2>11, <4>1 DEF Piece
            <6>2. \A k \in Keys(at[q].rows) : k \in Key /\ at[q].lo <= k /\ k < at[q].hi
              BY <6>1, KeysOfRows DEF PieceFits
            <6> QED BY <2>13, <4>1, <6>1, <6>2 DEF PieceFits
          <5> QED BY <1>0, <2>4, <2>12, <2>17, <4>1, <5>1 DEF PartFits
        <4>2. CASE q \notin new
          <5>1. PartFits(q)
            BY DEF IInv, PartsFit
          <5>2. /\ Span(q)' = Span(q) /\ (Is(q, "active")' => Is(q, "active"))
                /\ part'[q].lo = part[q].lo /\ part'[q].rows = part[q].rows
            BY <2>12, <2>13, <4>2
          <5> QED BY <1>0, <2>16, <5>1, <5>2 DEF PartFits
        <4> QED BY <4>1, <4>2
      <3> QED BY <2>13, <3>1 DEF PartsFit, IdsInOrder, IInv
    <2>20. ParentsExist'
      <3> SUFFICES ASSUME NEW q \in PartId, Exists(q)', part'[q].parent # NoPart
                   PROVE  /\ part'[q].parent < q /\ Settled(part[q].parent)'
                          /\ Exists(part[q].parent)' \/ Lost(q)'
        BY DEF ParentsExist, ParentExists
      <3>1. Exists(q) /\ part'[q].parent = part[q].parent
        BY <2>12, <2>13
      <3>2. PICK o \in PartId : o = part[q].parent /\ o < q /\ Settled(o) /\ (Exists(o) \/ Lost(q))
        BY <3>1 DEF IInv, ParentsExist, ParentExists, Settled
      <3>3. Settled(o)' /\ (Exists(o) => Exists(o)')
        BY <2>13, <2>16, <3>2
      <3>4. ASSUME Lost(q)
            PROVE  Lost(q)'
        <4>1. q \notin new /\ q # of
          BY <2>1, <2>2, <2>3, <3>4 DEF Lost, JustCreated, Is
        <4>2. NoNewChildren
          BY <2>14, <2>15 DEF NoNewChildren, Others, Compacts
        <4>3. \A v \in Worker : Compacts(v) => work[v].of \in PartId /\ work[v].of \notin new
          BY <2>1, NewIs DEF IInv, JobsFit, Settled
        <4>4. \A v \in Worker : Compacts(v) /\ part'[work[v].of].state = "active" => Is(work[v].of, "active")
          BY <2>13, <4>3 DEF Is
        <4> QED BY <1>0, <2>12, <3>4, <4>1, <4>2, <4>4, LostStays
      <3> QED BY <3>1, <3>2, <3>3, <3>4 DEF Exists, Settled, Is
    <2>21. Tiled'
      <3>1. \A q \in new, k \in Key : k \in Span(q)' <=> at[q].lo <= k /\ k < at[q].hi
        BY <2>3, <2>13
      <3>2. \A q \in new, k \in Key : k \in Span(q)' => k \in Span(of)
        <4> SUFFICES ASSUME NEW q \in new, NEW k \in Key, at[q].lo <= k, k < at[q].hi PROVE k \in Span(of)
          BY <3>1
        <4>1. /\ part[of].lo <= at[q].lo /\ at[q].hi <= part[of].hi /\ at[q].lo \in Nat /\ at[q].hi \in Nat
              /\ part[of].lo \in Nat /\ part[of].hi \in Nat /\ k \in Nat
          BY <2>5, <2>11, KeyIs DEF PieceFits, Piece, Partition
        <4>2. part[of].lo <= k /\ k < part[of].hi
          BY <4>1
        <4> QED BY <4>2 DEF Span
      <3>3. \A q \in Active' : q \in new \/ (q \in Active /\ q # of /\ q \notin new /\ Span(q)' = Span(q))
        BY <2>13 DEF Active
      <3>4. of \in Active /\ new \subseteq Active' /\ \A q \in Active : q # of => q \in Active' /\ Span(q)' = Span(q)
        BY <2>3, <2>13 DEF Active, Is
      <3>5. ASSUME NEW k \in Key
            PROVE  \E q \in Active' : k \in Span(q)'
        <4>1. PICK q \in Active : k \in Span(q)
          BY DEF IInv, Tiled
        <4>2. CASE q # of
          BY <3>4, <4>1, <4>2
        <4>3. CASE q = of
          <5>1. PICK x \in plan : x.lo <= k /\ k < x.hi
            BY <2>8, <4>1, <4>3
          <5>2. PICK o \in new : at[o] = x
            BY <2>10
          <5> QED BY <3>1, <3>4, <5>1, <5>2
        <4> QED BY <4>2, <4>3
      <3>6. ASSUME NEW k \in Key, NEW q \in Active', NEW o \in Active', k \in Span(q)', k \in Span(o)'
            PROVE  q = o
        <4>1. CASE q \in new /\ o \in new
          <5>1. at[q] \in plan /\ at[o] \in plan /\ k \in Span(of)
            BY <2>11, <3>2, <3>6, <4>1
          <5>2. at[q].lo <= k /\ k < at[q].hi /\ at[o].lo <= k /\ k < at[o].hi
            BY <3>1, <3>6, <4>1
          <5>3. at[q] = at[o]
            BY <2>8, <5>1, <5>2
          <5> QED BY <2>10, <4>1, <5>3
        <4>2. CASE q \in new /\ o \notin new
          BY <3>2, <3>3, <3>4, <3>6, <4>2 DEF IInv, Tiled
        <4>3. CASE q \notin new /\ o \in new
          BY <3>2, <3>3, <3>4, <3>6, <4>3 DEF IInv, Tiled
        <4>4. CASE q \notin new /\ o \notin new
          BY <3>3, <3>6, <4>4 DEF IInv, Tiled
        <4> QED BY <4>1, <4>2, <4>3, <4>4
      <3> QED BY <3>5, <3>6 DEF Tiled
    <2>22. /\ chunk' = [c \in ChunkId |->
               IF c \in old THEN [chunk[c] EXCEPT !.state = "inactive"]
               ELSE IF chunk[c].part = of /\ Reparented(w)
               THEN [chunk[c] EXCEPT !.part = Least(new)] ELSE chunk[c]]
      BY <1>2, <2>2 DEF SwapPartitions
    <2>23. Reparented(w) => \E q \in new : q = Least(new) /\ Span(q)' = Key /\ Settled(q)' /\ Exists(q)'
      <3> SUFFICES ASSUME Reparented(w)
                   PROVE  \E q \in new : q = Least(new) /\ Span(q)' = Key /\ Settled(q)' /\ Exists(q)'
        OBVIOUS
      <3>1. Cardinality(new) = 1 /\ part[of].lo = 0 /\ part[of].hi = Top
        BY <2>2 DEF Reparented
      <3>2. IsFiniteSet(new)
        <4>1. IsFiniteSet(PartId)
          BY FS_Interval, PartitionsAssumption DEF PartId
        <4>2. new \in SUBSET PartId
          BY <2>3
        <4> QED BY <4>1, <4>2, FS_Subset
      <3>3. PICK q : new = {q}
        BY <3>1, <3>2, FS_Singleton
      <3>4. q \in new /\ q \in PartId /\ q \in Nat
        BY <2>3, <3>3 DEF PartId
      <3>5. Least(new) = q
        BY <3>3, <3>4, LeastOfOne
      <3>6. at[q].lo = 0 /\ at[q].hi = Top
        BY <2>4, <2>8, <2>11, <3>1, <3>4
      <3>7. Span(q)' = Key
        BY <2>13, <3>4, <3>6, KeyIs
      <3>8. part'[q].state = "active" /\ q # NoPart
        BY <2>12, <3>4 DEF PartId, NoPart
      <3>9. Exists(q)'
        BY <3>8 DEF Exists
      <3> QED BY <2>17, <3>4, <3>5, <3>7, <3>9
    <2>24. /\ chunk' \in [ChunkId -> ChunkRow]
           /\ \A c \in ChunkId : /\ chunk'[c].rows = chunk[c].rows
                                 /\ c \in old => chunk'[c].state = "inactive" /\ chunk'[c].part = chunk[c].part
                                 /\ c \notin old => chunk'[c].state = chunk[c].state
                                 /\ \/ chunk'[c].part = chunk[c].part
                                    \/ c \notin old /\ Reparented(w) /\ chunk'[c].part = Least(new)
      <3>1. Reparented(w) => Least(new) \in PartId
        BY <2>3, <2>23
      <3>2. \A c \in ChunkId : /\ [chunk[c] EXCEPT !.state = "inactive"] \in ChunkRow
                               /\ [chunk[c] EXCEPT !.state = "inactive"].state = "inactive"
                               /\ [chunk[c] EXCEPT !.state = "inactive"].part = chunk[c].part
                               /\ [chunk[c] EXCEPT !.state = "inactive"].rows = chunk[c].rows
        BY <1>0 DEF ChunkRow
      <3>3. \A c \in ChunkId, q \in PartId : /\ [chunk[c] EXCEPT !.part = q] \in ChunkRow
                                             /\ [chunk[c] EXCEPT !.part = q].state = chunk[c].state
                                             /\ [chunk[c] EXCEPT !.part = q].part = q
                                             /\ [chunk[c] EXCEPT !.part = q].rows = chunk[c].rows
        BY <1>0 DEF ChunkRow
      <3>4. PICK first : first = Least(new)
        OBVIOUS
      <3>5. \A c \in ChunkId : chunk'[c] = IF c \in old THEN [chunk[c] EXCEPT !.state = "inactive"]
                                           ELSE IF chunk[c].part = of /\ Reparented(w)
                                           THEN [chunk[c] EXCEPT !.part = first] ELSE chunk[c]
        BY <2>22, <3>4
      <3>6. chunk' = [c \in ChunkId |-> chunk'[c]]
        BY <2>22
      <3>7. Reparented(w) => first \in PartId
        BY <3>1, <3>4
      <3>8. ASSUME NEW c \in ChunkId
            PROVE  /\ chunk'[c] \in ChunkRow
                   /\ chunk'[c].rows = chunk[c].rows
                   /\ c \in old => chunk'[c].state = "inactive" /\ chunk'[c].part = chunk[c].part
                   /\ c \notin old => chunk'[c].state = chunk[c].state
                   /\ \/ chunk'[c].part = chunk[c].part
                      \/ c \notin old /\ Reparented(w) /\ chunk'[c].part = first
        <4>1. CASE c \in old
          <5>1. chunk'[c] = [chunk[c] EXCEPT !.state = "inactive"]
            BY <3>5, <4>1
          <5> QED BY <3>2, <4>1, <5>1
        <4>2. CASE c \notin old /\ chunk[c].part = of /\ Reparented(w)
          <5>1. chunk'[c] = [chunk[c] EXCEPT !.part = first]
            BY <3>5, <4>2
          <5>2. first \in PartId
            BY <3>7, <4>2
          <5> QED BY <3>3, <4>2, <5>1, <5>2
        <4>3. CASE c \notin old /\ ~(chunk[c].part = of /\ Reparented(w))
          <5>1. chunk'[c] = chunk[c]
            BY <3>5, <4>3
          <5> QED BY <1>0, <4>3, <5>1
        <4> QED BY <4>1, <4>2, <4>3
      <3>9. chunk' \in [ChunkId -> ChunkRow]
        BY <3>6, <3>8
      <3> QED BY <3>4, <3>8, <3>9
    <2>25. ChunksStay
      BY <2>3, <2>24 DEF ChunksStay
    <2>26. ChunksFit'
      <3> SUFFICES ASSUME NEW c \in ChunkId PROVE ChunkFits(c)'
        BY DEF ChunksFit
      <3>1. ChunkFits(c)
        BY DEF IInv, ChunksFit
      <3>2. c \in doomed' => chunk'[c].state \in {"created", "inactive"}
        BY <1>0, <2>24, <3>1 DEF ChunkFits
      <3>3. CASE chunk'[c].part = chunk[c].part
        <4>1. chunk'[c].state = "active" => Exists(chunk[c].part)'
          <5> SUFFICES ASSUME chunk'[c].state = "active" PROVE Exists(chunk[c].part)'
            OBVIOUS
          <5>1. PICK q \in PartId : q = chunk[c].part /\ Exists(q)
            BY <2>24, <3>1 DEF ChunkFits, Settled
          <5>2. Exists(q)'
            BY <2>13, <5>1
          <5> QED BY <3>3, <5>1, <5>2 DEF Exists
        <4>2. chunk[c].state = "none" => chunk'[c].state = "none"
          BY <2>3, <2>24
        <4> QED BY <2>18, <2>24, <3>1, <3>2, <3>3, <4>1, <4>2, ChunkStays
      <3>4. CASE c \notin old /\ Reparented(w) /\ chunk'[c].part = Least(new)
        <4>1. PICK q \in new : q = Least(new) /\ Span(q)' = Key /\ Settled(q)' /\ Exists(q)'
          BY <2>23, <3>4
        <4>2. chunk'[c].part = q
          BY <3>4, <4>1
        <4>3. Keys(chunk[c].rows) \subseteq Key
          BY <1>0, KeysOfRows DEF ChunkRow
        <4>4. Settled(chunk[c].part)' /\ Span(chunk[c].part)' = Key /\ Exists(chunk[c].part)'
          BY <4>1, <4>2 DEF Settled, Span, Exists, Is
        <4> QED BY <2>24, <3>1, <3>2, <3>4, <4>3, <4>4 DEF ChunkFits
      <3> QED BY <2>24, <3>3, <3>4
    <2>27. ReadOnce'
      <3> SUFFICES ASSUME NEW r \in Row
                   PROVE  /\ r[1] \in committed => (\E p \in PartId : InFile(r, p)') \/ (\E c \in ChunkId : InChunk(r, c)')
                          /\ r[1] \notin committed => (\A p \in PartId : ~InFile(r, p)') /\ (\A c \in ChunkId : ~InChunk(r, c)')
                          /\ \A p, q \in PartId : InFile(r, p)' /\ InFile(r, q)' => p = q
                          /\ \A c, d \in ChunkId : InChunk(r, c)' /\ InChunk(r, d)' => c = d
                          /\ \A p \in PartId, c \in ChunkId : ~(InFile(r, p)' /\ InChunk(r, c)')
        BY <1>0 DEF ReadOnce
      <3>1. \A q \in PartId :
              InFile(r, q)' <=> (q \in new /\ r \in at[q].rows) \/ (q \notin new /\ q # of /\ InFile(r, q))
        BY <2>12, <2>13 DEF InFile
      <3>2. \A c \in ChunkId : InChunk(r, c)' <=> c \notin old /\ InChunk(r, c)
        BY <2>24 DEF InChunk
      <3>3. CASE r \in rows
        <4>1. r[1] \in committed /\ (\A q \in PartId : InFile(r, q) => q = of) /\ \A c \in ChunkId : InChunk(r, c) => c \in old
          <5>1. CASE r \in part[of].rows
            <6>1. InFile(r, of)
              BY <2>3, <5>1 DEF InFile, Is
            <6> QED BY <6>1 DEF IInv, ReadOnce
          <5>2. CASE \E c \in old : r \in chunk[c].rows
            <6>1. PICK c \in old : c \in ChunkId /\ InChunk(r, c)
              BY <2>3, <5>2 DEF InChunk
            <6> QED BY <6>1 DEF IInv, ReadOnce
          <5> QED BY <2>6, <3>3, <5>1, <5>2
        <4>2. \A c \in ChunkId : ~InChunk(r, c)'
          BY <3>2, <4>1
        <4>3. \A q \in PartId : InFile(r, q)' <=> q \in new /\ r \in at[q].rows
          BY <3>1, <4>1
        <4>4. \E q \in new : r \in at[q].rows
          <5>1. PICK x \in plan : r \in x.rows
            BY <2>8, <3>3
          <5> QED BY <2>10, <5>1
        <4>5. \A q, o \in new : r \in at[q].rows /\ r \in at[o].rows => q = o
          <5> SUFFICES ASSUME NEW q \in new, NEW o \in new, r \in at[q].rows, r \in at[o].rows PROVE q = o
            OBVIOUS
          <5>1. at[q] = at[o]
            BY <2>8, <2>11, <3>3
          <5> QED BY <2>10, <5>1
        <4>6. new \subseteq PartId
          BY <2>3
        <4> QED BY <4>1, <4>2, <4>3, <4>4, <4>5, <4>6
      <3>4. CASE r \notin rows
        <4>1. \A q \in new : r \notin at[q].rows /\ ~InFile(r, q)
          BY <2>3, <2>11, <3>4 DEF PieceFits, InFile, Is
        <4>2. ~InFile(r, of) /\ \A c \in old : ~InChunk(r, c)
          BY <2>5, <3>4 DEF InFile, InChunk
        <4>3. \A q \in PartId : InFile(r, q)' <=> InFile(r, q)
          BY <3>1, <4>1, <4>2
        <4>4. \A c \in ChunkId : InChunk(r, c)' <=> InChunk(r, c)
          BY <3>2, <4>2
        <4> QED BY <4>3, <4>4 DEF IInv, ReadOnce
      <3> QED BY <3>3, <3>4
    <2>28. \A v \in Worker : v # w => Spared(v)
      <3> SUFFICES ASSUME NEW v \in Worker, v # w PROVE Spared(v)
        OBVIOUS
      <3>1. JobFits(v) /\ work'[v] = work[v]
        BY <2>14 DEF IInv, JobsFit, Others
      <3>2. ASSUME Compacts(v)
            PROVE  \A p \in work[v].new : p \in PartId /\ part'[p] = part[p]
        <4>3. \A p \in work[v].new : p \in PartId /\ p \notin new /\ p # of
          BY <2>1, <2>2, <3>1, <3>2, NewIs DEF IInv, JobsApart, Apart, Settled
        <4> QED BY <2>12, <4>3
      <3>3. ASSUME Places(v), NEW c \in work[v].new
            PROVE  /\ c \notin doomed
                   /\ chunk'[c].state = chunk[c].state
        <4>1. c \in ChunkId /\ chunk[c].state \in {"created", "gone"} /\ c \notin doomed
          BY <3>1, <3>3, NewIs
        <4>2. c \notin old
          BY <2>3, <4>1
        <4> QED BY <2>24, <4>1, <4>2
      <3>4. work[v].pc \in ImportJob => work[v].of \notin committed'
        BY <1>0, <3>1, NewIs
      <3> QED BY <1>0, <3>2, <3>3, <3>4 DEF Spared
    <2>29. JobsFit' /\ JobsApart'
      BY <2>14, <2>15, <2>18, <2>25, <2>28, JobsStay DEF IInv
    <2>30. Faultless'
      <3>1. faults = 0 => \A v \in Worker : Compacts(v)' /\ Is(work[v].of, "active") => Is(work[v].of, "active")'
        <4> SUFFICES ASSUME faults = 0, NEW v \in Worker, Compacts(v)', Is(work[v].of, "active")
                     PROVE  Is(work[v].of, "active")'
          OBVIOUS
        <4>1. v # w /\ Compacts(v) /\ work'[v] = work[v]
          BY <2>14, <2>15 DEF Others, Compacts
        <4>2. PICK o \in PartId : o = work[v].of /\ o # of /\ Is(o, "active")
          BY <2>1, <2>2, <4>1, NewIs DEF IInv, JobsFit, Faultless
        <4>3. Is(o, "active")'
          BY <2>13, <4>2
        <4> QED BY <4>1, <4>2, <4>3 DEF Is
      <3> QED BY <1>0, <2>14, <3>1, FaultlessStays DEF IInv
    <2>31. StateOK'
      BY <1>0, <2>12, <2>14, <2>24 DEF IInv, StateOK
    <2> QED BY <2>18, <2>19, <2>20, <2>21, <2>26, <2>27, <2>29, <2>30, <2>31 DEF IInv
  <1> QED BY <1>1, <1>2

-----------------------------------------------------------------------------
(* Theorems.                                                               *)

LEMMA InitIInv == ASSUME Init PROVE IInv
  <1> DEFINE first == [NoPartition EXCEPT !.state = "active"]
             fresh == [state |-> "none", part |-> NoPart, rows |-> {}]
  <1>0. /\ part = [p \in PartId |-> IF p = 1 THEN first ELSE NoPartition]
        /\ chunk = [c \in ChunkId |-> fresh]
        /\ files = {} /\ doomed = {} /\ posted = {} /\ ready = TRUE /\ committed = {} /\ faults = 0
        /\ work = [w \in Worker |-> Idle]
    BY DEF Init
  <1>1. 1 \in PartId /\ (\A p \in PartId : p \in Nat /\ p >= 1)
    BY PartitionsAssumption DEF PartId
  <1>2. /\ NoPartition \in Partition /\ first \in Partition /\ fresh \in ChunkRow /\ Idle \in Job
    BY KeyIs DEF NoPartition, Partition, ChunkRow, Idle, Job
  <1>3. StateOK
    BY <1>0, <1>2, PartitionsAssumption DEF StateOK
  <1>4. \A w \in Worker : /\ work[w].pc = "idle" /\ work[w].new = {} /\ work[w].seen = {} /\ work[w].kept = {}
                          /\ ~Compacts(w) /\ ~Places(w) /\ work[w].pc \notin ImportJob
    BY <1>0 DEF Idle, Compacts, Places, CompactJob, MoveJob, ImportJob
  <1>5. \A p \in PartId : /\ part[p].lo = 0 /\ part[p].hi = Top /\ part[p].rows = {} /\ part[p].parent = NoPart
                          /\ part[p].state = IF p = 1 THEN "active" ELSE "none"
    BY <1>0 DEF NoPartition
  <1>6. \A c \in ChunkId : chunk[c].state = "none"
    BY <1>0
  <1>7. Settled(1)
    BY <1>1, <1>4, <1>5 DEF Settled, Is
  <1>8. PartsFit
    BY <1>5, <1>7, KeysOfRows DEF PartsFit, PartFits, Is
  <1>9. IdsInOrder
    BY <1>1, <1>5 DEF IdsInOrder, Is
  <1>10. ParentsExist
    BY <1>5 DEF ParentsExist, ParentExists
  <1>11. ChunksFit
    BY <1>0, <1>6 DEF ChunksFit, ChunkFits
  <1>12. Tiled
    <2>1. Active = {1}
      BY <1>1, <1>5 DEF Active, Is
    <2>2. Span(1) = Key
      <3>1. part[1].lo = 0 /\ part[1].hi = Top
        BY <1>1, <1>5
      <3>2. \A k \in Key : 0 <= k /\ k < Top
        BY KeyIs, SMT
      <3> QED BY <3>1, <3>2 DEF Span
    <2> QED BY <2>1, <2>2 DEF Tiled
  <1>13. ReadOnce
    BY <1>0, <1>5, <1>6 DEF ReadOnce, InFile, InChunk
  <1>14. JobsFit /\ JobsApart
    BY <1>4 DEF JobsFit, JobFits, JobsApart, Apart
  <1>15. Faultless
    BY <1>0, <1>4 DEF Faultless
  <1> QED BY <1>3, <1>8, <1>9, <1>10, <1>11, <1>12, <1>13, <1>14, <1>15 DEF IInv

LEMMA StutterIInv == ASSUME IInv, UNCHANGED vars PROVE IInv'
  BY RestStep DEF vars, IInv, StateOK

LEMMA NextIInv == ASSUME IInv, [Next]_vars PROVE IInv'
  <1>1. ASSUME NEW w \in Worker, Import(w) PROVE IInv'
    <2>1. CASE ImportCreate(w)
      BY <2>1, CreateStep DEF ImportCreate
    <2>2. CASE Activate(w)
      BY <2>2, ActivateStep
    <2>3. CASE \E b \in Batch : ImportStart(w, b)
      BY <2>3, ImportStep
    <2> QED BY <1>1, <2>1, <2>2, <2>3 DEF Import
  <1>2. ASSUME NEW w \in Worker, Repartition(w) PROVE IInv'
    <2>1. CASE MoveCreate(w)
      BY <2>1, CreateStep DEF MoveCreate
    <2>2. CASE SwapChunks(w)
      BY <2>2, SwapChunksStep
    <2>3. CASE \E c \in ActiveChunks : MoveStart(w, c)
      BY <2>3, MoveStep
    <2> QED BY <1>2, <2>1, <2>2, <2>3 DEF Repartition
  <1>3. ASSUME NEW w \in Worker, Compaction(w) PROVE IInv'
    <2>1. CASE \E p \in PartId, old \in SUBSET ActiveChunks : CompactStart(w, p, old)
      BY <2>1, CompactStep
    <2>2. CASE \E n \in 1..2 : CreateChildren(w, n)
      BY <2>2, CreateChildrenStep
    <2>3. CASE DownloadFails(w)
      BY <2>3, DownloadStep
    <2>4. CASE WriteFiles(w)
      BY <2>4, WriteStep
    <2>5. CASE SwapPartitions(w)
      BY <2>5, SwapPartitionsStep
    <2> QED BY <1>3, <2>1, <2>2, <2>3, <2>4, <2>5 DEF Compaction
  <1>4. ASSUME NEW w \in Worker, JobFails(w) \/ OrphanJob(w) PROVE IInv'
    BY <1>4, FailStep, OrphanStep
  <1>5. CASE Collect
    <2>1. ASSUME NEW p \in PartId, RemoveFile(p) \/ DeletePartition(p) \/ DeleteMiddleMan(p) PROVE IInv'
      BY <2>1, RemoveFileStep, DeletePartitionStep, MiddleManStep
    <2>2. CASE DeleteChunks
      BY <2>2, DeleteChunksStep
    <2>3. CASE \E C \in SUBSET ChunkId : PickChunks(C)
      BY <2>3, PickStep
    <2>4. CASE PostMiddleMen
      BY <2>4, PostStep
    <2> QED BY <1>5, <2>1, <2>2, <2>3, <2>4 DEF Collect
  <1>6. CASE UNCHANGED vars
    BY <1>6, StutterIInv
  <1> QED BY <1>1, <1>2, <1>3, <1>4, <1>5, <1>6 DEF Next

\* Every reachable state satisfies the inductive invariant: the active partitions tile
\* the keys, every row is in one place, and each job knows what it is to replace.
THEOREM InvariantHolds == Spec => []IInv
  <1>1. Init => IInv
    BY InitIInv
  <1>2. IInv /\ [Next]_vars => IInv'
    BY NextIInv
  <1> QED BY <1>1, <1>2, PTL DEF Spec

\* The tables of partitions and chunks, the files and the jobs have their types: a
\* compaction has created partitions only, an import or a repartition chunks only.
THEOREM TypesHold == Spec => []PartitionsTypeOK
  <1>1. ASSUME IInv PROVE PartitionsTypeOK
    <2>1. \A p \in Active : p = 1 \/ part[p].rows # {}
      BY <1>1 DEF IInv, PartsFit, PartFits, Active
    <2>2. ASSUME NEW w \in Worker
          PROVE  /\ work[w].pc \in {"idle"} \cup CompactJob \cup MoveJob \cup ImportJob
                 /\ work[w].old \subseteq ChunkId
                 /\ work[w].new \subseteq (IF work[w].pc \in CompactJob THEN PartId ELSE ChunkId)
      <3>1. work[w] \in Job /\ JobFits(w)
        BY <1>1 DEF IInv, StateOK, JobsFit
      <3>2. work[w].pc \in {"idle"} \cup CompactJob \cup MoveJob \cup ImportJob /\ work[w].old \subseteq ChunkId
        BY <3>1 DEF Job
      <3>3. CASE Compacts(w)
        BY <3>1, <3>2, <3>3, NewIs DEF Compacts
      <3>4. CASE Places(w) /\ ~Compacts(w)
        BY <3>1, <3>2, <3>4, NewIs DEF Compacts
      <3>5. CASE work[w].pc = "idle" /\ ~Compacts(w)
        BY <3>1, <3>2, <3>5, NewIs DEF Compacts
      <3> QED BY <3>2, <3>3, <3>4, <3>5 DEF Compacts, Places
    <2> QED BY <1>1, <2>1, <2>2 DEF IInv, StateOK, PartitionsTypeOK
  <1> QED BY <1>1, InvariantHolds, PTL

\* A query reads each row of an imported batch from exactly one file or chunk, and no row
\* of a batch that is not imported, whatever imports, compactions, repartitions, lost
\* jobs and collections run at the same time.
THEOREM RowsReadOnce == Spec => []RowsOnce
  <1>1. ASSUME IInv PROVE RowsOnce
    <2> SUFFICES ASSUME NEW r \in Row
                 PROVE  Cardinality(Sources(r)) = IF r[1] \in committed THEN 1 ELSE 0
      BY DEF RowsOnce
    <2>1. ReadOnce
      BY <1>1 DEF IInv
    <2>2. \A s : s \in Sources(r) <=> \/ \E p \in PartId : s = <<"file", p>> /\ InFile(r, p)
                                      \/ \E c \in ChunkId : s = <<"chunk", c>> /\ InChunk(r, c)
      BY DEF Sources, Active, ActiveChunks, InFile, InChunk
    <2>3. CASE r[1] \notin committed
      <3>1. Sources(r) = {}
        BY <2>1, <2>2, <2>3 DEF ReadOnce
      <3> QED BY <2>3, <3>1, FS_EmptySet
    <2>4. CASE r[1] \in committed
      <3>1. \E s : Sources(r) = {s}
        <4>1. CASE \E p \in PartId : InFile(r, p)
          <5>1. PICK p \in PartId : InFile(r, p)
            BY <4>1
          <5>2. Sources(r) = {<<"file", p>>}
            BY <2>1, <2>2, <5>1 DEF ReadOnce
          <5> QED BY <5>2
        <4>2. CASE \E c \in ChunkId : InChunk(r, c)
          <5>1. PICK c \in ChunkId : InChunk(r, c)
            BY <4>2
          <5>2. Sources(r) = {<<"chunk", c>>}
            BY <2>1, <2>2, <5>1 DEF ReadOnce
          <5> QED BY <5>2
        <4> QED BY <2>1, <2>4, <4>1, <4>2 DEF ReadOnce
      <3> QED BY <2>4, <3>1, FS_Singleton
    <2> QED BY <2>3, <2>4
  <1> QED BY <1>1, InvariantHolds, PTL

\* The active partitions divide the keys among them, and the rows of each, and of its
\* active chunks, are within its bounds: an import finds a place for every row.
THEOREM RangesAlwaysTile == Spec => []RangesTile
  <1>1. ASSUME IInv PROVE RangesTile
    <2>1. ASSUME NEW k \in Key PROVE Cardinality({p \in Active : k \in Span(p)}) = 1
      <3>1. PICK p \in Active : k \in Span(p)
        BY <1>1 DEF IInv, Tiled
      <3>2. {q \in Active : k \in Span(q)} = {p}
        BY <1>1, <3>1 DEF IInv, Tiled
      <3> QED BY <3>2, FS_Singleton
    <2>2. \A p \in Active : Keys(part[p].rows) \subseteq Span(p)
      BY <1>1 DEF IInv, PartsFit, PartFits, Active
    <2>3. \A c \in ActiveChunks : Keys(chunk[c].rows) \subseteq Span(chunk[c].part)
      BY <1>1 DEF IInv, ChunksFit, ChunkFits, ActiveChunks
    <2> QED BY <2>1, <2>2, <2>3 DEF RangesTile
  <1> QED BY <1>1, InvariantHolds, PTL

\* No partition of a plan, no parent of a partition that was filled and no partition of an
\* active chunk is collected, and the file of an active partition with rows is kept.  A
\* missing parent is one of an unfilled child, and takes a fault.
THEOREM TreeStaysWhole == Spec => []TreeIsWhole
  <1>1. ASSUME IInv PROVE TreeIsWhole
    <2>1. \A p \in PartId : Exists(p) /\ part[p].parent # NoPart =>
            Exists(part[p].parent) \/ (JustCreated(p) /\ faults > 0)
      BY <1>1 DEF IInv, ParentsExist, ParentExists, Lost
    <2>2. \A c \in ActiveChunks : Exists(chunk[c].part)
      BY <1>1 DEF IInv, ChunksFit, ChunkFits, ActiveChunks
    <2>3. \A p \in Active : part[p].rows # {} => p \in files
      BY <1>1 DEF IInv, PartsFit, PartFits, Active
    <2> QED BY <2>1, <2>2, <2>3 DEF TreeIsWhole
  <1> QED BY <1>1, InvariantHolds, PTL

\* Without a failed or orphaned job no table is taken for corrupt: an import finds a
\* partition for each row, and a compaction the file of its partition.
THEOREM TableStaysReady == Spec => []StaysReady
  <1>1. ASSUME IInv PROVE StaysReady
    <2>1. faults \in Nat
      BY <1>1, PartitionsAssumption DEF IInv, StateOK
    <2> QED BY <1>1, <2>1 DEF IInv, Faultless, StaysReady
  <1> QED BY <1>1, InvariantHolds, PTL
=============================================================================
