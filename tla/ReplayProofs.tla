---------------------------- MODULE ReplayProofs ----------------------------
(***************************************************************************)
(* Theorems about Replay, for any number of rows, partitions, handles and  *)
(* restarts: no row is lost without a trace in the handles.                *)
(***************************************************************************)
EXTENDS Replay, FiniteSetTheorems, WellFoundedInduction, TLAPS

-----------------------------------------------------------------------------
(* Ranges.                                                                 *)

\* A set of numbers that is not empty has a least one.
LEMMA MinOfSet ==
    ASSUME NEW S \in SUBSET Nat, S # {}
    PROVE  MinOf(S) \in S /\ \A y \in S : MinOf(S) <= y
  <1>1. \E x \in S : \A y \in S : ~ (<<y, x>> \in OpToRel(<, Nat))
    BY NatLessThanWellFounded, WFMin, Zenon
  <1>2. PICK x \in S : \A y \in S : ~ (<<y, x>> \in OpToRel(<, Nat))
    BY <1>1
  <1>3. \A y \in S : x <= y
    <2> SUFFICES ASSUME NEW y \in S PROVE x <= y
      OBVIOUS
    <2>1. x \in Nat /\ y \in Nat
      OBVIOUS
    <2>2. ~ (y < x)
      BY <1>2, <2>1 DEF OpToRel
    <2> QED BY <2>1, <2>2
  <1> QED BY <1>3 DEF MinOf

\* A set of numbers up to n that is not empty has a largest one.
LEMMA MaxOfSet ==
    ASSUME NEW n \in Nat, NEW S \in SUBSET (0..n), S # {}
    PROVE  MaxOf(S) \in S /\ \A y \in S : MaxOf(S) >= y
  <1> DEFINE T == {n - x : x \in S}
  <1>1. T \in SUBSET Nat /\ T # {}
    <2>1. \A x \in S : n - x \in Nat
      OBVIOUS
    <2> QED BY <2>1
  <1>2. MinOf(T) \in T /\ \A y \in T : MinOf(T) <= y
    BY <1>1, MinOfSet
  <1>3. PICK x \in S : MinOf(T) = n - x
    BY <1>2
  <1>4. \A y \in S : x >= y
    <2> SUFFICES ASSUME NEW y \in S PROVE x >= y
      OBVIOUS
    <2>1. n - x <= n - y
      BY <1>2, <1>3
    <2> QED BY <2>1
  <1> QED BY <1>4 DEF MaxOf

Ranges == Span \cup {NoSpan}
Rows(s) == {k \in Seq1 : s.start <= k /\ k <= s.end}

\* NoSpan is a range that has no rows, and the other ranges have numbers as bounds.
LEMMA RangeBounds ==
    /\ NoSpan \notin Span
    /\ \A s \in Ranges : s.start \in 0..MaxSeq /\ s.end \in 0..MaxSeq /\ s.start <= s.end
    /\ \A s \in Span : s.start \in Seq1 /\ s.end \in Seq1 /\ s # NoSpan
    /\ NoSpan.start = 0 /\ NoSpan.end = 0
  <1> USE ReplayAssumption
  <1>1. \A s \in Span : s.start \in Seq1 /\ s.end \in Seq1 /\ s.start <= s.end
    BY DEF Span
  <1>2. NoSpan.start = 0 /\ NoSpan.end = 0
    BY DEF NoSpan
  <1>3. Seq1 = 1..MaxSeq /\ 0 \notin Seq1 /\ Seq1 \subseteq 0..MaxSeq
    BY DEF Seq1
  <1>4. NoSpan \notin Span
    BY <1>1, <1>2, <1>3
  <1>5. 0 \in 0..MaxSeq
    OBVIOUS
  <1> QED BY <1>1, <1>2, <1>3, <1>4, <1>5 DEF Ranges

\* The union of ranges is a range that covers each of them, and it begins and
\* ends where one of them does.
LEMMA UnionOf ==
    ASSUME NEW S \in SUBSET Ranges
    PROVE  /\ Union(S) \in Ranges
           /\ \A r \in S : Covers(Union(S), r)
           /\ Union(S) # NoSpan => /\ \E r \in S \ {NoSpan} : r.start = Union(S).start
                                   /\ \E r \in S \ {NoSpan} : r.end = Union(S).end
           /\ Union(S) # NoSpan <=> S \ {NoSpan} # {}
  <1> USE ReplayAssumption, RangeBounds
  <1> DEFINE R == S \ {NoSpan}
             starts == {r.start : r \in R}
             ends == {r.end : r \in R}
  <1>1. CASE R = {}
    BY <1>1 DEF Union, Covers, Ranges
  <1>2. CASE R # {}
    <2>1. R \subseteq Span
      BY DEF Ranges
    <2>2. starts \in SUBSET Seq1 /\ starts # {} /\ ends \in SUBSET Seq1 /\ ends # {}
      BY <1>2, <2>1
    <2>3. Seq1 \subseteq Nat /\ Seq1 \subseteq 0..MaxSeq
      BY DEF Seq1
    <2>4. MinOf(starts) \in starts /\ \A y \in starts : MinOf(starts) <= y
      <3>1. starts \in SUBSET Nat
        BY <2>2, <2>3
      <3> QED BY <3>1, <2>2, MinOfSet
    <2>5. MaxOf(ends) \in ends /\ \A y \in ends : MaxOf(ends) >= y
      <3>1. ends \in SUBSET (0..MaxSeq)
        BY <2>2, <2>3
      <3> QED BY <3>1, <2>2, MaxOfSet
    <2>6. Union(S) = [start |-> MinOf(starts), end |-> MaxOf(ends)]
      BY <1>2 DEF Union
    <2> HIDE DEF starts, ends
    <2>7. \A r \in R : MinOf(starts) <= r.start /\ r.end <= MaxOf(ends)
      <3>1. \A r \in R : r.start \in starts /\ r.end \in ends
        BY DEF starts, ends
      <3>2. MaxOf(ends) \in Seq1 /\ \A r \in R : r.end \in Seq1
        BY <2>1, <2>2, <2>5
      <3> QED BY <3>1, <3>2, <2>3, <2>4, <2>5
    <2>8. MinOf(starts) <= MaxOf(ends) /\ MinOf(starts) \in Seq1 /\ MaxOf(ends) \in Seq1
      <3>1. PICK r \in R : TRUE
        BY <1>2
      <3>2. r \in Span
        BY <2>1, <3>1
      <3>3. MinOf(starts) \in Seq1 /\ MaxOf(ends) \in Seq1
        BY <2>2, <2>4, <2>5
      <3>4. MinOf(starts) <= r.start /\ r.start <= r.end /\ r.end <= MaxOf(ends)
        BY <2>7, <3>2 DEF Span
      <3>5. r.start \in Nat /\ r.end \in Nat /\ MinOf(starts) \in Nat /\ MaxOf(ends) \in Nat
        BY <3>2, <3>3, <2>3
      <3>6. MinOf(starts) <= MaxOf(ends)
        BY <3>4, <3>5
      <3> QED BY <3>3, <3>6
    <2>9. Union(S) \in Span
      BY <2>6, <2>8 DEF Span
    <2>10. \A r \in S : Covers(Union(S), r)
      BY <2>6, <2>7, <2>9 DEF Covers
    <2>11. \E r \in R : r.start = Union(S).start
      <3>1. PICK r \in R : r.start = MinOf(starts)
        BY <2>4 DEF starts
      <3> QED BY <3>1, <2>6
    <2>12. \E r \in R : r.end = Union(S).end
      <3>1. PICK r \in R : r.end = MaxOf(ends)
        BY <2>5 DEF ends
      <3> QED BY <3>1, <2>6
    <2> QED BY <1>2, <2>9, <2>10, <2>11, <2>12 DEF Ranges
  <1> QED BY <1>1, <1>2

\* What covers every range of a set covers their union.
LEMMA UnionLeast ==
    ASSUME NEW S \in SUBSET Ranges, NEW t \in Ranges, \A r \in S : Covers(t, r)
    PROVE  Covers(t, Union(S))
  <1>1. CASE Union(S) = NoSpan
    BY <1>1 DEF Covers
  <1>2. CASE Union(S) # NoSpan
    <2>1. PICK r \in S \ {NoSpan} : r.start = Union(S).start
      BY <1>2, UnionOf
    <2>2. PICK q \in S \ {NoSpan} : q.end = Union(S).end
      BY <1>2, UnionOf
    <2>3. Covers(t, r) /\ Covers(t, q)
      OBVIOUS
    <2> QED BY <2>1, <2>2, <2>3 DEF Covers
  <1> QED BY <1>1, <1>2

\* Covering is transitive, and what a range covers it has the rows of.
LEMMA CoversRows ==
    ASSUME NEW s \in Ranges, NEW t \in Ranges, Covers(s, t)
    PROVE  /\ Rows(t) \subseteq Rows(s)
           /\ t.end <= s.end
           /\ \A u \in Ranges : Covers(t, u) => Covers(s, u)
  <1> USE RangeBounds, ReplayAssumption
  <1>1. CASE t = NoSpan
    <2>1. Rows(t) = {}
      BY <1>1 DEF Rows, Seq1
    <2>2. t.end <= s.end
      BY <1>1
    <2>3. \A u \in Ranges : Covers(t, u) => u = NoSpan
      BY <1>1 DEF Covers
    <2> QED BY <2>1, <2>2, <2>3 DEF Covers
  <1>2. CASE t # NoSpan
    <2>1. s # NoSpan /\ s.start <= t.start /\ t.end <= s.end
      BY <1>2 DEF Covers
    <2>2. Rows(t) \subseteq Rows(s)
      BY <2>1 DEF Rows, Seq1
    <2>3. ASSUME NEW u \in Ranges, Covers(t, u) PROVE Covers(s, u)
      <3>1. CASE u = NoSpan
        BY <3>1 DEF Covers
      <3>2. CASE u # NoSpan
        BY <2>1, <2>3, <3>2 DEF Covers
      <3> QED BY <3>1, <3>2
    <2> QED BY <2>1, <2>2, <2>3
  <1> QED BY <1>1, <1>2

\* Subtracting leaves a range that the first one covers, and that ends no later
\* than any of the others begins.
LEMMA SubtractOf ==
    ASSUME NEW s \in Ranges, NEW S \in SUBSET Ranges
    PROVE  /\ SubtractFromRight(s, S) \in Ranges
           /\ Covers(s, SubtractFromRight(s, S))
           /\ \A r \in S \ {NoSpan} : SubtractFromRight(s, S).end <= r.start
  <1> USE RangeBounds, ReplayAssumption
  <1> DEFINE bounds == {s.end} \cup {r.start : r \in S \ {NoSpan}}
             end == MinOf(bounds)
  <1>1. bounds \in SUBSET Nat /\ bounds # {}
    BY DEF Ranges
  <1>2. end \in bounds /\ \A y \in bounds : end <= y
    BY <1>1, MinOfSet
  <1>3. end \in Nat /\ end <= s.end /\ \A r \in S \ {NoSpan} : end <= r.start
    BY <1>1, <1>2
  <1>4. SubtractFromRight(s, S) =
          IF s = NoSpan \/ end <= s.start THEN NoSpan ELSE [s EXCEPT !.end = end]
    BY DEF SubtractFromRight
  <1> HIDE DEF end
  <1>5. CASE s = NoSpan \/ end <= s.start
    <2>1. SubtractFromRight(s, S) = NoSpan
      BY <1>4, <1>5
    <2>2. \A r \in S \ {NoSpan} : 0 <= r.start
      OBVIOUS
    <2> QED BY <2>1, <2>2 DEF Covers, Ranges
  <1>6. CASE ~ (s = NoSpan \/ end <= s.start)
    <2>1. SubtractFromRight(s, S) = [s EXCEPT !.end = end]
      BY <1>4, <1>6
    <2>2. s \in Span
      BY <1>6 DEF Ranges
    <2>3. end \in Seq1 /\ s.start <= end
      BY <1>3, <1>6, <2>2 DEF Seq1
    <2>4. [s EXCEPT !.end = end] \in Span
      BY <2>2, <2>3 DEF Span
    <2>5. [s EXCEPT !.end = end].start = s.start /\ [s EXCEPT !.end = end].end = end
      BY <2>2 DEF Span
    <2> QED BY <1>3, <1>6, <2>1, <2>2, <2>3, <2>4, <2>5 DEF Covers, Ranges
  <1> QED BY <1>5, <1>6

\* Less is left of a smaller range.
LEMMA SubtractMonotone ==
    ASSUME NEW s \in Ranges, NEW t \in Ranges, NEW f \in Ranges, Covers(s, t)
    PROVE  SubtractFromRight(t, {f}).end <= SubtractFromRight(s, {f}).end
  <1> USE RangeBounds, ReplayAssumption
  <1> DEFINE bounds(r) == {r.end} \cup {q.start : q \in {f} \ {NoSpan}}
             end(r) == MinOf(bounds(r))
             cut(r) == SubtractFromRight(r, {f})
  <1>1. \A r \in {s, t} : end(r) \in bounds(r) /\ \A y \in bounds(r) : end(r) <= y
    <2>1. \A r \in {s, t} : bounds(r) \in SUBSET Nat /\ bounds(r) # {}
      OBVIOUS
    <2> QED BY <2>1, MinOfSet
  <1>2. \A r \in {s, t} : cut(r) =
          IF r = NoSpan \/ end(r) <= r.start THEN NoSpan ELSE [r EXCEPT !.end = end(r)]
    BY DEF SubtractFromRight
  <1>3. t # NoSpan => end(t) <= end(s) /\ s.start <= t.start /\ s # NoSpan
    <2> HAVE t # NoSpan
    <2>1. s # NoSpan /\ s.start <= t.start /\ t.end <= s.end
      BY DEF Covers
    <2>2. end(t) <= t.end /\ (f # NoSpan => end(t) <= f.start)
      BY <1>1
    <2>3. end(s) = s.end \/ (f # NoSpan /\ end(s) = f.start)
      BY <1>1
    <2>4. end(t) \in Nat
      BY <1>1
    <2> QED BY <2>1, <2>2, <2>3, <2>4
  <1>4. end(s) \in Nat /\ end(t) \in Nat
    BY <1>1
  <1> HIDE DEF end
  <1>5. CASE t = NoSpan \/ end(t) <= t.start
    <2>1. cut(t).end = 0
      BY <1>2, <1>5
    <2>2. cut(s) \in Ranges
      BY SubtractOf
    <2> QED BY <2>1, <2>2
  <1>6. CASE ~ (t = NoSpan \/ end(t) <= t.start)
    <2>1. cut(t) = [t EXCEPT !.end = end(t)]
      BY <1>2, <1>6
    <2>2. cut(s) = [s EXCEPT !.end = end(s)]
      <3>1. ~ (s = NoSpan \/ end(s) <= s.start)
        BY <1>3, <1>4, <1>6
      <3> QED BY <1>2, <3>1
    <2>3. cut(t).end = end(t) /\ cut(s).end = end(s)
      BY <2>1, <2>2, <1>3, <1>6 DEF Ranges, Span
    <2> QED BY <2>3, <1>3, <1>6
  <1> QED BY <1>5, <1>6

-----------------------------------------------------------------------------
(* The inductive invariant.                                                *)

\* An active chunk has a handle of its own rows that nobody is about to use.
ChunkOK == \A c \in chunk :
    /\ c.handle \in Handles \ InFlight
    /\ c.rows \subseteq Rows(handle[c.handle].span)

\* A batch in flight has a handle that did not fail and begins where the stream is.
BatchOK ==
    /\ pc \in {"created", "added"} =>
         batch \in Sound /\ handle[batch].span \in Span /\ handle[batch].span.start = pos
    /\ pc \notin {"created", "added"} => batch = NoHandle
    /\ pc = "added" => /\ \A c \in pending : c.handle = batch
                       /\ UNION {c.rows : c \in pending} = Rows(handle[batch].span)
    /\ pc # "added" => pending = {}

\* A compaction works on active chunks of its partition.
WorkOf(p) ==
    /\ work[p].mark \subseteq work[p].drop
    /\ work[p].drop \cup work[p].join \cup work[p].flush \subseteq {c \in chunk : c.part = p}
    /\ work[p].drop \cap (work[p].join \cup work[p].flush) = {}
    /\ work[p].join \cap work[p].flush = {}
    /\ \A c \in work[p].drop \ work[p].mark : c.handle \in Failed

\* The handle of a join is its own, and covers what is joined.
JoinOf(p) ==
    work[p].new # NoHandle =>
      /\ work[p].drop = {}
      /\ work[p].new \in Sound /\ work[p].new # batch
      /\ \A q \in Part : q # p => work[q].new # work[p].new
      /\ \A c \in work[p].join : c.rows \subseteq Rows(handle[work[p].new].span)

WorkOK == \A p \in Part : WorkOf(p) /\ JoinOf(p)

\* What the scheduler is about to write covers no more than what it replaces.
MergeOK ==
    /\ merge.ids \cap InFlight = {}
    /\ \A h \in merge.ids : h < next
    /\ merge.ids \subseteq Handles => Covers(Union(Spans(merge.ids)), merge.span)

Inv == ReplayTypeOK /\ ChunkOK /\ BatchOK /\ WorkOK /\ MergeOK

\* The rows that are stored, or that a failed handle will bring back.
Accounted == {s \in Seq1 : s \in Stored \/ \E f \in Failed : s \in Rows(handle[f].span)}

\* Up to row m everything has been stored or is covered by a failed handle, and
\* nothing after m has been stored.
IsFrontier(m) ==
    /\ 1..m \subseteq Accounted
    /\ \A h \in Handles \ {batch} : handle[h].span.end <= m
    /\ pc # "down" => pos <= m + 1

Lossless == skipped = {} => \E m \in 0..MaxSeq : IsFrontier(m)

-----------------------------------------------------------------------------
(* What steps do to handles.                                               *)

\* The spans of handles are ranges, and so is the union of some of them.
LEMMA SpansAreRanges ==
    ASSUME ReplayTypeOK
    PROVE  /\ \A h \in Handles : handle[h].span \in Ranges
           /\ \A H \in SUBSET Handles : Spans(H) \in SUBSET Ranges /\ Union(Spans(H)) \in Ranges
  <1>1. \A h \in Handles : handle[h].span \in Ranges
    BY DEF ReplayTypeOK, Ranges
  <1>2. \A H \in SUBSET Handles : Spans(H) \in SUBSET Ranges
    BY <1>1 DEF Spans
  <1> QED BY <1>1, <1>2, UnionOf

\* The start of a stream is a row or 0.
LEMMA InitialSeqType ==
    ASSUME ReplayTypeOK
    PROVE  InitialSeq \in 0..MaxSeq
  <1>1. Sound \in SUBSET Handles /\ Failed \in SUBSET Handles
    BY DEF Sound, Failed
  <1>2. SubtractFromRight(Union(Spans(Sound)), {Union(Spans(Failed))}) \in Ranges
    BY <1>1, SpansAreRanges, SubtractOf
  <1> QED BY <1>2, RangeBounds DEF InitialSeq

\* A new handle joins the others.
LEMMA AddFacts ==
    ASSUME ReplayTypeOK, NEW span \in Ranges, AddHandle(span)
    PROVE  /\ next \in HandleId \ Handles /\ next' = next + 1
           /\ Handles' = Handles \cup {next} /\ Failed' = Failed /\ Sound' = Sound \cup {next}
           /\ \A h \in Handles : handle'[h] = handle[h]
           /\ handle'[next] = [span |-> span, failed |-> FALSE]
           /\ Handles' \subseteq HandleId /\ next' \in 1..(MaxHandle + 1)
           /\ \A h \in Handles' : h < next'
           /\ \A h \in Handles' : handle'[h] \in [span : Span \cup {NoSpan}, failed : BOOLEAN]
  <1> USE ReplayAssumption
  <1>1. next \in HandleId \ Handles
    BY DEF ReplayTypeOK, AddHandle, HandleId
  <1>2. handle' = [h \in Handles \cup {next} |->
                     IF h = next THEN [span |-> span, failed |-> FALSE] ELSE handle[h]]
    BY DEF AddHandle
  <1>3. Handles' = Handles \cup {next}
    BY <1>2 DEF Handles
  <1>4. /\ \A h \in Handles : handle'[h] = handle[h]
        /\ handle'[next] = [span |-> span, failed |-> FALSE]
    BY <1>1, <1>2
  <1>5. Failed' = Failed
    BY <1>1, <1>3, <1>4 DEF Failed
  <1>6. Sound' = Sound \cup {next}
    BY <1>1, <1>3, <1>5 DEF Sound, Failed
  <1>7. next' = next + 1
    BY DEF AddHandle
  <1>8. Handles' \subseteq HandleId /\ next' \in 1..(MaxHandle + 1)
    <2>1. Handles \subseteq HandleId
      BY DEF ReplayTypeOK
    <2>2. next \in 1..MaxHandle
      BY <1>1 DEF HandleId
    <2> QED BY <1>1, <1>3, <1>7, <2>1, <2>2
  <1>9. \A h \in Handles' : h < next'
    <2>1. \A h \in Handles : h < next /\ h \in Nat /\ next \in Nat
      BY <1>1 DEF ReplayTypeOK, HandleId
    <2>2. next \in Nat
      BY <1>1 DEF HandleId
    <2> QED BY <1>3, <1>7, <2>1, <2>2
  <1>10. \A h \in Handles' : handle'[h] \in [span : Span \cup {NoSpan}, failed : BOOLEAN]
    <2>1. \A h \in Handles : handle[h] \in [span : Span \cup {NoSpan}, failed : BOOLEAN]
      BY DEF ReplayTypeOK
    <2>2. [span |-> span, failed |-> FALSE] \in [span : Span \cup {NoSpan}, failed : BOOLEAN]
      BY DEF Ranges
    <2>3. \A h \in Handles : handle'[h] \in [span : Span \cup {NoSpan}, failed : BOOLEAN]
      BY <1>4, <2>1
    <2>4. handle'[next] \in [span : Span \cup {NoSpan}, failed : BOOLEAN]
      BY <1>4, <2>2
    <2> QED BY <1>3, <2>3, <2>4
  <1> QED BY <1>1, <1>3, <1>4, <1>5, <1>6, <1>7, <1>8, <1>9, <1>10

\* A handle that is marked keeps its span.
LEMMA MarkFacts ==
    ASSUME ReplayTypeOK, NEW k \in Handles, MarkFailed(k)
    PROVE  /\ Handles' = Handles /\ Failed' = Failed \cup {k} /\ Sound' = Sound \ {k}
           /\ \A h \in Handles : handle'[h].span = handle[h].span
           /\ \A h \in Handles : handle'[h] \in [span : Span \cup {NoSpan}, failed : BOOLEAN]
  <1>1. handle' = [h \in Handles |-> IF h = k THEN [handle[h] EXCEPT !.failed = TRUE]
                                              ELSE handle[h]]
    BY DEF MarkFailed
  <1>2. Handles' = Handles
    BY <1>1 DEF Handles
  <1>3. \A h \in Handles : handle[h] \in [span : Span \cup {NoSpan}, failed : BOOLEAN]
    BY DEF ReplayTypeOK
  <1>4. /\ handle'[k].failed = TRUE
        /\ \A h \in Handles \ {k} : handle'[h] = handle[h]
        /\ handle'[k].span = handle[k].span
        /\ handle'[k] \in [span : Span \cup {NoSpan}, failed : BOOLEAN]
    BY <1>1, <1>3
  <1>5. Failed' = Failed \cup {k}
    BY <1>2, <1>4 DEF Failed
  <1> QED BY <1>2, <1>3, <1>4, <1>5 DEF Sound

\* The handles that are replaced are gone, those that stay are as they were.
LEMMA ReplaceFacts ==
    ASSUME ReplayTypeOK, ReplaceHandles
    PROVE  \/ UNCHANGED <<handle, next, skipped>>
           \/ /\ merge.ids \subseteq Handles /\ \A h \in merge.ids : NoActiveChunks(h)
              /\ Handles' = (Handles \ merge.ids) \cup (IF merge.insert THEN {next} ELSE {})
              /\ next' = next + (IF merge.insert THEN 1 ELSE 0)
              /\ next \notin Handles /\ (merge.insert => next \in HandleId)
              /\ \A h \in Handles \ merge.ids : handle'[h] = handle[h]
              /\ merge.insert => handle'[next] = [span |-> merge.span, failed |-> FALSE]
              /\ Failed' = Failed \ merge.ids
              /\ skipped' = skipped \cup (IF merge.ids \cap Failed = {} THEN {} ELSE {"covered"})
  <1> USE ReplayAssumption
  <1> DEFINE allowed == merge.ids \subseteq Handles /\ \A h \in merge.ids : NoActiveChunks(h)
             stay == Handles \ merge.ids
             new == IF merge.insert THEN {next} ELSE {}
  <1>1. CASE ~ allowed
    BY <1>1 DEF ReplaceHandles
  <1>2. CASE allowed
    <2>1. /\ handle' = [h \in stay \cup new |->
                          IF h \in stay THEN handle[h]
                          ELSE [span |-> merge.span, failed |-> FALSE]]
          /\ next' = next + Cardinality(new)
          /\ skipped' = IF merge.ids \cap Failed = {} THEN skipped ELSE skipped \cup {"covered"}
          /\ merge.insert => next <= MaxHandle
      BY <1>2 DEF ReplaceHandles
    <2>2. next \notin Handles /\ (merge.insert => next \in HandleId) /\ merge.insert \in BOOLEAN
      BY <2>1 DEF ReplayTypeOK, HandleId
    <2>3. Cardinality(new) = IF merge.insert THEN 1 ELSE 0
      BY <2>2, FS_EmptySet, FS_Singleton
    <2>4. Handles' = stay \cup new
      BY <2>1 DEF Handles
    <2>5. \A h \in stay : handle'[h] = handle[h]
      BY <2>1
    <2>6. merge.insert => handle'[next] = [span |-> merge.span, failed |-> FALSE]
      BY <2>1, <2>2
    <2>7. Failed' = Failed \ merge.ids
      BY <2>2, <2>4, <2>5, <2>6 DEF Failed
    <2> HIDE DEF stay, new
    <2>8. Handles' = (Handles \ merge.ids) \cup (IF merge.insert THEN {next} ELSE {})
      BY <2>4 DEF stay, new
    <2>9. \A h \in Handles \ merge.ids : handle'[h] = handle[h]
      BY <2>5 DEF stay
    <2>10. skipped' = skipped \cup (IF merge.ids \cap Failed = {} THEN {} ELSE {"covered"})
      BY <2>1
    <2>11. next' = next + (IF merge.insert THEN 1 ELSE 0)
      BY <2>1, <2>3
    <2> QED BY <1>2, <2>2, <2>6, <2>7, <2>8, <2>9, <2>10, <2>11
  <1> QED BY <1>1, <1>2

-----------------------------------------------------------------------------
(* The stream job preserves the invariant.                                 *)

LEMMA InvInit == Init => Inv
  <1> SUFFICES ASSUME Init PROVE Inv
    OBVIOUS
  <1> USE ReplayAssumption
  <1>1. Handles = {} /\ Failed = {} /\ Sound = {}
    BY DEF Init, Handles, Failed, Sound
  <1>2. NoSpan \in Ranges /\ Idle \in [mark : SUBSET Chunk, drop : SUBSET Chunk, join : SUBSET Chunk,
                                       new : HandleId \cup {NoHandle}, flush : SUBSET Chunk]
    BY DEF Ranges, Idle
  <1>3. ReplayTypeOK
    BY <1>1, <1>2 DEF Init, ReplayTypeOK, Ranges, NoMerge, HandleId, Seq1
  <1>4. ChunkOK /\ BatchOK
    BY <1>1 DEF Init, ChunkOK, BatchOK
  <1>5. WorkOK
    BY <1>1 DEF Init, WorkOK, WorkOf, JoinOf, Idle
  <1>6. MergeOK
    BY <1>1 DEF Init, MergeOK, NoMerge, Covers
  <1> QED BY <1>3, <1>4, <1>5, <1>6 DEF Inv

\* Whatever leaves handles, chunks and compactions alone leaves what is said of
\* them alone.
LEMMA NothingMoves ==
    ASSUME Inv, UNCHANGED <<handle, next, chunk, work, merge>>, batch' \in {batch, NoHandle}
    PROVE  ChunkOK' /\ WorkOK' /\ MergeOK' /\ Handles' = Handles /\ Failed' = Failed /\ Sound' = Sound
  <1>1. Handles' = Handles /\ Failed' = Failed /\ Sound' = Sound
    BY DEF Handles, Failed, Sound
  <1>2. InFlight' \subseteq InFlight
    BY DEF InFlight
  <1>3. ChunkOK'
    BY <1>1, <1>2 DEF Inv, ChunkOK
  <1>4. WorkOK'
    <2> SUFFICES ASSUME NEW p \in Part PROVE WorkOf(p)' /\ JoinOf(p)'
      BY DEF WorkOK
    <2>1. WorkOf(p) /\ JoinOf(p)
      BY DEF Inv, WorkOK
    <2>2. WorkOf(p)'
      BY <2>1, <1>1 DEF WorkOf
    <2>3. JoinOf(p)'
      BY <2>1, <1>1 DEF JoinOf
    <2> QED BY <2>2, <2>3
  <1>5. Spans(merge.ids)' = Spans(merge.ids)
    BY DEF Spans
  <1>6. MergeOK'
    <2>1. \A h \in merge'.ids : h < next'
      BY DEF Inv, MergeOK
    <2>2. merge'.ids \cap InFlight' = {}
      BY <1>2 DEF Inv, MergeOK
    <2>3. merge'.ids \subseteq Handles' => Covers(Union(Spans(merge.ids)'), merge'.span)
      BY <1>1, <1>5 DEF Inv, MergeOK
    <2> QED BY <2>1, <2>2, <2>3 DEF MergeOK
  <1> QED BY <1>1, <1>3, <1>4, <1>6

LEMMA InvStreamStart ==
    ASSUME Inv, StreamStart
    PROVE  Inv'
  <1> USE ReplayAssumption
  <1>1. /\ UNCHANGED <<handle, next, chunk, disk, work, merge, batch, pending, crashes, skipped>>
        /\ pc = "down" /\ pc' = "reading" /\ initial' = InitialSeq
        /\ pos' = IF InitialSeq = 0 THEN 1 ELSE InitialSeq
    BY DEF StreamStart
  <1>2. ChunkOK' /\ WorkOK' /\ MergeOK' /\ Handles' = Handles
    BY <1>1, NothingMoves
  <1>3. InitialSeq \in 0..MaxSeq
    BY InitialSeqType DEF Inv
  <1>4. pos' \in 1..(MaxSeq + 1)
    BY <1>1, <1>3
  <1>5. ReplayTypeOK'
    BY <1>1, <1>2, <1>3, <1>4 DEF Inv, ReplayTypeOK
  <1>6. BatchOK'
    BY <1>1 DEF Inv, BatchOK
  <1> QED BY <1>2, <1>5, <1>6 DEF Inv

\* The stream ends, between batches or in the middle of one.
LEMMA InvDown ==
    ASSUME Inv, Down, UNCHANGED <<handle, next, chunk, disk, work, merge, crashes>>,
           skipped' \subseteq {"ingest", "covered"}
    PROVE  Inv'
  <1> USE ReplayAssumption
  <1>1. pc' = "down" /\ initial' = 0 /\ pos' = 1 /\ batch' = NoHandle /\ pending' = {}
    BY DEF Down
  <1>2. ChunkOK' /\ WorkOK' /\ MergeOK' /\ Handles' = Handles
    BY <1>1, NothingMoves
  <1>3. ReplayTypeOK'
    BY <1>1, <1>2 DEF Inv, ReplayTypeOK
  <1>4. BatchOK'
    BY <1>1 DEF BatchOK
  <1> QED BY <1>2, <1>3, <1>4 DEF Inv

LEMMA InvAddMemoryChunks ==
    ASSUME Inv, AddMemoryChunks
    PROVE  Inv'
  <1> USE ReplayAssumption
  <1> DEFINE span == handle[batch].span
             rows == span.start..span.end
             in(p) == {s \in rows : PartOf[s] = p}
  <1>1. /\ UNCHANGED <<initial, pos, batch, handle, next, chunk, disk, work, merge, crashes, skipped>>
        /\ pc = "created" /\ pc' = "added"
        /\ pending' = {[part |-> p, rows |-> in(p), handle |-> batch, mem |-> TRUE] :
                         p \in {q \in Part : in(q) # {}}}
    BY DEF AddMemoryChunks
  <1>2. ChunkOK' /\ WorkOK' /\ MergeOK' /\ Handles' = Handles /\ Sound' = Sound
    BY <1>1, NothingMoves
  <1>3. batch \in Sound /\ span \in Span /\ span.start = pos /\ batch \in HandleId
    BY <1>1 DEF Inv, BatchOK, ReplayTypeOK, Sound
  <1>4. rows = Rows(span) /\ rows \subseteq Seq1
    BY <1>3, RangeBounds DEF Rows, Seq1
  <1>5. pending' \subseteq Chunk
    <2> SUFFICES ASSUME NEW p \in Part
                 PROVE  [part |-> p, rows |-> in(p), handle |-> batch, mem |-> TRUE] \in Chunk
      BY <1>1
    <2> QED BY <1>3, <1>4 DEF Chunk
  <1>6. ReplayTypeOK'
    BY <1>1, <1>2, <1>5 DEF Inv, ReplayTypeOK
  <1>7. UNION {c.rows : c \in pending'} = rows
    <2>1. \A c \in pending' : c.rows \subseteq rows
      BY <1>1
    <2>2. ASSUME NEW s \in rows PROVE \E c \in pending' : s \in c.rows
      <3>1. PartOf[s] \in Part /\ s \in in(PartOf[s])
        BY <1>4
      <3>2. [part |-> PartOf[s], rows |-> in(PartOf[s]), handle |-> batch, mem |-> TRUE] \in pending'
        BY <1>1, <3>1
      <3>3. [part |-> PartOf[s], rows |-> in(PartOf[s]), handle |-> batch, mem |-> TRUE].rows
              = in(PartOf[s])
        OBVIOUS
      <3> QED BY <3>1, <3>2, <3>3
    <2> QED BY <2>1, <2>2
  <1>8. \A c \in pending' : c.handle = batch
    BY <1>1
  <1>9. BatchOK'
    BY <1>1, <1>2, <1>3, <1>4, <1>7, <1>8 DEF BatchOK
  <1> QED BY <1>2, <1>6, <1>9 DEF Inv

\* A new handle disturbs nothing that is said of the old ones.
LEMMA NewHandle ==
    ASSUME Inv, NEW span \in Ranges, AddHandle(span), UNCHANGED <<chunk, merge>>,
           InFlight' \subseteq InFlight \cup {next}
    PROVE  ChunkOK' /\ MergeOK'
  <1> USE ReplayAssumption
  <1>1. /\ next \in HandleId \ Handles /\ next' = next + 1
        /\ Handles' = Handles \cup {next}
        /\ \A h \in Handles : handle'[h] = handle[h]
    BY AddFacts DEF Inv
  <1>2. ChunkOK'
    <2> SUFFICES ASSUME NEW c \in chunk
                 PROVE  /\ c.handle \in Handles' \ InFlight'
                        /\ c.rows \subseteq Rows(handle'[c.handle].span)
      BY DEF ChunkOK
    <2>1. c.handle \in Handles \ InFlight /\ c.rows \subseteq Rows(handle[c.handle].span)
      BY DEF Inv, ChunkOK
    <2> QED BY <1>1, <2>1
  <1>3. \A h \in merge.ids : h < next /\ h \in HandleId
    BY DEF Inv, MergeOK, ReplayTypeOK
  <1>4. next \notin merge.ids /\ \A h \in merge.ids : h < next'
    BY <1>1, <1>3 DEF HandleId
  <1>5. merge.ids \cap InFlight' = {}
    BY <1>4 DEF Inv, MergeOK
  <1>6. ASSUME merge.ids \subseteq Handles'
        PROVE  Covers(Union(Spans(merge.ids)'), merge.span)
    <2>1. merge.ids \subseteq Handles
      BY <1>1, <1>4, <1>6
    <2>2. Spans(merge.ids)' = Spans(merge.ids)
      BY <1>1, <2>1 DEF Spans
    <2> QED BY <2>1, <2>2 DEF Inv, MergeOK
  <1>7. MergeOK'
    BY <1>4, <1>5, <1>6 DEF MergeOK
  <1> QED BY <1>2, <1>7

LEMMA InvCreateHandle ==
    ASSUME Inv, NEW last \in Seq1, CreateHandle(last)
    PROVE  Inv'
  <1> USE ReplayAssumption
  <1> DEFINE span == [start |-> pos, end |-> last]
  <1>1. /\ pc = "reading" /\ last \in pos..MaxSeq /\ AddHandle(span)
        /\ pc' = "created" /\ batch' = next
        /\ UNCHANGED <<initial, pos, pending, chunk, disk, work, merge, crashes, skipped>>
    BY DEF CreateHandle
  <1>2. span \in Span /\ span \in Ranges /\ span.start = pos
    BY <1>1 DEF Inv, ReplayTypeOK, Span, Seq1, Ranges
  <1>3. /\ next \in HandleId \ Handles /\ next' = next + 1
        /\ Handles' = Handles \cup {next} /\ Failed' = Failed /\ Sound' = Sound \cup {next}
        /\ \A h \in Handles : handle'[h] = handle[h]
        /\ handle'[next] = [span |-> span, failed |-> FALSE]
        /\ Handles' \subseteq HandleId /\ next' \in 1..(MaxHandle + 1)
        /\ \A h \in Handles' : h < next'
        /\ \A h \in Handles' : handle'[h] \in [span : Span \cup {NoSpan}, failed : BOOLEAN]
    BY <1>1, <1>2, AddFacts DEF Inv
  <1>4. ChunkOK' /\ MergeOK'
    <2>1. InFlight' \subseteq InFlight \cup {next}
      BY <1>1 DEF InFlight
    <2> QED BY <1>1, <1>2, <2>1, NewHandle
  <1>5. ReplayTypeOK'
    <2>1. batch' \in HandleId \cup {NoHandle}
      BY <1>1, <1>3
    <2> QED BY <1>1, <1>3, <2>1 DEF Inv, ReplayTypeOK
  <1>6. BatchOK'
    BY <1>1, <1>2, <1>3 DEF Inv, BatchOK
  <1>7. WorkOK'
    <2> SUFFICES ASSUME NEW p \in Part PROVE WorkOf(p)' /\ JoinOf(p)'
      BY DEF WorkOK
    <2>1. WorkOf(p) /\ JoinOf(p)
      BY DEF Inv, WorkOK
    <2>2. WorkOf(p)'
      BY <2>1, <1>1, <1>3 DEF WorkOf
    <2>3. JoinOf(p)'
      <3>1. work[p].new # NoHandle => work[p].new \in Handles
        BY <2>1 DEF JoinOf, Sound
      <3> QED BY <2>1, <3>1, <1>1, <1>3 DEF JoinOf
    <2> QED BY <2>2, <2>3
  <1> QED BY <1>4, <1>5, <1>6, <1>7 DEF Inv

LEMMA InvActivateChunks ==
    ASSUME Inv, ActivateChunks
    PROVE  Inv'
  <1> USE ReplayAssumption
  <1>1. /\ pc = "added" /\ chunk' = chunk \cup pending
        /\ pos' = handle[batch].span.end + 1
        /\ pc' = "reading" /\ batch' = NoHandle /\ pending' = {}
        /\ UNCHANGED <<initial, handle, next, disk, work, merge, crashes, skipped>>
    BY DEF ActivateChunks
  <1>2. /\ batch \in Sound /\ handle[batch].span \in Span
        /\ \A c \in pending : c.handle = batch
        /\ UNION {c.rows : c \in pending} = Rows(handle[batch].span)
    BY <1>1 DEF Inv, BatchOK
  <1>3. Handles' = Handles /\ Sound' = Sound /\ Failed' = Failed
    BY <1>1 DEF Handles, Sound, Failed
  <1>4. \A p \in Part : work[p].new # batch
    BY <1>2 DEF Inv, WorkOK, JoinOf, ReplayTypeOK, Sound, HandleId, NoHandle
  <1>5. InFlight' = InFlight \ {batch}
    BY <1>1, <1>4 DEF InFlight
  <1>6. ReplayTypeOK'
    <2>1. pos' \in 1..(MaxSeq + 1)
      BY <1>1, <1>2, RangeBounds DEF Seq1
    <2> QED BY <1>1, <1>3, <2>1 DEF Inv, ReplayTypeOK
  <1>7. ChunkOK'
    <2> SUFFICES ASSUME NEW c \in chunk \cup pending
                 PROVE  /\ c.handle \in Handles \ InFlight'
                        /\ c.rows \subseteq Rows(handle[c.handle].span)
      BY <1>1, <1>3 DEF ChunkOK
    <2>1. CASE c \in chunk
      BY <1>5, <2>1 DEF Inv, ChunkOK
    <2>2. CASE c \in pending
      <3>1. c.handle = batch /\ batch \in Handles
        BY <1>2, <2>2 DEF Sound
      <3>2. c.rows \subseteq Rows(handle[batch].span)
        BY <1>2, <2>2
      <3> QED BY <1>5, <3>1, <3>2
    <2> QED BY <2>1, <2>2
  <1>8. BatchOK'
    BY <1>1 DEF BatchOK
  <1>9. WorkOK'
    <2> SUFFICES ASSUME NEW p \in Part PROVE WorkOf(p)' /\ JoinOf(p)'
      BY DEF WorkOK
    <2>1. WorkOf(p) /\ JoinOf(p)
      BY DEF Inv, WorkOK
    <2>2. WorkOf(p)'
      BY <2>1, <1>1, <1>3 DEF WorkOf
    <2>3. JoinOf(p)'
      BY <2>1, <1>1, <1>3 DEF JoinOf
    <2> QED BY <2>2, <2>3
  <1>10. MergeOK'
    <2>1. Spans(merge.ids)' = Spans(merge.ids)
      BY <1>1 DEF Spans
    <2>2. /\ merge'.ids \cap InFlight' = {} /\ \A h \in merge'.ids : h < next'
          /\ merge'.ids \subseteq Handles' => Covers(Union(Spans(merge.ids)'), merge'.span)
      BY <1>1, <1>3, <1>5, <2>1 DEF Inv, MergeOK
    <2> QED BY <1>1, <2>2 DEF MergeOK
  <1> QED BY <1>6, <1>7, <1>8, <1>9, <1>10 DEF Inv

-----------------------------------------------------------------------------
(* Compaction preserves the invariant.                                     *)

LEMMA InvCompactStart ==
    ASSUME Inv, NEW p \in Part, NEW keep \in SUBSET chunk, CompactStart(p, keep)
    PROVE  Inv'
  <1> USE ReplayAssumption
  <1> DEFINE here == {c \in chunk : c.part = p}
             lost == {c \in here : ~c.mem}
             todo == [mark |-> lost, drop |-> lost, new |-> NoHandle,
                      join |-> IF Cardinality(keep) > 1 THEN keep ELSE {},
                      flush |-> (here \ lost) \ keep]
  <1>1. /\ work' = [work EXCEPT ![p] = todo] /\ keep \subseteq here \ lost /\ work[p] = Idle
        /\ UNCHANGED <<handle, next, chunk, disk, streamVars, merge, crashes, skipped>>
    BY DEF CompactStart
  <1>2. UNCHANGED <<pc, initial, pos, batch, pending>>
    BY <1>1 DEF streamVars
  <1>3. Handles' = Handles /\ Failed' = Failed /\ Sound' = Sound
    BY <1>1 DEF Handles, Failed, Sound
  <1>4. here \in SUBSET Chunk /\ chunk \in SUBSET Chunk
    BY DEF Inv, ReplayTypeOK
  <1>5. todo \in [mark : SUBSET Chunk, drop : SUBSET Chunk, join : SUBSET Chunk,
                  new : HandleId \cup {NoHandle}, flush : SUBSET Chunk]
    BY <1>4
  <1>6. ReplayTypeOK'
    BY <1>1, <1>2, <1>3, <1>5 DEF Inv, ReplayTypeOK
  <1>7. work \in [Part -> [mark : SUBSET Chunk, drop : SUBSET Chunk, join : SUBSET Chunk,
                           new : HandleId \cup {NoHandle}, flush : SUBSET Chunk]]
    BY DEF Inv, ReplayTypeOK
  <1>8. work'[p] = todo /\ \A q \in Part : q # p => work'[q] = work[q]
    BY <1>1, <1>7
  <1>9. \A q \in Part : work'[q].new = work[q].new
    BY <1>1, <1>8 DEF Idle
  <1>10. InFlight' = InFlight
    BY <1>2, <1>9 DEF InFlight
  <1>11. ChunkOK'
    BY <1>1, <1>3, <1>10 DEF Inv, ChunkOK
  <1>12. BatchOK'
    BY <1>1, <1>2, <1>3 DEF Inv, BatchOK
  <1>13. WorkOK'
    <2> SUFFICES ASSUME NEW q \in Part PROVE WorkOf(q)' /\ JoinOf(q)'
      BY DEF WorkOK
    <2>1. WorkOf(q) /\ JoinOf(q)
      BY DEF Inv, WorkOK
    <2>2. WorkOf(q)'
      <3>1. CASE q = p
        <4>1. /\ todo.mark = lost /\ todo.drop = lost /\ todo.flush = (here \ lost) \ keep
              /\ todo.join \subseteq keep
          OBVIOUS
        <4> HIDE DEF todo
        <4> QED BY <1>1, <1>8, <3>1, <4>1 DEF WorkOf
      <3>2. CASE q # p
        BY <2>1, <3>2, <1>1, <1>3, <1>8 DEF WorkOf
      <3> QED BY <3>1, <3>2
    <2>3. JoinOf(q)'
      <3>1. CASE q = p
        BY <1>8, <3>1 DEF JoinOf
      <3>2. CASE q # p
        BY <2>1, <3>2, <1>1, <1>2, <1>3, <1>8, <1>9 DEF JoinOf
      <3> QED BY <3>1, <3>2
    <2> QED BY <2>2, <2>3
  <1>14. MergeOK'
    <2>1. Spans(merge.ids)' = Spans(merge.ids)
      BY <1>1 DEF Spans
    <2>2. /\ merge'.ids \cap InFlight' = {} /\ \A h \in merge'.ids : h < next'
          /\ merge'.ids \subseteq Handles' => Covers(Union(Spans(merge.ids)'), merge'.span)
      BY <1>1, <1>3, <1>10, <2>1 DEF Inv, MergeOK
    <2> QED BY <1>1, <2>2 DEF MergeOK
  <1> QED BY <1>6, <1>11, <1>12, <1>13, <1>14 DEF Inv

WorkRecord == [mark : SUBSET Chunk, drop : SUBSET Chunk, join : SUBSET Chunk,
               new : HandleId \cup {NoHandle}, flush : SUBSET Chunk]

\* The compaction of one partition does not disturb that of another.
LEMMA OtherWork ==
    ASSUME Inv, NEW p \in Part, NEW q \in Part, q # p,
           NEW w \in WorkRecord, work' = [work EXCEPT ![p] = w],
           \A c \in chunk : c.part = q => c \in chunk',
           Failed \subseteq Failed', batch' = batch,
           work[q].new # NoHandle =>
             /\ work[q].new \in Sound' /\ handle'[work[q].new].span = handle[work[q].new].span
             /\ w.new # work[q].new
    PROVE  WorkOf(q)' /\ JoinOf(q)'
  <1>1. WorkOf(q) /\ JoinOf(q)
    BY DEF Inv, WorkOK
  <1>2. work'[p] = w /\ \A r \in Part : r # p => work'[r] = work[r]
    BY DEF Inv, ReplayTypeOK
  <1>3. work'[q] = work[q]
    BY <1>2
  <1>4. WorkOf(q)'
    BY <1>1, <1>3 DEF WorkOf
  <1>5. JoinOf(q)'
    <2> SUFFICES ASSUME work[q].new # NoHandle
                 PROVE  /\ work[q].drop = {}
                        /\ work[q].new \in Sound' /\ work[q].new # batch
                        /\ \A r \in Part : r # q => work'[r].new # work[q].new
                        /\ \A c \in work[q].join : c.rows \subseteq Rows(handle'[work[q].new].span)
      BY <1>3 DEF JoinOf
    <2>1. \A r \in Part : r # q => work'[r].new # work[q].new
      BY <1>1, <1>2 DEF JoinOf
    <2> QED BY <1>1, <2>1 DEF JoinOf
  <1> QED BY <1>4, <1>5

\* Chunks that leave disturb nothing that is said of handles.
LEMMA ChunksLeave ==
    ASSUME Inv, chunk' \subseteq chunk, InFlight' \subseteq InFlight, Handles' = Handles,
           \A h \in Handles : handle'[h].span = handle[h].span, UNCHANGED <<merge, next>>
    PROVE  ChunkOK' /\ MergeOK'
  <1>1. ChunkOK'
    BY DEF Inv, ChunkOK
  <1>2. ASSUME merge.ids \subseteq Handles PROVE Spans(merge.ids)' = Spans(merge.ids)
    BY <1>2 DEF Spans
  <1>3. /\ merge'.ids \cap InFlight' = {} /\ \A h \in merge'.ids : h < next'
        /\ merge'.ids \subseteq Handles' => Covers(Union(Spans(merge.ids)'), merge'.span)
    BY <1>2 DEF Inv, MergeOK
  <1> QED BY <1>1, <1>3 DEF MergeOK

\* A step of a compaction that creates no handle leaves the batch alone.
LEMMA BatchStays ==
    ASSUME Inv, UNCHANGED <<pc, initial, pos, batch, pending>>,
           batch # NoHandle => batch \in Sound' /\ handle'[batch].span = handle[batch].span
    PROVE  BatchOK'
  <1>1. pc \in {"created", "added"} => batch # NoHandle
    BY DEF Inv, BatchOK, ReplayTypeOK, Sound, NoHandle, HandleId
  <1> QED BY <1>1 DEF Inv, BatchOK

LEMMA InvMarkLost ==
    ASSUME Inv, NEW p \in Part, MarkLost(p)
    PROVE  Inv'
  <1> USE ReplayAssumption
  <1>1. PICK c \in work[p].mark :
          /\ MarkFailed(c.handle)
          /\ work' = [work EXCEPT ![p].mark = @ \ {c}]
          /\ UNCHANGED <<next, chunk, disk, streamVars, merge, crashes, skipped>>
    BY DEF MarkLost
  <1>2. UNCHANGED <<pc, initial, pos, batch, pending>>
    BY <1>1 DEF streamVars
  <1>3. work[p] \in WorkRecord /\ WorkOf(p) /\ JoinOf(p) /\ DOMAIN work = Part
    BY DEF Inv, ReplayTypeOK, WorkOK, WorkRecord
  <1>4. c \in chunk /\ c \in work[p].drop /\ c.handle \in Handles \ InFlight
    BY <1>3 DEF WorkOf, Inv, ChunkOK
  <1>5. /\ Handles' = Handles /\ Failed' = Failed \cup {c.handle} /\ Sound' = Sound \ {c.handle}
        /\ \A h \in Handles : handle'[h].span = handle[h].span
        /\ \A h \in Handles : handle'[h] \in [span : Span \cup {NoSpan}, failed : BOOLEAN]
    BY <1>1, <1>4, MarkFacts DEF Inv
  <1> DEFINE w == [work[p] EXCEPT !.mark = @ \ {c}]
  <1>6. /\ work' = [work EXCEPT ![p] = w] /\ w \in WorkRecord
        /\ w.mark = work[p].mark \ {c} /\ w.drop = work[p].drop /\ w.join = work[p].join
        /\ w.flush = work[p].flush /\ w.new = work[p].new
    BY <1>1, <1>3 DEF WorkRecord
  <1> HIDE DEF w
  <1>7. work'[p] = w /\ \A r \in Part : work'[r].new = work[r].new
    BY <1>3, <1>6
  <1>8. InFlight' = InFlight
    BY <1>2, <1>7 DEF InFlight
  <1>9. ReplayTypeOK'
    <2>1. work' \in [Part -> WorkRecord]
      BY <1>6 DEF Inv, ReplayTypeOK, WorkRecord
    <2> QED BY <1>1, <1>2, <1>5, <2>1 DEF Inv, ReplayTypeOK, WorkRecord
  <1>10. ChunkOK' /\ MergeOK'
    BY <1>1, <1>5, <1>8, ChunksLeave
  <1>11. BatchOK'
    <2>1. batch # NoHandle => batch \in InFlight /\ batch \in Sound /\ batch \in Handles
      BY DEF InFlight, Inv, BatchOK, Sound
    <2> QED BY <1>2, <1>4, <1>5, <2>1, BatchStays
  <1>12. WorkOK'
    <2>1. ASSUME NEW q \in Part, q # p PROVE WorkOf(q)' /\ JoinOf(q)'
      <3>1. work[q].new # NoHandle => /\ work[q].new \in InFlight /\ work[q].new \in Sound
                                      /\ work[q].new \in Handles
        BY DEF InFlight, Inv, WorkOK, JoinOf, Sound
      <3>2. work[q].new # NoHandle => w.new # work[q].new
        BY <1>6, <2>1 DEF Inv, WorkOK, JoinOf
      <3> QED BY <1>1, <1>2, <1>4, <1>5, <1>6, <2>1, <3>1, <3>2, OtherWork
    <2>2. WorkOf(p)'
      BY <1>1, <1>3, <1>5, <1>6, <1>7 DEF WorkOf
    <2>3. JoinOf(p)'
      <3>1. work[p].new = NoHandle
        BY <1>3, <1>4 DEF JoinOf
      <3> QED BY <1>6, <1>7, <3>1 DEF JoinOf
    <2> QED BY <2>1, <2>2, <2>3 DEF WorkOK
  <1> QED BY <1>9, <1>10, <1>11, <1>12 DEF Inv

\* Chunks of one partition that leave, once its compaction is through with them.
LEMMA InvChunksLeave ==
    ASSUME Inv, NEW p \in Part, NEW gone, gone \subseteq {c \in chunk : c.part = p},
           chunk' = chunk \ gone, disk' \subseteq Seq1,
           NEW w \in WorkRecord, work' = [work EXCEPT ![p] = w], w.new = work[p].new,
           WorkOf(p)', w.join = work[p].join, w.drop \subseteq work[p].drop,
           UNCHANGED <<handle, next, streamVars, merge, crashes, skipped>>
    PROVE  Inv'
  <1> USE ReplayAssumption
  <1>1. UNCHANGED <<pc, initial, pos, batch, pending>>
    BY DEF streamVars
  <1>2. Handles' = Handles /\ Failed' = Failed /\ Sound' = Sound
    BY DEF Handles, Failed, Sound
  <1>3. DOMAIN work = Part /\ work'[p] = w /\ \A r \in Part : work'[r].new = work[r].new
    BY DEF Inv, ReplayTypeOK
  <1>4. InFlight' = InFlight
    BY <1>1, <1>3 DEF InFlight
  <1>5. ReplayTypeOK'
    <2>1. work' \in [Part -> WorkRecord]
      BY DEF Inv, ReplayTypeOK, WorkRecord
    <2> QED BY <1>1, <1>2, <2>1 DEF Inv, ReplayTypeOK, WorkRecord
  <1>6. ChunkOK' /\ MergeOK'
    BY <1>2, <1>4, ChunksLeave
  <1>7. BatchOK'
    <2>1. batch # NoHandle => batch \in Sound
      BY DEF Inv, BatchOK
    <2> QED BY <1>1, <1>2, <2>1, BatchStays
  <1>8. WorkOK'
    <2>1. ASSUME NEW q \in Part, q # p PROVE WorkOf(q)' /\ JoinOf(q)'
      <3>1. work[q].new # NoHandle => work[q].new \in Sound /\ w.new # work[q].new
        BY <2>1 DEF Inv, WorkOK, JoinOf
      <3>2. \A c \in chunk : c.part = q => c \in chunk'
        BY <2>1
      <3> QED BY <1>1, <1>2, <2>1, <3>1, <3>2, OtherWork
    <2>2. JoinOf(p)'
      <3>1. JoinOf(p)
        BY DEF Inv, WorkOK
      <3>2. \A q \in Part : q # p => work'[q].new = work[q].new
        BY <1>3
      <3> QED BY <1>1, <1>2, <1>3, <3>1, <3>2 DEF JoinOf
    <2> QED BY <2>1, <2>2 DEF WorkOK
  <1> QED BY <1>5, <1>6, <1>7, <1>8 DEF Inv

LEMMA InvDropLost ==
    ASSUME Inv, NEW p \in Part, DropLost(p)
    PROVE  Inv'
  <1> DEFINE w == [work[p] EXCEPT !.drop = {}]
  <1>1. /\ chunk' = chunk \ work[p].drop /\ work' = [work EXCEPT ![p].drop = {}]
        /\ UNCHANGED <<handle, next, disk, streamVars, merge, crashes, skipped>>
        /\ work[p].mark = {}
    BY DEF DropLost, Ready
  <1>2. work[p] \in WorkRecord /\ WorkOf(p) /\ DOMAIN work = Part
    BY DEF Inv, ReplayTypeOK, WorkOK, WorkRecord
  <1>3. /\ work' = [work EXCEPT ![p] = w] /\ w \in WorkRecord
        /\ w.mark = {} /\ w.drop = {} /\ w.join = work[p].join
        /\ w.flush = work[p].flush /\ w.new = work[p].new
    BY <1>1, <1>2 DEF WorkRecord
  <1> HIDE DEF w
  <1>4. work'[p] = w
    BY <1>2, <1>3
  <1>5. WorkOf(p)'
    BY <1>1, <1>2, <1>3, <1>4 DEF WorkOf
  <1>6. work[p].drop \subseteq {c \in chunk : c.part = p} /\ disk' \subseteq Seq1
    BY <1>1, <1>2 DEF WorkOf, Inv, ReplayTypeOK
  <1> QED BY <1>1, <1>3, <1>5, <1>6, InvChunksLeave

LEMMA InvFlushChunks ==
    ASSUME Inv, NEW p \in Part, FlushChunks(p)
    PROVE  Inv'
  <1> DEFINE w == [work[p] EXCEPT !.flush = {}]
  <1>1. /\ chunk' = chunk \ work[p].flush /\ work' = [work EXCEPT ![p].flush = {}]
        /\ disk' = disk \cup UNION {c.rows : c \in work[p].flush}
        /\ UNCHANGED <<handle, next, streamVars, merge, crashes, skipped>>
        /\ work[p].drop = {} /\ work[p].join = {}
    BY DEF FlushChunks, Ready
  <1>2. work[p] \in WorkRecord /\ WorkOf(p) /\ DOMAIN work = Part
    BY DEF Inv, ReplayTypeOK, WorkOK, WorkRecord
  <1>3. /\ work' = [work EXCEPT ![p] = w] /\ w \in WorkRecord
        /\ w.mark = work[p].mark /\ w.drop = work[p].drop /\ w.join = work[p].join
        /\ w.flush = {} /\ w.new = work[p].new
    BY <1>1, <1>2 DEF WorkRecord
  <1> HIDE DEF w
  <1>4. work'[p] = w
    BY <1>2, <1>3
  <1>5. WorkOf(p)'
    BY <1>1, <1>2, <1>3, <1>4 DEF WorkOf
  <1>6. work[p].flush \subseteq {c \in chunk : c.part = p}
    BY <1>2 DEF WorkOf
  <1>7. disk' \subseteq Seq1
    <2>1. \A c \in work[p].flush : c.rows \subseteq Seq1
      BY <1>6 DEF Inv, ReplayTypeOK, Chunk
    <2>2. disk \subseteq Seq1
      BY DEF Inv, ReplayTypeOK
    <2> QED BY <1>1, <2>1, <2>2
  <1> QED BY <1>1, <1>3, <1>5, <1>6, <1>7, InvChunksLeave

LEMMA InvJoinHandles ==
    ASSUME Inv, NEW p \in Part, JoinHandles(p)
    PROVE  Inv'
  <1> USE ReplayAssumption
  <1> DEFINE H == {c.handle : c \in work[p].join} \cap Handles
             span == Union(Spans(H))
             w == [work[p] EXCEPT !.new = next]
  <1>1. /\ AddHandle(span) /\ work' = [work EXCEPT ![p].new = next]
        /\ UNCHANGED <<chunk, disk, streamVars, merge, crashes, skipped>>
        /\ work[p].drop = {} /\ work[p].join # {} /\ work[p].new = NoHandle
    BY DEF JoinHandles, Ready
  <1>2. UNCHANGED <<pc, initial, pos, batch, pending>>
    BY <1>1 DEF streamVars
  <1>3. work[p] \in WorkRecord /\ WorkOf(p) /\ DOMAIN work = Part
    BY DEF Inv, ReplayTypeOK, WorkOK, WorkRecord
  <1>4. span \in Ranges
    BY SpansAreRanges DEF Inv
  <1>5. /\ next \in HandleId \ Handles /\ next' = next + 1
        /\ Handles' = Handles \cup {next} /\ Failed' = Failed /\ Sound' = Sound \cup {next}
        /\ \A h \in Handles : handle'[h] = handle[h]
        /\ handle'[next] = [span |-> span, failed |-> FALSE]
        /\ Handles' \subseteq HandleId /\ next' \in 1..(MaxHandle + 1)
        /\ \A h \in Handles' : h < next'
        /\ \A h \in Handles' : handle'[h] \in [span : Span \cup {NoSpan}, failed : BOOLEAN]
    BY <1>1, <1>4, AddFacts DEF Inv
  <1>6. /\ work' = [work EXCEPT ![p] = w] /\ w \in WorkRecord
        /\ w.mark = work[p].mark /\ w.drop = {} /\ w.join = work[p].join
        /\ w.flush = work[p].flush /\ w.new = next
    BY <1>1, <1>3, <1>5 DEF WorkRecord
  <1>7. \A c \in work[p].join : c.rows \subseteq Rows(span)
    <2> SUFFICES ASSUME NEW c \in work[p].join PROVE c.rows \subseteq Rows(span)
      OBVIOUS
    <2>1. c \in chunk
      BY <1>3 DEF WorkOf
    <2>2. c.handle \in H /\ c.rows \subseteq Rows(handle[c.handle].span)
      BY <2>1 DEF Inv, ChunkOK
    <2>3. handle[c.handle].span \in Spans(H)
      BY <2>2 DEF Spans
    <2>4. handle[c.handle].span \in Ranges /\ Spans(H) \in SUBSET Ranges
      BY <2>2, SpansAreRanges DEF Inv
    <2>5. Covers(span, handle[c.handle].span)
      BY <2>3, <2>4, UnionOf
    <2>6. Rows(handle[c.handle].span) \subseteq Rows(span)
      BY <1>4, <2>4, <2>5, CoversRows
    <2> QED BY <2>2, <2>6
  <1> HIDE DEF w, span
  <1>8. work'[p] = w /\ \A q \in Part : q # p => work'[q] = work[q]
    BY <1>3, <1>6
  <1>9. InFlight' \subseteq InFlight \cup {next}
    BY <1>2, <1>6, <1>8 DEF InFlight
  <1>10. ChunkOK' /\ MergeOK'
    BY <1>1, <1>4, <1>9, NewHandle
  <1>11. ReplayTypeOK'
    <2>1. work' \in [Part -> WorkRecord]
      BY <1>6 DEF Inv, ReplayTypeOK, WorkRecord
    <2> QED BY <1>1, <1>2, <1>5, <2>1 DEF Inv, ReplayTypeOK, WorkRecord
  <1>12. BatchOK'
    <2>1. batch # NoHandle => batch \in Sound /\ batch \in Handles
      BY DEF Inv, BatchOK, Sound
    <2> QED BY <1>2, <1>5, <2>1, BatchStays
  <1>13. WorkOK'
    <2>1. ASSUME NEW q \in Part, q # p PROVE WorkOf(q)' /\ JoinOf(q)'
      <3>1. work[q].new # NoHandle => work[q].new \in Sound /\ work[q].new \in Handles
        BY DEF Inv, WorkOK, JoinOf, Sound
      <3>2. work[q].new # NoHandle => /\ work[q].new \in Sound'
                                      /\ handle'[work[q].new].span = handle[work[q].new].span
                                      /\ w.new # work[q].new
        BY <1>5, <1>6, <3>1
      <3> QED BY <1>1, <1>2, <1>5, <1>6, <2>1, <3>2, OtherWork
    <2>2. WorkOf(p)'
      BY <1>1, <1>3, <1>5, <1>6, <1>8 DEF WorkOf
    <2>3. JoinOf(p)'
      <3>1. next # batch
        BY <1>5 DEF Inv, BatchOK, Sound, HandleId, NoHandle
      <3>2. \A q \in Part : q # p => work[q].new # next
        BY <1>5 DEF Inv, WorkOK, JoinOf, Sound, HandleId, NoHandle
      <3>3. \A c \in work[p].join : c.rows \subseteq Rows(handle'[next].span)
        BY <1>5, <1>7
      <3> QED BY <1>2, <1>5, <1>6, <1>8, <3>1, <3>2, <3>3 DEF JoinOf
    <2> QED BY <2>1, <2>2, <2>3 DEF WorkOK
  <1> QED BY <1>10, <1>11, <1>12, <1>13 DEF Inv

LEMMA InvJoinChunks ==
    ASSUME Inv, NEW p \in Part, JoinChunks(p)
    PROVE  Inv'
  <1> USE ReplayAssumption
  <1> DEFINE rows == UNION {c.rows : c \in work[p].join}
             joined == [part |-> p, rows |-> rows, handle |-> work[p].new, mem |-> TRUE]
             w == [work[p] EXCEPT !.join = {}, !.new = NoHandle]
  <1>1. /\ chunk' = (chunk \ work[p].join) \cup {joined}
        /\ work' = [work EXCEPT ![p].join = {}, ![p].new = NoHandle]
        /\ UNCHANGED <<handle, next, disk, streamVars, merge, crashes, skipped>>
        /\ work[p].new # NoHandle
    BY DEF JoinChunks
  <1>2. UNCHANGED <<pc, initial, pos, batch, pending>>
    BY <1>1 DEF streamVars
  <1>3. work[p] \in WorkRecord /\ WorkOf(p) /\ JoinOf(p) /\ DOMAIN work = Part
    BY DEF Inv, ReplayTypeOK, WorkOK, WorkRecord
  <1>4. Handles' = Handles /\ Failed' = Failed /\ Sound' = Sound
    BY <1>1 DEF Handles, Failed, Sound
  <1>5. /\ work' = [work EXCEPT ![p] = w] /\ w \in WorkRecord
        /\ w.mark = work[p].mark /\ w.drop = {} /\ w.join = {}
        /\ w.flush = work[p].flush /\ w.new = NoHandle
    BY <1>1, <1>3 DEF WorkRecord, JoinOf
  <1>6. /\ rows \subseteq Seq1 /\ rows \subseteq Rows(handle[work[p].new].span)
        /\ work[p].new \in HandleId /\ work[p].new \in Handles
    <2>1. \A c \in work[p].join : c.rows \subseteq Seq1
      BY <1>3 DEF WorkRecord, Chunk
    <2> QED BY <1>1, <1>3, <2>1 DEF WorkRecord, JoinOf, Sound
  <1>7. joined \in Chunk /\ joined.part = p /\ joined.handle = work[p].new /\ joined.rows = rows
    BY <1>6 DEF Chunk
  <1> HIDE DEF w, joined, rows
  <1>8. work'[p] = w /\ \A q \in Part : q # p => work'[q] = work[q]
    BY <1>3, <1>5
  <1>9. InFlight' \subseteq InFlight \ {work[p].new}
    <2>1. work[p].new # batch /\ \A q \in Part : q # p => work[q].new # work[p].new
      BY <1>1, <1>3 DEF JoinOf
    <2>2. work'[p].new = NoHandle /\ \A q \in Part : q # p => work'[q].new = work[q].new
      BY <1>5, <1>8
    <2>3. ASSUME NEW h \in InFlight' PROVE h \in InFlight /\ h # work[p].new
      <3>1. h # NoHandle /\ (h = batch \/ \E q \in Part : h = work'[q].new)
        BY <1>2 DEF InFlight
      <3>2. CASE h = batch
        BY <3>1, <3>2, <2>1 DEF InFlight
      <3>3. CASE \E q \in Part : h = work'[q].new
        <4>1. PICK q \in Part : h = work'[q].new
          BY <3>3
        <4>2. q # p /\ h = work[q].new
          BY <2>2, <3>1, <4>1
        <4> QED BY <2>1, <3>1, <4>2 DEF InFlight
      <3> QED BY <3>1, <3>2, <3>3
    <2> QED BY <2>3
  <1>10. ReplayTypeOK'
    <2>1. work' \in [Part -> WorkRecord]
      BY <1>5 DEF Inv, ReplayTypeOK, WorkRecord
    <2>2. chunk' \subseteq Chunk
      BY <1>1, <1>7 DEF Inv, ReplayTypeOK
    <2> QED BY <1>1, <1>2, <1>4, <2>1, <2>2 DEF Inv, ReplayTypeOK, WorkRecord
  <1>11. ChunkOK'
    <2> SUFFICES ASSUME NEW c \in chunk'
                 PROVE  /\ c.handle \in Handles \ InFlight'
                        /\ c.rows \subseteq Rows(handle[c.handle].span)
      BY <1>1, <1>4 DEF ChunkOK
    <2>1. CASE c \in chunk
      BY <1>9, <2>1 DEF Inv, ChunkOK
    <2>2. CASE c = joined
      BY <1>6, <1>7, <1>9, <2>2
    <2> QED BY <1>1, <2>1, <2>2
  <1>12. MergeOK'
    <2>1. Spans(merge.ids)' = Spans(merge.ids)
      BY <1>1 DEF Spans
    <2>2. /\ merge'.ids \cap InFlight' = {} /\ \A h \in merge'.ids : h < next'
          /\ merge'.ids \subseteq Handles' => Covers(Union(Spans(merge.ids)'), merge'.span)
      BY <1>1, <1>4, <1>9, <2>1 DEF Inv, MergeOK
    <2> QED BY <1>1, <2>2 DEF MergeOK
  <1>13. BatchOK'
    <2>1. batch # NoHandle => batch \in Sound
      BY DEF Inv, BatchOK
    <2> QED BY <1>1, <1>2, <1>4, <2>1, BatchStays
  <1>14. WorkOK'
    <2>1. ASSUME NEW q \in Part, q # p PROVE WorkOf(q)' /\ JoinOf(q)'
      <3>1. work[q].new # NoHandle => work[q].new \in Sound /\ w.new # work[q].new
        BY <1>5 DEF Inv, WorkOK, JoinOf
      <3>2. \A c \in chunk : c.part = q => c \in chunk'
        <4>1. \A c \in work[p].join : c.part = p
          BY <1>3 DEF WorkOf
        <4> QED BY <1>1, <2>1, <4>1
      <3> QED BY <1>1, <1>2, <1>4, <1>5, <2>1, <3>1, <3>2, OtherWork
    <2>2. WorkOf(p)'
      <3>1. work[p].mark = {} /\ work[p].drop = {}
        BY <1>1, <1>3 DEF WorkOf, JoinOf
      <3>2. work[p].flush \subseteq {c \in chunk' : c.part = p}
        BY <1>1, <1>3 DEF WorkOf
      <3> QED BY <1>4, <1>5, <1>8, <3>1, <3>2 DEF WorkOf
    <2>3. JoinOf(p)'
      BY <1>5, <1>8 DEF JoinOf
    <2> QED BY <2>1, <2>2, <2>3 DEF WorkOK
  <1> QED BY <1>10, <1>11, <1>12, <1>13, <1>14 DEF Inv

LEMMA InvCrash ==
    ASSUME Inv, NEW p \in Part, Crash(p)
    PROVE  Inv'
  <1> USE ReplayAssumption
  <1> DEFINE wiped(c) == IF c.part = p THEN [c EXCEPT !.mem = FALSE] ELSE c
  <1>1. /\ chunk' = {wiped(c) : c \in chunk} /\ pending' = {wiped(c) : c \in pending}
        /\ work' = [work EXCEPT ![p] = Idle] /\ crashes < MaxCrash /\ crashes' = crashes + 1
        /\ UNCHANGED <<handle, next, disk, pc, initial, pos, batch, merge, skipped>>
    BY DEF Crash
  <1>2. Handles' = Handles /\ Failed' = Failed /\ Sound' = Sound
    BY <1>1 DEF Handles, Failed, Sound
  <1>3. /\ Idle \in WorkRecord /\ Idle.new = NoHandle /\ Idle.mark = {} /\ Idle.drop = {}
        /\ Idle.join = {} /\ Idle.flush = {}
    BY DEF Idle, WorkRecord
  <1>4. chunk \subseteq Chunk /\ pending \subseteq Chunk /\ DOMAIN work = Part
    BY DEF Inv, ReplayTypeOK
  <1>5. \A c \in Chunk : /\ wiped(c) \in Chunk /\ wiped(c).part = c.part /\ wiped(c).rows = c.rows
                         /\ wiped(c).handle = c.handle
                         /\ c.part # p => wiped(c) = c
    BY DEF Chunk
  <1> HIDE DEF wiped
  <1>6. work'[p] = Idle /\ \A q \in Part : q # p => work'[q] = work[q]
    BY <1>1, <1>4
  <1>7. InFlight' \subseteq InFlight
    BY <1>1, <1>3, <1>6 DEF InFlight
  <1>8. ReplayTypeOK'
    <2>1. work' \in [Part -> WorkRecord]
      BY <1>1, <1>3 DEF Inv, ReplayTypeOK, WorkRecord
    <2>2. chunk' \subseteq Chunk /\ pending' \subseteq Chunk
      BY <1>1, <1>4, <1>5
    <2>3. crashes' \in 0..MaxCrash
      BY <1>1 DEF Inv, ReplayTypeOK
    <2> QED BY <1>1, <1>2, <2>1, <2>2, <2>3 DEF Inv, ReplayTypeOK, WorkRecord
  <1>9. ChunkOK'
    <2> SUFFICES ASSUME NEW c \in chunk
                 PROVE  /\ wiped(c).handle \in Handles \ InFlight'
                        /\ wiped(c).rows \subseteq Rows(handle[wiped(c).handle].span)
      BY <1>1, <1>2 DEF ChunkOK
    <2> QED BY <1>4, <1>5, <1>7 DEF Inv, ChunkOK
  <1>10. MergeOK'
    <2>1. Spans(merge.ids)' = Spans(merge.ids)
      BY <1>1 DEF Spans
    <2>2. /\ merge'.ids \cap InFlight' = {} /\ \A h \in merge'.ids : h < next'
          /\ merge'.ids \subseteq Handles' => Covers(Union(Spans(merge.ids)'), merge'.span)
      BY <1>1, <1>2, <1>7, <2>1 DEF Inv, MergeOK
    <2> QED BY <1>1, <2>2 DEF MergeOK
  <1>11. BatchOK'
    <2>1. \A c \in pending : wiped(c).rows = c.rows /\ wiped(c).handle = c.handle
      BY <1>4, <1>5
    <2>2. UNION {c.rows : c \in pending'} = UNION {c.rows : c \in pending}
      BY <1>1, <2>1
    <2>3. (\A c \in pending : c.handle = batch) => \A c \in pending' : c.handle = batch
      BY <1>1, <2>1
    <2>4. pending = {} => pending' = {}
      BY <1>1
    <2> QED BY <1>1, <1>2, <2>2, <2>3, <2>4 DEF Inv, BatchOK
  <1>12. WorkOK'
    <2>1. ASSUME NEW q \in Part, q # p PROVE WorkOf(q)' /\ JoinOf(q)'
      <3>1. work[q].new # NoHandle => work[q].new \in Sound /\ Idle.new # work[q].new
        BY <1>3 DEF Inv, WorkOK, JoinOf
      <3>2. \A c \in chunk : c.part = q => c \in chunk'
        BY <1>1, <1>4, <1>5, <2>1
      <3> QED BY <1>1, <1>2, <1>3, <2>1, <3>1, <3>2, OtherWork
    <2>2. WorkOf(p)' /\ JoinOf(p)'
      BY <1>3, <1>6 DEF WorkOf, JoinOf
    <2> QED BY <2>1, <2>2 DEF WorkOK
  <1> QED BY <1>8, <1>9, <1>10, <1>11, <1>12 DEF Inv

-----------------------------------------------------------------------------
(* The scheduler preserves the invariant.                                  *)

\* What a merge keeps is a range, and the handles it merges cover it.
LEMMA MergedOf ==
    ASSUME ReplayTypeOK, NEW quiet \in SUBSET Handles, NEW rest \in SUBSET Handles
    PROVE  Merged(quiet, rest) \in Ranges /\ Covers(Union(Spans(quiet)), Merged(quiet, rest))
  <1>1. Union(Spans(quiet)) \in Ranges /\ Spans(rest) \in SUBSET Ranges
    BY SpansAreRanges
  <1>2. Covers(Union(Spans(quiet)), Union(Spans(quiet)))
    <2>1. Union(Spans(quiet)).start <= Union(Spans(quiet)).start
      BY <1>1, RangeBounds
    <2>2. Union(Spans(quiet)).end <= Union(Spans(quiet)).end
      BY <1>1, RangeBounds
    <2> QED BY <2>1, <2>2 DEF Covers
  <1>3. /\ SubtractFromRight(Union(Spans(quiet)), Spans(rest)) \in Ranges
        /\ Covers(Union(Spans(quiet)), SubtractFromRight(Union(Spans(quiet)), Spans(rest)))
    BY <1>1, SubtractOf
  <1> QED BY <1>1, <1>2, <1>3 DEF Merged

\* The union grows with the set.
LEMMA UnionGrows ==
    ASSUME NEW S \in SUBSET Ranges, NEW T \in SUBSET S
    PROVE  Covers(Union(S), Union(T))
  <1>1. Union(S) \in Ranges /\ \A r \in T : Covers(Union(S), r)
    BY UnionOf
  <1> QED BY <1>1, UnionLeast

LEMMA InvMergeRead ==
    ASSUME Inv, NEW age \in 0..MaxHandle, MergeRead(age)
    PROVE  Inv'
  <1> USE ReplayAssumption
  <1> DEFINE quiet == {h \in Sound : h <= age /\ NoActiveChunks(h)}
             after(f) == Union(Spans({h \in Sound : h > f}))
             covered == {f \in Failed : Covers(after(f), handle[f].span)}
             rest == Failed \ covered
             ids == quiet \cup {f \in covered : NoActiveChunks(f)}
  <1>1. /\ \A h \in InFlight : age < h
        /\ merge' = [ids |-> ids, insert |-> quiet # {} \/ rest # {}, span |-> Merged(quiet, rest)]
        /\ UNCHANGED <<handle, next, chunk, disk, streamVars, work, crashes, skipped>>
    BY DEF MergeRead
  <1>2. UNCHANGED <<pc, initial, pos, batch, pending>>
    BY <1>1 DEF streamVars
  <1>3. /\ quiet \subseteq Sound /\ quiet \subseteq ids /\ rest \subseteq Failed
        /\ ids \subseteq quiet \cup Failed /\ \A h \in quiet : h <= age
    OBVIOUS
  <1> HIDE DEF covered, after
  <1>4. Sound \subseteq Handles /\ Failed \subseteq Handles /\ Handles \subseteq HandleId
    BY DEF Sound, Failed, Inv, ReplayTypeOK
  <1>5. /\ merge'.ids = ids /\ merge'.span = Merged(quiet, rest)
        /\ merge'.insert = (quiet # {} \/ rest # {})
    BY <1>1
  <1> HIDE DEF quiet, rest, ids
  <1>6. Merged(quiet, rest) \in Ranges /\ Covers(Union(Spans(quiet)), Merged(quiet, rest))
    <2>1. quiet \in SUBSET Handles /\ rest \in SUBSET Handles
      BY <1>3, <1>4
    <2> QED BY <2>1, MergedOf DEF Inv
  <1>7. Handles' = Handles /\ Sound' = Sound /\ Failed' = Failed /\ InFlight' = InFlight
    BY <1>1, <1>2 DEF Handles, Sound, Failed, InFlight
  <1>8. ReplayTypeOK'
    <2>1. merge' \in [ids : SUBSET HandleId, insert : BOOLEAN, span : Span \cup {NoSpan}]
      BY <1>1, <1>3, <1>4, <1>6 DEF Ranges
    <2> QED BY <1>1, <1>2, <1>7, <2>1 DEF Inv, ReplayTypeOK
  <1>9. ChunkOK'
    BY <1>1, <1>7 DEF Inv, ChunkOK
  <1>10. BatchOK'
    BY <1>1, <1>2, <1>7 DEF Inv, BatchOK
  <1>11. WorkOK'
    <2> SUFFICES ASSUME NEW p \in Part PROVE WorkOf(p)' /\ JoinOf(p)'
      BY DEF WorkOK
    <2>1. WorkOf(p) /\ JoinOf(p)
      BY DEF Inv, WorkOK
    <2>2. WorkOf(p)'
      BY <2>1, <1>1, <1>7 DEF WorkOf
    <2>3. JoinOf(p)'
      BY <2>1, <1>1, <1>2, <1>7 DEF JoinOf
    <2> QED BY <2>2, <2>3
  <1>12. MergeOK'
    <2>1. InFlight \subseteq Sound
      BY DEF InFlight, Inv, BatchOK, WorkOK, JoinOf
    <2>2. Sound \cap Failed = {}
      BY DEF Sound
    <2>3. InFlight \cap quiet = {}
      <3>1. \A h \in quiet : h \in Nat /\ h <= age
        BY <1>3, <1>4 DEF HandleId
      <3> QED BY <1>1, <3>1
    <2>4. ids \cap InFlight = {}
      BY <1>3, <2>1, <2>2, <2>3
    <2>5. \A h \in ids : h < next
      BY <1>3, <1>4 DEF Inv, ReplayTypeOK
    <2>6. Covers(Union(Spans(ids)), merge'.span)
      <3>1. /\ Spans(ids) \in SUBSET Ranges /\ Spans(quiet) \in SUBSET Spans(ids)
            /\ Union(Spans(quiet)) \in Ranges /\ Union(Spans(ids)) \in Ranges
        <4>1. ids \in SUBSET Handles /\ quiet \in SUBSET Handles
          BY <1>3, <1>4
        <4>2. Spans(quiet) \in SUBSET Spans(ids)
          BY <1>3 DEF Spans
        <4> QED BY <4>1, <4>2, SpansAreRanges DEF Inv
      <3>2. Covers(Union(Spans(ids)), Union(Spans(quiet)))
        BY <3>1, UnionGrows
      <3> QED BY <1>5, <1>6, <3>1, <3>2, CoversRows
    <2>7. Union(Spans(merge.ids))' = Union(Spans(ids))
      BY <1>1, <1>5 DEF Spans
    <2> QED BY <1>1, <1>5, <1>7, <2>4, <2>5, <2>6, <2>7 DEF MergeOK
  <1> QED BY <1>8, <1>9, <1>10, <1>11, <1>12 DEF Inv

LEMMA InvReplaceHandles ==
    ASSUME Inv, ReplaceHandles
    PROVE  Inv'
  <1> USE ReplayAssumption
  <1>1. merge' = NoMerge /\ UNCHANGED <<chunk, disk, streamVars, work, crashes>>
    BY DEF ReplaceHandles
  <1>2. UNCHANGED <<pc, initial, pos, batch, pending>>
    BY <1>1 DEF streamVars
  <1>3. InFlight' = InFlight
    BY <1>1, <1>2 DEF InFlight
  <1>4. MergeOK'
    BY <1>1 DEF MergeOK, NoMerge, Covers
  <1>5. merge' \in [ids : SUBSET HandleId, insert : BOOLEAN, span : Span \cup {NoSpan}]
    BY <1>1 DEF NoMerge
  <1>6. CASE UNCHANGED <<handle, next, skipped>>
    <2>1. Handles' = Handles /\ Sound' = Sound /\ Failed' = Failed
      BY <1>6 DEF Handles, Sound, Failed
    <2>2. ReplayTypeOK'
      BY <1>1, <1>2, <1>5, <1>6, <2>1 DEF Inv, ReplayTypeOK
    <2>3. ChunkOK' /\ BatchOK'
      BY <1>1, <1>2, <1>3, <1>6, <2>1 DEF Inv, ChunkOK, BatchOK
    <2>4. WorkOK'
      <3> SUFFICES ASSUME NEW p \in Part PROVE WorkOf(p)' /\ JoinOf(p)'
        BY DEF WorkOK
      <3>1. WorkOf(p) /\ JoinOf(p)
        BY DEF Inv, WorkOK
      <3>2. WorkOf(p)'
        BY <3>1, <1>1, <2>1 DEF WorkOf
      <3>3. JoinOf(p)'
        BY <3>1, <1>1, <1>2, <1>6, <2>1 DEF JoinOf
      <3> QED BY <3>2, <3>3
    <2> QED BY <1>4, <2>2, <2>3, <2>4 DEF Inv
  <1>7. CASE ~ UNCHANGED <<handle, next, skipped>>
    <2>1. /\ merge.ids \subseteq Handles /\ \A h \in merge.ids : NoActiveChunks(h)
          /\ Handles' = (Handles \ merge.ids) \cup (IF merge.insert THEN {next} ELSE {})
          /\ next' = next + (IF merge.insert THEN 1 ELSE 0)
          /\ next \notin Handles /\ (merge.insert => next \in HandleId)
          /\ \A h \in Handles \ merge.ids : handle'[h] = handle[h]
          /\ merge.insert => handle'[next] = [span |-> merge.span, failed |-> FALSE]
          /\ Failed' = Failed \ merge.ids
          /\ skipped' = skipped \cup (IF merge.ids \cap Failed = {} THEN {} ELSE {"covered"})
      BY <1>7, ReplaceFacts DEF Inv
    <2>2. \A c \in chunk : c.handle \in Handles' /\ handle'[c.handle] = handle[c.handle]
                           /\ c.handle \notin merge.ids
      BY <2>1 DEF Inv, ChunkOK, NoActiveChunks
    <2>3. InFlight \cap merge.ids = {}
      BY DEF Inv, MergeOK
    <2>4. Sound \ merge.ids \subseteq Sound'
      BY <2>1 DEF Sound
    <2>5. ReplayTypeOK'
      <3>1. Handles \subseteq HandleId /\ next \in 1..(MaxHandle + 1) /\ \A h \in Handles : h < next
        BY DEF Inv, ReplayTypeOK
      <3>2. Handles' \subseteq HandleId
        BY <2>1, <3>1
      <3>3. next' \in 1..(MaxHandle + 1)
        BY <2>1, <3>1 DEF HandleId
      <3>4. \A h \in Handles' : h < next'
        BY <2>1, <3>1 DEF HandleId
      <3>5. merge \in [ids : SUBSET HandleId, insert : BOOLEAN, span : Span \cup {NoSpan}]
        BY DEF Inv, ReplayTypeOK
      <3>6. \A h \in Handles' : handle'[h] \in [span : Span \cup {NoSpan}, failed : BOOLEAN]
        <4>1. \A h \in Handles \ merge.ids :
                handle'[h] \in [span : Span \cup {NoSpan}, failed : BOOLEAN]
          BY <2>1 DEF Inv, ReplayTypeOK
        <4>2. merge.span \in Span \cup {NoSpan}
          BY <3>5
        <4>3. [span |-> merge.span, failed |-> FALSE] \in [span : Span \cup {NoSpan}, failed : BOOLEAN]
          BY <4>2
        <4>4. merge.insert => handle'[next] \in [span : Span \cup {NoSpan}, failed : BOOLEAN]
          BY <2>1, <4>3, Zenon
        <4> QED BY <2>1, <4>1, <4>4
      <3>7. skipped' \subseteq {"ingest", "covered"}
        BY <2>1 DEF Inv, ReplayTypeOK
      <3> QED BY <1>1, <1>2, <1>5, <3>2, <3>3, <3>4, <3>6, <3>7 DEF Inv, ReplayTypeOK
    <2>6. ChunkOK'
      BY <1>1, <1>3, <2>2 DEF Inv, ChunkOK
    <2>7. BatchOK'
      <3>1. batch # NoHandle => /\ batch \in Sound' /\ batch \in Handles \ merge.ids
        BY <2>3, <2>4 DEF InFlight, Inv, BatchOK, Sound
      <3> QED BY <1>2, <2>1, <3>1, BatchStays
    <2>8. WorkOK'
      <3> SUFFICES ASSUME NEW p \in Part PROVE WorkOf(p)' /\ JoinOf(p)'
        BY DEF WorkOK
      <3>1. WorkOf(p) /\ JoinOf(p)
        BY DEF Inv, WorkOK
      <3>2. WorkOf(p)'
        <4>1. \A c \in work[p].drop : c \in chunk
          BY <3>1 DEF WorkOf
        <4>2. \A c \in work[p].drop \ work[p].mark : c.handle \in Failed'
          BY <2>1, <2>2, <3>1, <4>1 DEF WorkOf
        <4> QED BY <1>1, <3>1, <4>2 DEF WorkOf
      <3>3. JoinOf(p)'
        <4>1. work[p].new # NoHandle => /\ work[p].new \in Sound'
                                        /\ handle'[work[p].new] = handle[work[p].new]
          BY <2>1, <2>3, <2>4, <3>1 DEF InFlight, JoinOf, Sound
        <4> QED BY <1>1, <1>2, <3>1, <4>1 DEF JoinOf
      <3> QED BY <3>2, <3>3
    <2> QED BY <1>4, <2>5, <2>6, <2>7, <2>8 DEF Inv
  <1> QED BY <1>6, <1>7

-----------------------------------------------------------------------------
(* The invariant holds.                                                    *)

LEMMA InvNext == Inv /\ [Next]_vars => Inv'
  <1> SUFFICES ASSUME Inv, [Next]_vars PROVE Inv'
    OBVIOUS
  <1> USE ReplayAssumption
  <1>1. CASE Stream
    <2>1. CASE StreamStart  BY <2>1, InvStreamStart
    <2>2. CASE RequireReplay \/ StreamStop \/ IngestFails
      <3>1. Down /\ UNCHANGED <<handle, next, chunk, disk, work, merge, crashes>>
        BY <2>2 DEF RequireReplay, StreamStop, IngestFails
      <3>2. skipped' \subseteq {"ingest", "covered"}
        BY <2>2 DEF RequireReplay, StreamStop, IngestFails, Inv, ReplayTypeOK
      <3> QED BY <3>1, <3>2, InvDown
    <2>3. CASE AddMemoryChunks  BY <2>3, InvAddMemoryChunks
    <2>4. CASE ActivateChunks  BY <2>4, InvActivateChunks
    <2>5. ASSUME NEW last \in Seq1, CreateHandle(last) PROVE Inv'
      BY <2>5, InvCreateHandle
    <2> QED BY <1>1, <2>1, <2>2, <2>3, <2>4, <2>5 DEF Stream
  <1>2. CASE Scheduler
    <2>1. CASE ReplaceHandles  BY <2>1, InvReplaceHandles
    <2>2. ASSUME NEW age \in 0..MaxHandle, MergeRead(age) PROVE Inv'
      BY <2>2, InvMergeRead
    <2> QED BY <1>2, <2>1, <2>2 DEF Scheduler
  <1>3. ASSUME NEW p \in Part, Compaction(p) PROVE Inv'
    <2>1. ASSUME NEW keep \in SUBSET chunk, CompactStart(p, keep) PROVE Inv'
      BY <2>1, InvCompactStart
    <2>2. CASE MarkLost(p)  BY <2>2, InvMarkLost
    <2>3. CASE DropLost(p)  BY <2>3, InvDropLost
    <2>4. CASE JoinHandles(p)  BY <2>4, InvJoinHandles
    <2>5. CASE JoinChunks(p)  BY <2>5, InvJoinChunks
    <2>6. CASE FlushChunks(p)  BY <2>6, InvFlushChunks
    <2>7. CASE Crash(p)  BY <2>7, InvCrash
    <2> QED BY <1>3, <2>1, <2>2, <2>3, <2>4, <2>5, <2>6, <2>7 DEF Compaction
  <1>4. CASE UNCHANGED vars
    <2>1. UNCHANGED <<handle, next, chunk, disk, pc, initial, pos, batch, pending, work, merge,
                      crashes, skipped>>
      BY <1>4 DEF vars, streamVars
    <2>2. ChunkOK' /\ WorkOK' /\ MergeOK' /\ Handles' = Handles /\ Sound' = Sound
      BY <2>1, NothingMoves
    <2>3. ReplayTypeOK' /\ BatchOK'
      BY <2>1, <2>2 DEF Inv, ReplayTypeOK, BatchOK
    <2> QED BY <2>2, <2>3 DEF Inv
  <1> QED BY <1>1, <1>2, <1>3, <1>4 DEF Next

\* Handles, chunks, batches, compactions and merges fit together in every state.
THEOREM ReplayInvariant == Spec => []Inv
  <1> QED BY InvInit, InvNext, PTL DEF Spec

\* The variables keep their types; in particular every range that unions and
\* subtractions yield is empty or one of rows.
THEOREM ReplayTypeCorrect == Spec => []ReplayTypeOK
  <1>1. Inv => ReplayTypeOK
    BY DEF Inv
  <1> QED BY <1>1, ReplayInvariant, PTL

-----------------------------------------------------------------------------
(* Losses are recorded.                                                    *)

Recorded(c) ==
    \/ c.rows \subseteq Stored
    \/ /\ c.handle \in Failed
       /\ \A s \in c.rows : Covers(handle[c.handle].span, [start |-> s, end |-> s])

LEMMA LossStep ==
    ASSUME Inv, [Next]_vars
    PROVE  \A c \in chunk \ chunk' : Recorded(c)'
  <1> SUFFICES ASSUME NEW c \in chunk, c \notin chunk' PROVE Recorded(c)'
    OBVIOUS
  <1>1. c.handle \in Handles /\ c.rows \subseteq Rows(handle[c.handle].span) /\ c \in Chunk
    BY DEF Inv, ChunkOK, ReplayTypeOK
  <1>2. ~ (chunk \subseteq chunk')
    OBVIOUS
  <1>3. PICK p \in Part : DropLost(p) \/ JoinChunks(p) \/ FlushChunks(p) \/ Crash(p)
    <2>1. ~ (Stream \/ Scheduler \/ UNCHANGED vars)
      BY <1>2 DEF Stream, StreamStart, RequireReplay, AddMemoryChunks, ActivateChunks, StreamStop,
                  IngestFails, CreateHandle, Scheduler, ReplaceHandles, MergeRead, vars
    <2>2. \E p \in Part : Compaction(p)
      BY <2>1 DEF Next
    <2> QED BY <1>2, <2>2 DEF Compaction, CompactStart, MarkLost, JoinHandles
  <1>4. WorkOf(p)
    BY DEF Inv, WorkOK
  <1>5. CASE DropLost(p)
    <2>1. UNCHANGED handle /\ c \in work[p].drop \ work[p].mark
      BY <1>5 DEF DropLost, Ready
    <2>2. c.handle \in Failed' /\ handle'[c.handle].span = handle[c.handle].span
      BY <1>4, <2>1 DEF WorkOf, Failed, Handles
    <2>3. ASSUME NEW s \in c.rows PROVE Covers(handle[c.handle].span, [start |-> s, end |-> s])
      <3> DEFINE span == handle[c.handle].span
      <3>1. s \in Seq1 /\ span.start <= s /\ s <= span.end /\ span \in Ranges
        BY <1>1, <2>3, SpansAreRanges DEF Rows, Inv
      <3>2. span # NoSpan
        BY <3>1, RangeBounds, ReplayAssumption DEF Seq1
      <3> QED BY <3>1, <3>2 DEF Covers
    <2> QED BY <2>2, <2>3 DEF Recorded
  <1>6. CASE JoinChunks(p)
    <2> DEFINE joined == [part |-> p, rows |-> UNION {d.rows : d \in work[p].join},
                          handle |-> work[p].new, mem |-> TRUE]
    <2>1. joined \in chunk' /\ c \in work[p].join
      BY <1>6 DEF JoinChunks
    <2>2. c.rows \subseteq joined.rows
      BY <2>1
    <2>3. c.rows \subseteq Stored'
      BY <2>1, <2>2 DEF Stored
    <2> QED BY <2>3 DEF Recorded
  <1>7. CASE FlushChunks(p)
    <2>1. c \in work[p].flush /\ disk' = disk \cup UNION {d.rows : d \in work[p].flush}
      BY <1>7 DEF FlushChunks
    <2> QED BY <2>1 DEF Recorded, Stored
  <1>8. CASE Crash(p)
    <2> DEFINE wiped(d) == IF d.part = p THEN [d EXCEPT !.mem = FALSE] ELSE d
    <2>1. wiped(c) \in chunk'
      BY <1>8 DEF Crash
    <2>2. wiped(c).rows = c.rows
      BY <1>1 DEF Chunk
    <2> HIDE DEF wiped
    <2> QED BY <2>1, <2>2 DEF Recorded, Stored
  <1> QED BY <1>3, <1>5, <1>6, <1>7, <1>8

\* A chunk leaves the table with its rows stored elsewhere, or with a failed
\* handle that covers all of them.
THEOREM ReplayLossIsRecorded == Spec => LossIsRecorded
  <1>1. Inv /\ [Next]_vars =>
          [\A c \in chunk \ chunk' :
             \/ c.rows \subseteq Stored'
             \/ /\ c.handle \in Failed'
                /\ \A s \in c.rows : Covers(handle'[c.handle].span, [start |-> s, end |-> s])]_vars
    BY LossStep DEF Recorded
  <1> QED BY <1>1, ReplayInvariant, PTL DEF Spec, LossIsRecorded

-----------------------------------------------------------------------------
(* Merging sound handles never moves the start of the stream forward.      *)

LEMMA MergeStep ==
    ASSUME Inv, ReplaceHandles, Failed' = Failed
    PROVE  InitialSeq' <= InitialSeq
  <1>1. InitialSeq \in 0..MaxSeq
    BY InitialSeqType DEF Inv
  <1>2. Sound \subseteq Handles /\ Failed \subseteq Handles
    BY DEF Sound, Failed
  <1>3. CASE UNCHANGED <<handle, next, skipped>>
    <2>1. InitialSeq' = InitialSeq
      BY <1>3 DEF InitialSeq, Sound, Failed, Handles, Spans
    <2> QED BY <1>1, <2>1, ReplayAssumption
  <1>4. CASE ~ UNCHANGED <<handle, next, skipped>>
    <2>1. /\ merge.ids \subseteq Handles
          /\ Handles' = (Handles \ merge.ids) \cup (IF merge.insert THEN {next} ELSE {})
          /\ next \notin Handles
          /\ \A h \in Handles \ merge.ids : handle'[h] = handle[h]
          /\ merge.insert => handle'[next] = [span |-> merge.span, failed |-> FALSE]
          /\ Failed' = Failed \ merge.ids
      BY <1>4, ReplaceFacts DEF Inv
    <2>2. merge.ids \subseteq Sound /\ Failed \subseteq Handles \ merge.ids
      BY <1>2, <2>1 DEF Sound
    <2>3. Sound' \subseteq (Sound \ merge.ids) \cup (IF merge.insert THEN {next} ELSE {})
      BY <2>1 DEF Sound
    <2> DEFINE s == Union(Spans(Sound))
               t == Union(Spans(Sound)')
               f == Union(Spans(Failed))
    <2>4. Spans(Failed)' = Spans(Failed)
      BY <2>1, <2>2 DEF Spans
    <2>5. s \in Ranges /\ f \in Ranges /\ Spans(Sound) \in SUBSET Ranges
          /\ Spans(merge.ids) \in SUBSET Spans(Sound)
      <3>1. Spans(merge.ids) \in SUBSET Spans(Sound)
        BY <2>2 DEF Spans
      <3> QED BY <1>2, <3>1, SpansAreRanges DEF Inv
    <2>6. merge.span \in Ranges /\ Covers(Union(Spans(merge.ids)), merge.span)
      BY <2>1 DEF Inv, MergeOK, ReplayTypeOK, Ranges
    <2>7. Covers(s, merge.span)
      <3>1. Covers(s, Union(Spans(merge.ids))) /\ Union(Spans(merge.ids)) \in Ranges
        BY <2>5, UnionGrows, UnionOf
      <3> QED BY <2>5, <2>6, <3>1, CoversRows
    <2>8. \A r \in Spans(Sound)' : r \in Ranges /\ Covers(s, r)
      <3> SUFFICES ASSUME NEW h \in Sound'
                   PROVE  handle'[h].span \in Ranges /\ Covers(s, handle'[h].span)
        BY DEF Spans
      <3>1. CASE h \in Sound \ merge.ids
        <4>1. handle'[h].span \in Spans(Sound)
          BY <1>2, <2>1, <3>1 DEF Spans
        <4> QED BY <2>5, <4>1, UnionOf
      <3>2. CASE merge.insert /\ h = next
        BY <2>1, <2>6, <2>7, <3>2
      <3> QED BY <2>3, <3>1, <3>2
    <2>9. Spans(Sound)' \in SUBSET Ranges /\ t \in Ranges /\ Covers(s, t)
      BY <2>5, <2>8, UnionOf, UnionLeast
    <2>10. InitialSeq' = SubtractFromRight(t, {f}).end
      BY <2>4 DEF InitialSeq
    <2>11. InitialSeq = SubtractFromRight(s, {f}).end
      BY DEF InitialSeq
    <2> QED BY <2>5, <2>9, <2>10, <2>11, SubtractMonotone
  <1> QED BY <1>3, <1>4

\* Merging handles that did not fail never moves the start of the stream forward.
THEOREM ReplayMergeKeepsStart == Spec => MergeKeepsStart
  <1>1. Inv /\ [Next]_vars => [ReplaceHandles /\ Failed' = Failed => InitialSeq' <= InitialSeq]_vars
    BY MergeStep
  <1> QED BY <1>1, ReplayInvariant, PTL DEF Spec, MergeKeepsStart

-----------------------------------------------------------------------------
(* No row is lost.                                                         *)

\* Failed handles stay, unless a merge takes them for replayed.
LEMMA FailedStays ==
    ASSUME Inv, [Next]_vars, skipped' = {}, NEW f \in Failed
    PROVE  f \in Failed' /\ handle'[f].span = handle[f].span /\ skipped = {}
  <1> USE ReplayAssumption
  <1>1. f \in Handles
    BY DEF Failed
  <1>2. CASE UNCHANGED <<handle, skipped>>
    BY <1>2 DEF Failed, Handles
  <1>3. CASE \E last \in Seq1 : CreateHandle(last)
    <2>1. PICK last \in Seq1 : CreateHandle(last)
      BY <1>3
    <2>2. [start |-> pos, end |-> last] \in Ranges
      BY <2>1 DEF CreateHandle, Inv, ReplayTypeOK, Ranges, Span, Seq1
    <2>3. AddHandle([start |-> pos, end |-> last]) /\ skipped' = skipped
      BY <2>1 DEF CreateHandle
    <2>4. Failed' = Failed /\ \A h \in Handles : handle'[h] = handle[h]
      BY <2>2, <2>3, AddFacts DEF Inv
    <2> QED BY <1>1, <2>3, <2>4
  <1>4. CASE \E p \in Part : MarkLost(p)
    <2>1. PICK p \in Part : MarkLost(p)
      BY <1>4
    <2>2. PICK c \in work[p].mark : MarkFailed(c.handle) /\ skipped' = skipped
      BY <2>1 DEF MarkLost
    <2>3. c \in chunk /\ c.handle \in Handles
      BY DEF Inv, WorkOK, WorkOf, ChunkOK
    <2> QED BY <1>1, <2>2, <2>3, MarkFacts DEF Inv
  <1>5. CASE \E p \in Part : JoinHandles(p)
    <2>1. PICK p \in Part : JoinHandles(p)
      BY <1>5
    <2> DEFINE span == Union(Spans({c.handle : c \in work[p].join} \cap Handles))
    <2>2. span \in Ranges
      BY SpansAreRanges DEF Inv
    <2>3. AddHandle(span) /\ skipped' = skipped
      BY <2>1 DEF JoinHandles
    <2> HIDE DEF span
    <2>4. Failed' = Failed /\ \A h \in Handles : handle'[h] = handle[h]
      BY <2>2, <2>3, AddFacts DEF Inv
    <2> QED BY <1>1, <2>3, <2>4
  <1>6. CASE ReplaceHandles
    <2>1. CASE UNCHANGED <<handle, next, skipped>>
      BY <2>1 DEF Failed, Handles
    <2>2. CASE ~ UNCHANGED <<handle, next, skipped>>
      <3>1. /\ Failed' = Failed \ merge.ids
            /\ \A h \in Handles \ merge.ids : handle'[h] = handle[h]
            /\ skipped' = skipped \cup (IF merge.ids \cap Failed = {} THEN {} ELSE {"covered"})
        BY <1>6, <2>2, ReplaceFacts DEF Inv
      <3>2. merge.ids \cap Failed = {} /\ skipped = {}
        BY <3>1
      <3> QED BY <1>1, <3>1, <3>2
    <2> QED BY <2>1, <2>2
  <1>7. CASE IngestFails
    BY <1>7 DEF IngestFails
  <1> QED
    BY <1>2, <1>3, <1>4, <1>5, <1>6, <1>7
    DEF Next, Stream, Scheduler, Compaction, StreamStart, RequireReplay, AddMemoryChunks,
        ActivateChunks, StreamStop, MergeRead, CompactStart, DropLost, JoinChunks, FlushChunks,
        Crash, vars

\* What is accounted for stays so.
LEMMA AccountedStays ==
    ASSUME Inv, [Next]_vars, skipped' = {}
    PROVE  Accounted \subseteq Accounted'
  <1> SUFFICES ASSUME NEW s \in Accounted PROVE s \in Accounted'
    OBVIOUS
  <1>1. s \in Seq1
    BY DEF Accounted
  <1>2. CASE s \in disk
    <2>1. disk \subseteq disk'
      BY DEF Next, Stream, Scheduler, Compaction, StreamStart, RequireReplay, AddMemoryChunks,
             ActivateChunks, StreamStop, IngestFails, CreateHandle, MergeRead, ReplaceHandles,
             CompactStart, MarkLost, DropLost, JoinHandles, JoinChunks, FlushChunks, Crash, vars
    <2> QED BY <1>1, <1>2, <2>1 DEF Accounted, Stored
  <1>3. ASSUME NEW c \in chunk, s \in c.rows PROVE s \in Accounted'
    <2>1. CASE c \in chunk'
      BY <1>1, <1>3, <2>1 DEF Accounted, Stored
    <2>2. CASE c \notin chunk'
      <3>1. Recorded(c)'
        BY <2>2, LossStep
      <3>2. CASE c.rows \subseteq Stored'
        BY <1>1, <1>3, <3>2 DEF Accounted
      <3>3. CASE c.handle \in Failed' /\ Covers(handle'[c.handle].span, [start |-> s, end |-> s])
        <4> DEFINE span == handle'[c.handle].span
        <4>1. span # NoSpan /\ span.start <= s /\ s <= span.end
          <5>1. [start |-> s, end |-> s] # NoSpan
            BY <1>1, ReplayAssumption DEF NoSpan, Seq1
          <5> QED BY <3>3, <5>1 DEF Covers
        <4>2. s \in Rows(span)
          BY <1>1, <4>1 DEF Rows
        <4> QED BY <1>1, <3>3, <4>2 DEF Accounted
      <3> QED BY <1>3, <3>1, <3>2, <3>3 DEF Recorded
    <2> QED BY <2>1, <2>2
  <1>4. ASSUME NEW f \in Failed, s \in Rows(handle[f].span) PROVE s \in Accounted'
    <2>1. f \in Failed' /\ handle'[f].span = handle[f].span
      BY FailedStays
    <2> QED BY <1>1, <1>4, <2>1 DEF Accounted
  <1> QED BY <1>2, <1>3, <1>4 DEF Accounted, Stored

\* Ranges that end by m have a union that does.
LEMMA UnionEnds ==
    ASSUME ReplayTypeOK, NEW H \in SUBSET Handles, NEW m \in 0..MaxSeq,
           \A h \in H : handle[h].span.end <= m
    PROVE  Union(Spans(H)).end <= m
  <1> USE ReplayAssumption
  <1>1. Spans(H) \in SUBSET Ranges
    BY SpansAreRanges
  <1>2. CASE Union(Spans(H)) = NoSpan
    BY <1>2, RangeBounds
  <1>3. CASE Union(Spans(H)) # NoSpan
    <2>1. PICK r \in Spans(H) : r.end = Union(Spans(H)).end
      BY <1>1, <1>3, UnionOf
    <2> QED BY <2>1 DEF Spans
  <1> QED BY <1>2, <1>3

\* A stream that starts while none runs begins at most one row after the frontier.
LEMMA StartsByFrontier ==
    ASSUME Inv, NEW m \in 0..MaxSeq, IsFrontier(m), pc = "down"
    PROVE  InitialSeq <= m
  <1> USE ReplayAssumption
  <1>1. batch = NoHandle /\ Sound \subseteq Handles /\ Failed \subseteq Handles
        /\ Handles \subseteq HandleId
    BY DEF Inv, BatchOK, Sound, Failed, ReplayTypeOK
  <1>2. \A h \in Sound : handle[h].span.end <= m
    BY <1>1 DEF IsFrontier, HandleId, NoHandle
  <1> DEFINE s == Union(Spans(Sound))
             f == Union(Spans(Failed))
  <1>3. s.end <= m
    BY <1>1, <1>2, UnionEnds DEF Inv
  <1>4. s \in Ranges /\ {f} \in SUBSET Ranges
    BY <1>1, SpansAreRanges DEF Inv
  <1> HIDE DEF s, f
  <1>5. SubtractFromRight(s, {f}) \in Ranges /\ Covers(s, SubtractFromRight(s, {f}))
    BY <1>4, SubtractOf
  <1>6. SubtractFromRight(s, {f}).end <= s.end
    BY <1>4, <1>5, CoversRows
  <1>7. InitialSeq = SubtractFromRight(s, {f}).end
    BY DEF InitialSeq, s, f
  <1> QED BY <1>3, <1>4, <1>5, <1>6, <1>7, RangeBounds

\* The handles of a step other than the end of a batch end by the frontier.
LEMMA EndsStay ==
    ASSUME Inv, [Next]_vars, skipped' = {}, ~ ActivateChunks, NEW m \in 0..MaxSeq, IsFrontier(m)
    PROVE  \A h \in Handles' \ {batch'} : handle'[h].span.end <= m
  <1> USE ReplayAssumption
  <1>1. \A h \in Handles \ {batch} : handle[h].span.end <= m
    BY DEF IsFrontier
  <1>2. CASE UNCHANGED <<handle, batch>>
    BY <1>1, <1>2 DEF Handles
  <1>3. CASE \E last \in Seq1 : CreateHandle(last)
    <2>1. PICK last \in Seq1 : CreateHandle(last)
      BY <1>3
    <2>2. [start |-> pos, end |-> last] \in Ranges
      BY <2>1 DEF CreateHandle, Inv, ReplayTypeOK, Ranges, Span, Seq1
    <2>3. AddHandle([start |-> pos, end |-> last]) /\ batch' = next /\ batch = NoHandle
      BY <2>1 DEF CreateHandle, Inv, BatchOK
    <2>4. Handles' = Handles \cup {next} /\ \A h \in Handles : handle'[h] = handle[h]
      BY <2>2, <2>3, AddFacts DEF Inv
    <2>5. NoHandle \notin Handles
      BY DEF Inv, ReplayTypeOK, HandleId, NoHandle
    <2> QED BY <1>1, <2>3, <2>4, <2>5
  <1>4. CASE RequireReplay \/ StreamStop \/ StreamStart
    <2>1. batch = NoHandle /\ batch' = NoHandle /\ UNCHANGED handle
      BY <1>4 DEF RequireReplay, StreamStop, StreamStart, Down, Inv, BatchOK
    <2> QED BY <1>1, <2>1 DEF Handles
  <1>5. CASE \E p \in Part : MarkLost(p)
    <2>1. PICK p \in Part : MarkLost(p)
      BY <1>5
    <2>2. PICK c \in work[p].mark : MarkFailed(c.handle) /\ batch' = batch
      BY <2>1 DEF MarkLost, streamVars
    <2>3. c \in chunk /\ c.handle \in Handles
      BY DEF Inv, WorkOK, WorkOf, ChunkOK
    <2>4. Handles' = Handles /\ \A h \in Handles : handle'[h].span = handle[h].span
      BY <2>2, <2>3, MarkFacts DEF Inv
    <2> QED BY <1>1, <2>2, <2>4
  <1>6. CASE \E p \in Part : JoinHandles(p)
    <2>1. PICK p \in Part : JoinHandles(p)
      BY <1>6
    <2> DEFINE H == {c.handle : c \in work[p].join} \cap Handles
               span == Union(Spans(H))
    <2>2. span \in Ranges
      BY SpansAreRanges DEF Inv
    <2>3. AddHandle(span) /\ batch' = batch
      BY <2>1 DEF JoinHandles, streamVars
    <2>4. H \subseteq Handles \ {batch}
      <3>1. \A c \in work[p].join : c \in chunk
        BY DEF Inv, WorkOK, WorkOf
      <3>2. NoHandle \notin Handles
        BY DEF Inv, ReplayTypeOK, HandleId, NoHandle
      <3> QED BY <3>1, <3>2 DEF Inv, ChunkOK, InFlight
    <2>5. span.end <= m
      BY <1>1, <2>4, UnionEnds DEF Inv
    <2> HIDE DEF span, H
    <2>6. /\ Handles' = Handles \cup {next} /\ \A h \in Handles : handle'[h] = handle[h]
          /\ handle'[next] = [span |-> span, failed |-> FALSE]
      BY <2>2, <2>3, AddFacts DEF Inv
    <2> QED BY <1>1, <2>3, <2>5, <2>6
  <1>7. CASE ReplaceHandles
    <2>1. CASE UNCHANGED <<handle, next, skipped>>
      <3>1. batch' = batch
        BY <1>7 DEF ReplaceHandles, streamVars
      <3> QED BY <1>1, <2>1, <3>1 DEF Handles
    <2>2. CASE ~ UNCHANGED <<handle, next, skipped>>
      <3>1. /\ merge.ids \subseteq Handles
            /\ Handles' = (Handles \ merge.ids) \cup (IF merge.insert THEN {next} ELSE {})
            /\ \A h \in Handles \ merge.ids : handle'[h] = handle[h]
            /\ merge.insert => handle'[next] = [span |-> merge.span, failed |-> FALSE]
        BY <1>7, <2>2, ReplaceFacts DEF Inv
      <3>2. batch' = batch
        BY <1>7 DEF ReplaceHandles, streamVars
      <3>3. merge.ids \subseteq Handles \ {batch}
        <4>1. NoHandle \notin Handles
          BY DEF Inv, ReplayTypeOK, HandleId, NoHandle
        <4> QED BY <3>1, <4>1 DEF Inv, MergeOK, InFlight
      <3>4. merge.span \in Ranges /\ Union(Spans(merge.ids)) \in Ranges
            /\ Covers(Union(Spans(merge.ids)), merge.span)
        BY <3>1, SpansAreRanges DEF Inv, MergeOK, ReplayTypeOK, Ranges
      <3>5. Union(Spans(merge.ids)).end <= m
        BY <1>1, <3>1, <3>3, UnionEnds DEF Inv
      <3>6. merge.span.end <= m
        BY <3>4, <3>5, CoversRows, RangeBounds
      <3> QED BY <1>1, <3>1, <3>2, <3>6
    <2> QED BY <2>1, <2>2
  <1>8. CASE IngestFails
    BY <1>8 DEF IngestFails
  <1> QED
    BY <1>2, <1>3, <1>4, <1>5, <1>6, <1>7, <1>8
    DEF Next, Stream, Scheduler, Compaction, AddMemoryChunks, MergeRead, CompactStart, DropLost,
        JoinChunks, FlushChunks, Crash, vars, streamVars

\* Only a stream that starts, stops or ends a batch moves.
LEMMA PosStays ==
    ASSUME Inv, [Next]_vars, ~ ActivateChunks, NEW m \in 0..MaxSeq, IsFrontier(m), pc' # "down"
    PROVE  pos' <= m + 1
  <1> USE ReplayAssumption
  <1>1. CASE pc # "down" /\ pos' = pos
    BY <1>1 DEF IsFrontier
  <1>2. CASE StreamStart
    <2>1. InitialSeq <= m /\ InitialSeq \in 0..MaxSeq
      BY <1>2, StartsByFrontier, InitialSeqType DEF StreamStart, Inv
    <2>2. pos' = IF InitialSeq = 0 THEN 1 ELSE InitialSeq
      BY <1>2 DEF StreamStart
    <2> QED BY <2>1, <2>2
  <1>3. CASE Down
    BY <1>3 DEF Down
  <1> QED
    BY <1>1, <1>2, <1>3
    DEF Next, Stream, Scheduler, Compaction, RequireReplay, StreamStop, IngestFails, CreateHandle,
        AddMemoryChunks, MergeRead, ReplaceHandles, CompactStart, MarkLost, DropLost, JoinHandles,
        JoinChunks, FlushChunks, Crash, vars, streamVars

\* The end of a batch moves the frontier to its last row.
LEMMA FrontierMoves ==
    ASSUME Inv, ActivateChunks, NEW m \in 0..MaxSeq, IsFrontier(m), Accounted \subseteq Accounted'
    PROVE  \E n \in 0..MaxSeq : IsFrontier(n)'
  <1> USE ReplayAssumption
  <1> DEFINE span == handle[batch].span
  <1>1. /\ pc = "added" /\ chunk' = chunk \cup pending /\ pos' = span.end + 1
        /\ batch' = NoHandle /\ UNCHANGED <<handle, disk>>
    BY DEF ActivateChunks
  <1>2. /\ span \in Span /\ span.start = pos /\ batch \in Handles
        /\ UNION {c.rows : c \in pending} = Rows(span)
    BY <1>1 DEF Inv, BatchOK, Sound
  <1>3. span.end \in Seq1 /\ span.start \in Seq1 /\ pos <= m + 1
    BY <1>1, <1>2, RangeBounds DEF IsFrontier
  <1>4. PICK n \in 0..MaxSeq : m <= n /\ span.end <= n /\ n \in {m, span.end}
    BY <1>3 DEF Seq1
  <1>5. Rows(span) \subseteq Accounted'
    BY <1>1, <1>2 DEF Accounted, Stored, Rows
  <1>6. 1..n \subseteq Accounted'
    <2> SUFFICES ASSUME NEW s \in 1..n PROVE s \in Accounted'
      OBVIOUS
    <2>1. CASE s <= m
      BY <2>1, <1>4 DEF IsFrontier
    <2>2. CASE ~ (s <= m)
      <3>1. span.start <= s /\ s <= span.end /\ s \in Seq1
        BY <1>2, <1>3, <1>4, <2>2 DEF Seq1
      <3> QED BY <1>5, <3>1 DEF Rows
    <2> QED BY <2>1, <2>2
  <1>7. \A h \in Handles' \ {batch'} : handle'[h].span.end <= n
    <2> SUFFICES ASSUME NEW h \in Handles PROVE handle[h].span.end <= n
      BY <1>1 DEF Handles
    <2>1. CASE h = batch
      BY <1>4, <2>1
    <2>2. CASE h # batch
      <3>1. handle[h].span.end <= m /\ handle[h].span.end \in 0..MaxSeq
        BY <2>2, SpansAreRanges, RangeBounds DEF IsFrontier, Inv
      <3> QED BY <1>4, <3>1
    <2> QED BY <2>1, <2>2
  <1>8. pos' <= n + 1
    BY <1>1, <1>3, <1>4 DEF Seq1
  <1>9. IsFrontier(n)'
    BY <1>6, <1>7, <1>8 DEF IsFrontier
  <1> QED BY <1>4, <1>9

LEMMA LosslessInit == Init => Lossless
  <1> SUFFICES ASSUME Init PROVE IsFrontier(0) /\ 0 \in 0..MaxSeq
    BY DEF Lossless
  <1>1. Handles = {} /\ pc = "down" /\ 1..0 = {}
    BY DEF Init, Handles
  <1> QED BY <1>1, ReplayAssumption DEF IsFrontier

LEMMA LosslessNext == Inv /\ Lossless /\ [Next]_vars => Lossless'
  <1> SUFFICES ASSUME Inv, Lossless, [Next]_vars, skipped' = {}
               PROVE  \E m \in 0..MaxSeq : IsFrontier(m)'
    BY DEF Lossless
  <1>1. skipped = {}
    BY DEF Next, Stream, Scheduler, Compaction, StreamStart, RequireReplay, AddMemoryChunks,
           ActivateChunks, StreamStop, IngestFails, CreateHandle, MergeRead, ReplaceHandles,
           CompactStart, MarkLost, DropLost, JoinHandles, JoinChunks, FlushChunks, Crash, vars
  <1>2. PICK m \in 0..MaxSeq : IsFrontier(m)
    BY <1>1 DEF Lossless
  <1>3. Accounted \subseteq Accounted'
    BY AccountedStays
  <1>4. CASE ActivateChunks
    BY <1>2, <1>3, <1>4, FrontierMoves
  <1>5. CASE ~ ActivateChunks
    <2>1. 1..m \subseteq Accounted'
      BY <1>2, <1>3 DEF IsFrontier
    <2>2. \A h \in Handles' \ {batch'} : handle'[h].span.end <= m
      BY <1>2, <1>5, EndsStay
    <2>3. pc' # "down" => pos' <= m + 1
      BY <1>2, <1>5, PosStays
    <2>4. IsFrontier(m)'
      BY <2>1, <2>2, <2>3 DEF IsFrontier
    <2> QED BY <2>4
  <1> QED BY <1>4, <1>5

\* Rows up to the frontier are accounted for, and the others will be read.
LEMMA LosslessKeeps == Inv /\ Lossless => RowsKept
  <1> SUFFICES ASSUME Inv, Lossless, skipped = {}, NEW s \in Seq1
               PROVE  Kept(s)
    BY DEF RowsKept
  <1> USE ReplayAssumption
  <1>1. PICK m \in 0..MaxSeq : IsFrontier(m)
    BY DEF Lossless
  <1>2. s \in Nat /\ s >= 1
    BY DEF Seq1
  <1>3. CASE s <= m
    <2>1. s \in Accounted
      BY <1>1, <1>2, <1>3 DEF IsFrontier
    <2>2. CASE s \in Stored
      BY <2>2 DEF Kept
    <2>3. ASSUME NEW f \in Failed, s \in Rows(handle[f].span) PROVE Kept(s)
      <3> DEFINE all == Union(Spans(Failed))
                 sound == Union(Spans(Sound))
                 start == SubtractFromRight(sound, {all})
      <3>1. /\ Failed \subseteq Handles /\ Sound \subseteq Handles
            /\ handle[f].span \in Spans(Failed)
        BY DEF Failed, Sound, Spans
      <3>2. /\ Spans(Failed) \in SUBSET Ranges /\ all \in Ranges /\ sound \in Ranges
            /\ handle[f].span \in Ranges
        BY <3>1, SpansAreRanges DEF Inv
      <3>3. Covers(all, handle[f].span)
        BY <3>1, <3>2, UnionOf
      <3>4. handle[f].span # NoSpan /\ handle[f].span.start <= s
        BY <2>3, <1>2, RangeBounds DEF Rows
      <3>5. all # NoSpan /\ all.start <= handle[f].span.start
        BY <3>3, <3>4 DEF Covers
      <3>6. start \in Ranges /\ \A r \in {all} \ {NoSpan} : start.end <= r.start
        BY <3>2, SubtractOf
      <3>7. start.end <= all.start
        BY <3>5, <3>6
      <3> HIDE DEF start, all, sound
      <3>8. start.end <= s
        BY <3>2, <3>4, <3>5, <3>6, <3>7, <1>2, RangeBounds
      <3>9. InitialSeq <= s
        BY <3>8 DEF InitialSeq, start, all, sound
      <3> QED BY <3>9 DEF Kept
    <2> QED BY <2>1, <2>2, <2>3 DEF Accounted
  <1>4. CASE ~ (s <= m) /\ pc = "down"
    <2>1. InitialSeq <= m /\ InitialSeq \in 0..MaxSeq
      BY <1>1, <1>4, StartsByFrontier, InitialSeqType DEF Inv
    <2>2. InitialSeq <= s
      BY <1>2, <1>4, <2>1
    <2> QED BY <2>2 DEF Kept
  <1>5. CASE ~ (s <= m) /\ pc # "down"
    <2>1. pos <= m + 1 /\ pos \in 1..(MaxSeq + 1)
      BY <1>1, <1>5 DEF IsFrontier, Inv, ReplayTypeOK
    <2>2. pos <= s
      BY <1>2, <1>5, <2>1
    <2> QED BY <1>5, <2>2 DEF Kept
  <1> QED BY <1>3, <1>4, <1>5

\* Every row is stored, or will be read by the running stream or by the next one,
\* as long as no batch failed half way and no failed handle was taken for replayed.
THEOREM ReplayRowsKept == Spec => []RowsKept
  <1>1. Init => Inv /\ Lossless
    BY InvInit, LosslessInit
  <1>2. Inv /\ Lossless /\ [Next]_vars => Inv' /\ Lossless'
    BY InvNext, LosslessNext
  <1> QED BY <1>1, <1>2, LosslessKeeps, PTL DEF Spec
=============================================================================
