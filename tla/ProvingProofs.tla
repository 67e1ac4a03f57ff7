---------------------------- MODULE ProvingProofs ----------------------------
(***************************************************************************)
(* Proofs about proving, for any number of traces, tasks, workers,         *)
(* attempts and faults.                                                    *)
(*                                                                         *)
(* Merge: whatever earlier runs have left in storage, a merge ends with    *)
(* one proof of everything it has read, and only a proof of the whole      *)
(* ledger is exhausted.  TaskQueue: an answer reaches the task it is for,  *)
(* and the queue implements the service that provers rely on.              *)
(***************************************************************************)
EXTENDS Merge, TaskQueue, FiniteSetTheorems, TLAPS

-----------------------------------------------------------------------------
(* Merge                                                                   *)

USE MergeAssumption

-----------------------------------------------------------------------------
(* Proofs and their ids                                                    *)

LEMMA BaseKnown ==
    ASSUME NEW i \in Traces
    PROVE  Base(i) \in Proofs /\ Known(Base(i))
BY DEF Base, Proofs, Spans, Traces, Known

LEMMA MergedKnown ==
    ASSUME NEW p \in Proofs, NEW q \in Proofs, Known(p), Known(q),
           q.from = p.to + 1
    PROVE  /\ Merged(p, q) \in Proofs
           /\ Known(Merged(p, q))
           /\ Merged(p, q).from = p.from
           /\ Merged(p, q).to = q.to
<1>1. p.from \in Int /\ p.to \in Int /\ q.from \in Int /\ q.to \in Int
  BY DEF Proofs, Traces
<1>2. MergeIdFor(p, q) \in SUBSET Spans
  BY DEF MergeIdFor, Proofs, Spans
<1>3. Merged(p, q) \in Proofs
  BY <1>2 DEF Merged, Proofs
<1>4. ASSUME NEW s \in MergeIdFor(p, q)
      PROVE  p.from <= s[1] /\ s[1] <= s[2] /\ s[2] <= q.to
  <2>1. s \in Spans /\ s[1] \in Int /\ s[2] \in Int
    BY <1>2 DEF Spans, Traces
  <2>. QED  BY <1>1, <2>1 DEF MergeIdFor, Known
<1>5. Known(Merged(p, q))
  BY <1>1, <1>4 DEF Known, Merged, MergeIdFor
<1>. QED  BY <1>3, <1>5 DEF Merged

\* A stored proof with the id of a merge is that merge, whoever made it.
LEMMA ReusedIsMerged ==
    ASSUME NEW p \in Proofs, NEW q \in Proofs, NEW r \in Proofs,
           Known(p), Known(q), Known(r),
           q.from = p.to + 1, r.id = MergeIdFor(p, q)
    PROVE  r = Merged(p, q)
<1>1. /\ p.from \in Int /\ p.to \in Int /\ q.from \in Int /\ q.to \in Int
      /\ r.from \in Int /\ r.to \in Int
  BY DEF Proofs, Traces
<1>2. p.from <= p.to /\ q.from <= q.to
  BY DEF Known
<1>3. r.from <= p.from /\ q.to <= r.to
  <2>1. <<p.from, q.to>> \in r.id
    BY DEF MergeIdFor
  <2>. QED  BY <2>1 DEF Known
<1>4. p.from <= r.from /\ r.to <= q.to
  <2>1. \/ <<r.from, r.to>> \in p.id
        \/ <<r.from, r.to>> \in q.id
        \/ <<r.from, r.to>> = <<p.from, q.to>>
    BY DEF Known, MergeIdFor
  <2>2. CASE <<r.from, r.to>> \in p.id
    BY <1>1, <1>2, <2>2 DEF Known
  <2>3. CASE <<r.from, r.to>> \in q.id
    BY <1>1, <1>2, <2>3 DEF Known
  <2>4. CASE <<r.from, r.to>> = <<p.from, q.to>>
    BY <1>1, <2>4
  <2>. QED  BY <2>1, <2>2, <2>3, <2>4
<1>5. r.from = p.from /\ r.to = q.to
  BY <1>1, <1>3, <1>4
<1>6. r = [id |-> r.id, from |-> r.from, to |-> r.to]
  BY DEF Proofs
<1>. QED  BY <1>5, <1>6 DEF Merged

\* There are at most N base proofs.
LEMMA BaseProofsCounted ==
    /\ IsFiniteSet(BaseProofs)
    /\ Cardinality(BaseProofs) <= N
<1>. DEFINE f == [i \in Traces |-> Base(i)]
<1>1. f \in Surjection(Traces, BaseProofs)
  BY DEF Surjection, BaseProofs
<1>2. IsFiniteSet(Traces) /\ Cardinality(Traces) = N
  BY FS_Interval DEF Traces
<1>. HIDE DEF f
<1>3. IsFiniteSet(BaseProofs) /\ Cardinality(BaseProofs) <= Cardinality(Traces)
  BY <1>1, <1>2, FS_Surjection
<1>. QED  BY <1>2, <1>3

-----------------------------------------------------------------------------
(* The forest                                                              *)

Pair == Proofs \X Proofs

\* What a proof holds after pq has become one proof.
LEMMA HeldAfterPair ==
    ASSUME MergeIInv, NEW pq \in running, NEW m, PairDone(pq, m)
    PROVE  Held' = (Held \ {pq[1], pq[2]}) \cup {m}
<1>1. /\ running' = running \ {pq}
      /\ pending' = pending \cup {m}
  BY DEF PairDone
<1>2. /\ {pq[1], pq[2]} \cap pending = {}
      /\ \A other \in running \ {pq} :
            {pq[1], pq[2]} \cap {other[1], other[2]} = {}
  BY DEF MergeIInv, ForestSound
<1>. QED  BY <1>1, <1>2 DEF Held

LEMMA PairFacts ==
    ASSUME MergeIInv, NEW pq \in running
    PROVE  /\ pq[1] \in Held /\ pq[2] \in Held
           /\ pq[1] \in Proofs /\ pq[2] \in Proofs
           /\ Known(pq[1]) /\ Known(pq[2])
           /\ pq[2].from = pq[1].to + 1
           /\ pq[1] # pq[2]
<1>1. pq \in Proofs \X Proofs
  BY DEF MergeIInv, MergeTypeOK
<1>2. pq[1] \in Held /\ pq[2] \in Held
  BY DEF Held
<1>3. Known(pq[1]) /\ Known(pq[2]) /\ pq[2].from = pq[1].to + 1
  BY <1>2 DEF MergeIInv, ProofsKnown, ForestSound
<1>4. pq[1] # pq[2]
  BY <1>1, <1>3 DEF Known, Proofs, Traces
<1>. QED  BY <1>1, <1>2, <1>3, <1>4

LEMMA HeldType ==
    ASSUME MergeIInv
    PROVE  \A p \in Held : /\ p \in Proofs
                           /\ p.from \in Nat /\ p.to \in Nat
                           /\ p.from <= p.to /\ p.to < next
<1>1. Held \subseteq Proofs
  BY DEF MergeIInv, MergeTypeOK, Held
<1>2. \A p \in Held : p.from <= p.to /\ p.to < next
  BY DEF MergeIInv, ProofsKnown, ForestSound, Known
<1>3. \A p \in Proofs : p.from \in Nat /\ p.to \in Nat
  BY DEF Proofs, Traces
<1>. QED  BY <1>1, <1>2, <1>3

\* The merge of a pair takes the place of the two in the forest.
LEMMA PairForest ==
    ASSUME MergeIInv, NEW pq \in running, PairDone(pq, Merged(pq[1], pq[2])),
           UNCHANGED <<next, stage, failure>>
    PROVE  ForestSound'
<1>. DEFINE m == Merged(pq[1], pq[2])
<1>1. /\ m \in Proofs /\ m.from = pq[1].from /\ m.to = pq[2].to
      /\ pq[1] \in Held /\ pq[2] \in Held
      /\ pq[2].from = pq[1].to + 1
      /\ Known(m)
  BY PairFacts, MergedKnown
<1>2. Held' = (Held \ {pq[1], pq[2]}) \cup {m}
  BY HeldAfterPair
<1>3. next \in Nat
  BY DEF MergeIInv, MergeTypeOK
<1>4. running' = running \ {pq} /\ pending' = pending \cup {m}
  BY DEF PairDone
<1>. HIDE DEF m
<1>5. \A p \in Held \ {pq[1], pq[2]} : p.to < m.from \/ m.to < p.from
  <2>. SUFFICES ASSUME NEW p \in Held \ {pq[1], pq[2]}
                PROVE  p.to < m.from \/ m.to < p.from
    OBVIOUS
  <2>1. /\ p.to < pq[1].from \/ pq[1].to < p.from
        /\ p.to < pq[2].from \/ pq[2].to < p.from
    BY <1>1 DEF MergeIInv, ForestSound, ForestTiles
  <2>. QED  BY <1>1, <2>1, HeldType
<1>6. m \notin Held
  <2>. SUFFICES ASSUME m \in Held PROVE FALSE
    OBVIOUS
  <2>1. m # pq[1] /\ m # pq[2]
    BY <1>1, HeldType
  <2>. QED  BY <1>1, <1>5, <2>1, HeldType
<1>7. \A p, q \in Held' : p # q => p.to < q.from \/ q.to < p.from
  <2>. SUFFICES ASSUME NEW p \in Held', NEW q \in Held', p # q
                PROVE  p.to < q.from \/ q.to < p.from
    OBVIOUS
  <2>1. CASE p = m
    BY <1>2, <1>5, <2>1
  <2>2. CASE q = m
    BY <1>2, <1>5, <2>2
  <2>3. CASE p # m /\ q # m
    BY <1>2, <2>3 DEF MergeIInv, ForestSound, ForestTiles
  <2>. QED  BY <2>1, <2>2, <2>3
<1>8. ASSUME stage = "merging", ~failure, NEW i \in 0..(next - 1)
      PROVE  \E p \in Held' : p.from <= i /\ i <= p.to
  <2>1. PICK p \in Held : p.from <= i /\ i <= p.to
    BY <1>8 DEF MergeIInv, ForestSound, ForestTiles
  <2>2. CASE p \in {pq[1], pq[2]}
    <3>1. m.from <= i /\ i <= m.to
      BY <1>1, <2>1, <2>2, HeldType
    <3>. QED  BY <1>2, <3>1
  <2>3. CASE p \notin {pq[1], pq[2]}
    BY <1>2, <2>1, <2>3
  <2>. QED  BY <2>2, <2>3
<1>9. \A r \in running' : /\ r[2].from = r[1].to + 1
                          /\ {r[1], r[2]} \cap pending' = {}
  <2>. SUFFICES ASSUME NEW r \in running \ {pq}
                PROVE  /\ r[2].from = r[1].to + 1
                       /\ {r[1], r[2]} \cap (pending \cup {m}) = {}
    BY <1>4
  <2>1. r[1] \in Held /\ r[2] \in Held
    BY DEF Held
  <2>. QED  BY <1>6, <2>1 DEF MergeIInv, ForestSound
<1>10. \A r, other \in running' :
          r # other => {r[1], r[2]} \cap {other[1], other[2]} = {}
  BY <1>4 DEF MergeIInv, ForestSound
<1>11. \A p \in Held' : p.to < next
  BY <1>1, <1>2, HeldType
<1>. QED
  BY <1>7, <1>8, <1>9, <1>10, <1>11 DEF ForestSound, ForestTiles

LEMMA PairCounts ==
    ASSUME MergeIInv, NEW pq \in running, PairDone(pq, Merged(pq[1], pq[2])),
           UNCHANGED <<count, next, stage, failure>>
    PROVE  CountsSound'
<1>. DEFINE m == Merged(pq[1], pq[2])
<1>1. /\ running' = running \ {pq}
      /\ pending' = pending \cup {m}
      /\ completed' = completed + 1
  BY DEF PairDone
<1>2. IsFiniteSet(pending) /\ IsFiniteSet(running)
  BY DEF MergeIInv, CountsSound
<1>3. m \notin pending
  <2>. SUFFICES ASSUME m \in pending PROVE FALSE
    OBVIOUS
  <2>1. m \in Held
    BY DEF Held
  <2>2. m.from = pq[1].from /\ m.to = pq[2].to
    BY DEF Merged
  <2>3. /\ pq[1] \in Held /\ pq[2] \in Held
        /\ pq[2].from = pq[1].to + 1
    BY PairFacts
  <2>. HIDE DEF m
  <2>4. m # pq[1]
    BY <2>2, <2>3, HeldType
  <2>5. m.to < pq[1].from \/ pq[1].to < m.from
    BY <2>1, <2>3, <2>4 DEF MergeIInv, ForestSound, ForestTiles
  <2>. QED  BY <2>1, <2>2, <2>3, <2>5, HeldType
<1>. HIDE DEF m
<1>4. /\ IsFiniteSet(pending') /\ IsFiniteSet(running')
      /\ Cardinality(pending') = Cardinality(pending) + 1
      /\ Cardinality(running') = Cardinality(running) - 1
  BY <1>1, <1>2, <1>3, FS_AddElement, FS_RemoveElement
<1>5. Cardinality(pending) \in Nat /\ Cardinality(running) \in Nat
  BY <1>2, FS_CardinalityType
<1>. QED
  BY <1>1, <1>4, <1>5 DEF MergeIInv, MergeTypeOK, CountsSound

-----------------------------------------------------------------------------
(* What the other steps leave of the forest                                *)

Forest == <<pending, running, completed, stalled>>

\* A step that leaves the forest, and the merge's counters if one goes on.
LEMMA SameForest ==
    ASSUME MergeIInv, UNCHANGED Forest, UNCHANGED <<root, exhausted, count>>,
           next' \in Nat, next <= next',
           stage' # "merged" \/ stage = "merged",
           stage' = "merging" => /\ stage = "merging" /\ next' = next
                                 /\ ~failure' => ~failure
    PROVE  /\ ForestSound' /\ CountsSound' /\ RootIsComplete'
           /\ NeverStalls' /\ ExhaustedIsWhole'
<1>1. Held' = Held
  BY DEF Held, Forest
<1>2. ForestTiles'
  BY <1>1 DEF MergeIInv, ForestSound, ForestTiles
<1>3. \A p \in Held' : p.to < next'
  BY <1>1, HeldType DEF MergeIInv, MergeTypeOK
<1>4. ForestSound'
  BY <1>2, <1>3 DEF MergeIInv, ForestSound, Forest
<1>5. CountsSound'
  BY DEF MergeIInv, CountsSound, Forest
<1>6. RootIsComplete' /\ NeverStalls' /\ ExhaustedIsWhole'
  BY DEF MergeIInv, RootIsComplete, NeverStalls, ExhaustedIsWhole, Forest
<1>. QED  BY <1>4, <1>5, <1>6

\* A command that begins.
LEMMA BeginStep ==
    ASSUME MergeIInv, NEW command \in {"idle", "digesting", "merging"},
           Begin(command), UNCHANGED <<storage, stalled>>,
           count' \in 0..N, mergeFaults' \in 0..MaxMergeFaults,
           command = "merging" => 1 <= count'
    PROVE  MergeIInv'
<1>1. Held' = {}
  BY DEF Held, Begin
<1>2. MergeTypeOK'
  <2>1. MergeTypeOK
    BY DEF MergeIInv
  <2>2. 0 \in 0..N /\ 0 \in Nat
    OBVIOUS
  <2>3. failure' \in BOOLEAN /\ callbackError' \in BOOLEAN
    BY DEF Begin
  <2>. QED  BY <2>1, <2>2, <2>3 DEF MergeTypeOK, Begin, storage
<1>3. ProofsKnown'
  BY <1>1 DEF MergeIInv, ProofsKnown, Begin, storage
<1>4. ForestSound'
  BY <1>1 DEF ForestSound, ForestTiles, Begin
<1>5. CountsSound'
  <2>1. IsFiniteSet({}) /\ Cardinality({}) = 0
    BY FS_EmptySet
  <2>2. /\ pending' = {} /\ running' = {} /\ completed' = 0 /\ next' = 0
        /\ stage' = command
    BY DEF Begin
  <2>. QED  BY <2>1, <2>2 DEF CountsSound
<1>6. RootIsComplete' /\ NeverStalls' /\ ExhaustedIsWhole'
  BY DEF MergeIInv, RootIsComplete, NeverStalls, ExhaustedIsWhole, Begin, storage
<1>. QED  BY <1>2, <1>3, <1>4, <1>5, <1>6 DEF MergeIInv

\* What a write brings to storage, or leaves for the next one.
LEMMA PersistStep ==
    ASSUME MergeIInv, NEW p \in Proofs, Known(p), NEW ok \in BOOLEAN, Persist(p, ok)
    PROVE  /\ stored' \in SUBSET Proofs /\ unwritten' \in SUBSET Proofs
           /\ \A r \in stored' \cup unwritten' : Known(r)
BY DEF MergeIInv, MergeTypeOK, ProofsKnown, Persist

-----------------------------------------------------------------------------
(* digest *)

LEMMA DigestNextStep == MergeIInv /\ DigestNext => MergeIInv'
<1>. SUFFICES ASSUME MergeIInv, DigestNext PROVE MergeIInv'
  OBVIOUS
<1>1. MergeTypeOK'
  BY DEF MergeIInv, MergeTypeOK, DigestNext, HasTrace, storage, Traces
<1>2. Held' = Held
  BY DEF Held, DigestNext
<1>3. ProofsKnown'
  BY <1>2 DEF MergeIInv, ProofsKnown, DigestNext, storage
<1>4. /\ ForestSound' /\ CountsSound' /\ RootIsComplete'
      /\ NeverStalls' /\ ExhaustedIsWhole'
  BY SameForest DEF MergeIInv, MergeTypeOK, DigestNext, storage, Forest
<1>. QED  BY <1>1, <1>3, <1>4 DEF MergeIInv

LEMMA DigestTaskStep ==
    ASSUME MergeIInv, NEW i \in Traces, DigestAnswer(i) \/ DigestTaskFails(i)
    PROVE  MergeIInv'
<1>1. MergeTypeOK'
  <2>1. MergeTypeOK
    BY DEF MergeIInv
  <2>2. CASE DigestAnswer(i)
    BY <2>1, <2>2 DEF MergeTypeOK, DigestAnswer, storage
  <2>3. CASE DigestTaskFails(i)
    BY <2>1, <2>3 DEF MergeTypeOK, DigestTaskFails, MergeFault, storage
  <2>. QED  BY <2>2, <2>3
<1>2. Held' = Held
  BY DEF Held, DigestAnswer, DigestTaskFails
<1>3. ProofsKnown'
  BY <1>2 DEF MergeIInv, ProofsKnown, DigestAnswer, DigestTaskFails, storage
<1>4. /\ ForestSound' /\ CountsSound' /\ RootIsComplete'
      /\ NeverStalls' /\ ExhaustedIsWhole'
  BY SameForest
     DEF MergeIInv, MergeTypeOK, DigestAnswer, DigestTaskFails, storage, Forest
<1>. QED  BY <1>1, <1>3, <1>4 DEF MergeIInv

LEMMA DigestStoreStep ==
    ASSUME MergeIInv, NEW i \in Traces, NEW ok \in BOOLEAN, DigestStore(i, ok)
    PROVE  MergeIInv'
<1>1. /\ stored' \in SUBSET Proofs /\ unwritten' \in SUBSET Proofs
      /\ \A r \in stored' \cup unwritten' : Known(r)
  BY BaseKnown, PersistStep DEF DigestStore
<1>2. MergeTypeOK'
  <2>1. MergeTypeOK
    BY DEF MergeIInv
  <2>2. callbackError' \in BOOLEAN /\ mergeFaults' \in 0..MaxMergeFaults
    <3>1. CASE ok
      BY <2>1, <3>1 DEF MergeTypeOK, DigestStore
    <3>2. CASE ~ok
      BY <2>1, <3>2 DEF MergeTypeOK, DigestStore, MergeFault
    <3>. QED  BY <3>1, <3>2
  <2>. QED  BY <1>1, <2>1, <2>2 DEF MergeTypeOK, DigestStore
<1>3. Held' = Held
  BY DEF Held, DigestStore
<1>4. ProofsKnown'
  BY <1>1, <1>3 DEF MergeIInv, ProofsKnown
<1>5. /\ ForestSound' /\ CountsSound' /\ RootIsComplete'
      /\ NeverStalls' /\ ExhaustedIsWhole'
  BY SameForest DEF MergeIInv, MergeTypeOK, DigestStore, Forest
<1>. QED  BY <1>2, <1>4, <1>5 DEF MergeIInv

LEMMA DigestEndsStep == MergeIInv /\ DigestEnds => MergeIInv'
<1>. SUFFICES ASSUME MergeIInv, DigestEnds PROVE MergeIInv'
  OBVIOUS
<1>1. MergeTypeOK'
  BY DEF MergeIInv, MergeTypeOK, DigestEnds, storage, memory
<1>2. ProofsKnown'
  BY DEF MergeIInv, ProofsKnown, Held, DigestEnds, storage, memory
<1>3. /\ ForestSound' /\ CountsSound' /\ RootIsComplete'
      /\ NeverStalls' /\ ExhaustedIsWhole'
  BY SameForest DEF MergeIInv, MergeTypeOK, DigestEnds, storage, memory, Forest
<1>. QED  BY <1>1, <1>2, <1>3 DEF MergeIInv

-----------------------------------------------------------------------------
(* merge *)

LEMMA StartMergeStep == MergeIInv /\ StartMerge => MergeIInv'
<1>. SUFFICES ASSUME MergeIInv, StartMerge PROVE MergeIInv'
  OBVIOUS
<1>. DEFINE bases == stored \cap BaseProofs
<1>1. IsFiniteSet(bases) /\ Cardinality(bases) <= Cardinality(BaseProofs)
  BY BaseProofsCounted, FS_Subset
<1>2. bases # {}
  BY DEF StartMerge
<1>3. count' = Cardinality(bases)
  BY DEF StartMerge
<1>. HIDE DEF bases
<1>4. Cardinality(bases) \in Nat /\ Cardinality(bases) # 0
  BY <1>1, <1>2, FS_CardinalityType, FS_EmptySet
<1>5. count' \in 0..N /\ 1 <= count'
  <2>1. Cardinality(BaseProofs) \in Nat /\ Cardinality(BaseProofs) <= N
    BY BaseProofsCounted, FS_CardinalityType
  <2>. QED  BY <1>1, <1>3, <1>4, <2>1
<1>6. mergeFaults' \in 0..MaxMergeFaults
  BY DEF MergeIInv, MergeTypeOK, StartMerge, MergeFault
<1>. QED  BY <1>5, <1>6, BeginStep DEF StartMerge

LEMMA ReadBaseProofStep == MergeIInv /\ ReadBaseProof => MergeIInv'
<1>. SUFFICES ASSUME MergeIInv, ReadBaseProof PROVE MergeIInv'
  OBVIOUS
<1>0. next \in Nat /\ count \in 0..N /\ next < count /\ next \in Traces
  BY DEF MergeIInv, MergeTypeOK, ReadBaseProof, Traces
<1>1. CASE Base(next) \notin stored
  <2>1. MergeTypeOK'
    BY <1>1 DEF MergeIInv, MergeTypeOK, ReadBaseProof, storage
  <2>2. ProofsKnown'
    BY <1>1 DEF MergeIInv, ProofsKnown, Held, ReadBaseProof, storage
  <2>3. /\ ForestSound' /\ CountsSound' /\ RootIsComplete'
        /\ NeverStalls' /\ ExhaustedIsWhole'
    BY <1>0, <1>1, SameForest
       DEF MergeIInv, MergeTypeOK, ReadBaseProof, CanPump, storage, Forest
  <2>. QED  BY <2>1, <2>2, <2>3 DEF MergeIInv
<1>2. CASE Base(next) \in stored
  <2>. DEFINE b == Base(next)
  <2>1. b \in Proofs /\ Known(b) /\ b.from = next /\ b.to = next
    BY <1>0, BaseKnown DEF Base
  <2>2. /\ pending' = pending \cup {b} /\ next' = next + 1
        /\ running' = running /\ completed' = completed
        /\ failure' = failure /\ ~failure /\ count' = count
        /\ stage = "merging" /\ stage' = stage
    BY <1>2 DEF ReadBaseProof, CanPump
  <2>. HIDE DEF b
  <2>3. Held' = Held \cup {b}
    BY <2>2 DEF Held
  <2>4. b \notin Held
    BY <2>1, HeldType, <1>0
  <2>5. MergeTypeOK'
    BY <1>0, <2>1, <2>2 DEF MergeIInv, MergeTypeOK, ReadBaseProof, storage
  <2>6. ProofsKnown'
    BY <2>1, <2>3 DEF MergeIInv, ProofsKnown, ReadBaseProof, storage
  <2>7. ForestSound'
    <3>1. \A p, q \in Held' : p # q => p.to < q.from \/ q.to < p.from
      BY <2>1, <2>3, HeldType DEF MergeIInv, ForestSound, ForestTiles
    <3>2. \A i \in 0..(next' - 1) : \E p \in Held' : p.from <= i /\ i <= p.to
      <4>. SUFFICES ASSUME NEW i \in 0..next
                    PROVE  \E p \in Held' : p.from <= i /\ i <= p.to
        BY <1>0, <2>2
      <4>1. CASE i = next
        BY <1>0, <2>1, <2>3, <4>1
      <4>2. CASE i # next
        <5>1. i \in 0..(next - 1)
          BY <1>0, <4>2
        <5>2. PICK p \in Held : p.from <= i /\ i <= p.to
          BY <2>2, <5>1 DEF MergeIInv, ForestSound, ForestTiles
        <5>. QED  BY <2>3, <5>2
      <4>. QED  BY <4>1, <4>2
    <3>3. \A pq \in running' : {pq[1], pq[2]} \cap pending' = {}
      <4>. SUFFICES ASSUME NEW pq \in running
                    PROVE  {pq[1], pq[2]} \cap (pending \cup {b}) = {}
        BY <2>2
      <4>1. pq[1] \in Held /\ pq[2] \in Held
        BY DEF Held
      <4>. QED  BY <2>4, <4>1 DEF MergeIInv, ForestSound
    <3>4. \A p \in Held' : p.to < next'
      BY <1>0, <2>1, <2>2, <2>3, HeldType
    <3>. QED
      BY <2>2, <3>1, <3>2, <3>3, <3>4 DEF MergeIInv, ForestSound, ForestTiles
  <2>8. CountsSound'
    <3>1. b \notin pending
      BY <2>4 DEF Held
    <3>2. IsFiniteSet(pending) /\ IsFiniteSet(running)
      BY DEF MergeIInv, CountsSound
    <3>3. IsFiniteSet(pending') /\ Cardinality(pending') = Cardinality(pending) + 1
      BY <2>2, <3>1, <3>2, FS_AddElement
    <3>4. Cardinality(pending) \in Nat /\ Cardinality(running) \in Nat
      BY <3>2, FS_CardinalityType
    <3>. QED
      BY <1>0, <2>2, <3>2, <3>3, <3>4 DEF MergeIInv, MergeTypeOK, CountsSound
  <2>9. RootIsComplete' /\ NeverStalls' /\ ExhaustedIsWhole'
    BY <2>2 DEF MergeIInv, RootIsComplete, NeverStalls, ExhaustedIsWhole,
                ReadBaseProof, storage
  <2>. QED  BY <2>5, <2>6, <2>7, <2>8, <2>9 DEF MergeIInv
<1>. QED  BY <1>1, <1>2

LEMMA ChoosePairStep == MergeIInv /\ ChoosePair => MergeIInv'
<1>. SUFFICES ASSUME MergeIInv, ChoosePair PROVE MergeIInv'
  OBVIOUS
<1>1. PICK pq \in MergeablePairs(pending) :
            /\ pending' = pending \ {pq[1], pq[2]}
            /\ running' = running \cup {pq}
  BY DEF ChoosePair
<1>2. /\ pq \in pending \X pending
      /\ pq[1] \in pending /\ pq[2] \in pending
      /\ pq[2].from = pq[1].to + 1
  BY DEF MergeablePairs
<1>3. pq[1] \in Held /\ pq[2] \in Held
  BY <1>2 DEF Held
<1>4. pq[1] # pq[2]
  BY <1>2, <1>3, HeldType
<1>5. Held' = Held
  BY <1>1, <1>2 DEF Held
<1>6. \A other \in running : {pq[1], pq[2]} \cap {other[1], other[2]} = {}
  BY <1>2 DEF MergeIInv, ForestSound
<1>7. pq \notin running
  BY <1>6
<1>8. MergeTypeOK'
  <2>1. MergeTypeOK /\ pq \in Proofs \X Proofs
    BY <1>2 DEF MergeIInv, MergeTypeOK
  <2>. QED  BY <1>1, <2>1 DEF MergeTypeOK, ChoosePair, storage
<1>9. ProofsKnown'
  BY <1>5 DEF MergeIInv, ProofsKnown, ChoosePair, storage
<1>10. ForestSound'
  <2>1. ForestTiles'
    BY <1>5 DEF MergeIInv, ForestSound, ForestTiles, ChoosePair
  <2>2. \A r \in running' : /\ r[2].from = r[1].to + 1
                            /\ {r[1], r[2]} \cap pending' = {}
    BY <1>1, <1>2 DEF MergeIInv, ForestSound
  <2>3. \A r, other \in running' :
            r # other => {r[1], r[2]} \cap {other[1], other[2]} = {}
    BY <1>1, <1>6 DEF MergeIInv, ForestSound
  <2>4. \A p \in Held' : p.to < next'
    BY <1>5 DEF MergeIInv, ForestSound, ChoosePair
  <2>. QED  BY <2>1, <2>2, <2>3, <2>4 DEF ForestSound
<1>11. CountsSound'
  <2>1. IsFiniteSet(pending) /\ IsFiniteSet(running)
    BY DEF MergeIInv, CountsSound
  <2>2. Cardinality(pending) \in Nat /\ Cardinality(running) \in Nat
    BY <2>1, FS_CardinalityType
  <2>. DEFINE rest == pending \ {pq[1]}
  <2>3. IsFiniteSet(rest) /\ Cardinality(rest) = Cardinality(pending) - 1
    BY <1>2, <2>1, FS_RemoveElement
  <2>4. pq[2] \in rest /\ pending' = rest \ {pq[2]}
    BY <1>1, <1>2, <1>4
  <2>. HIDE DEF rest
  <2>5. /\ IsFiniteSet(pending')
        /\ Cardinality(pending') = Cardinality(rest) - 1
    BY <2>3, <2>4, FS_RemoveElement
  <2>6. /\ IsFiniteSet(running')
        /\ Cardinality(running') = Cardinality(running) + 1
    BY <1>1, <1>7, <2>1, FS_AddElement
  <2>7. /\ stage = "merging" /\ 1 <= count /\ next <= count
        /\ next = completed + Cardinality(pending) + 2 * Cardinality(running)
    BY DEF MergeIInv, CountsSound, ChoosePair, CanPump
  <2>8. completed \in Nat
    BY DEF MergeIInv, MergeTypeOK
  <2>9. next = completed + Cardinality(pending') + 2 * Cardinality(running')
    BY <2>2, <2>3, <2>5, <2>6, <2>7, <2>8
  <2>. QED
    BY <2>5, <2>6, <2>7, <2>9 DEF CountsSound, ChoosePair
<1>12. RootIsComplete' /\ NeverStalls' /\ ExhaustedIsWhole'
  BY DEF MergeIInv, RootIsComplete, NeverStalls, ExhaustedIsWhole, ChoosePair,
         storage
<1>. QED  BY <1>8, <1>9, <1>10, <1>11, <1>12 DEF MergeIInv

\* A pair that is merged, whether its merge was stored before or is now.
LEMMA PairDoneStep ==
    ASSUME MergeIInv, NEW pq \in running, PairDone(pq, Merged(pq[1], pq[2])),
           stored' \in SUBSET Proofs, unwritten' \in SUBSET Proofs,
           \A r \in stored' \cup unwritten' : Known(r),
           stage = "merging",
           UNCHANGED <<root, exhausted, stage, proving, storing, count, next,
                       failure, callbackError, stalled, mergeFaults>>
    PROVE  MergeIInv'
<1>1. Merged(pq[1], pq[2]) \in Proofs /\ Known(Merged(pq[1], pq[2]))
  BY PairFacts, MergedKnown
<1>2. MergeTypeOK'
  <2>1. MergeTypeOK
    BY DEF MergeIInv
  <2>2. completed' \in Nat
    BY <2>1 DEF MergeTypeOK, PairDone
  <2>3. pending' \in SUBSET Proofs /\ running' \in SUBSET (Proofs \X Proofs)
    BY <1>1, <2>1 DEF MergeTypeOK, PairDone
  <2>. QED  BY <2>1, <2>2, <2>3 DEF MergeTypeOK
<1>3. ProofsKnown'
  <2>1. Held' = (Held \ {pq[1], pq[2]}) \cup {Merged(pq[1], pq[2])}
    BY HeldAfterPair
  <2>. QED  BY <1>1, <2>1 DEF MergeIInv, ProofsKnown
<1>4. ForestSound' /\ CountsSound'
  BY PairForest, PairCounts
<1>5. RootIsComplete' /\ NeverStalls' /\ ExhaustedIsWhole'
  BY DEF MergeIInv, RootIsComplete, NeverStalls, ExhaustedIsWhole
<1>. QED  BY <1>2, <1>3, <1>4, <1>5 DEF MergeIInv

LEMMA ReuseStep ==
    ASSUME MergeIInv, NEW pq \in running, Reuse(pq)
    PROVE  MergeIInv'
<1>1. PICK p \in stored : p.id = MergeIdFor(pq[1], pq[2]) /\ PairDone(pq, p)
  BY DEF Reuse
<1>2. p \in Proofs /\ Known(p)
  BY DEF MergeIInv, MergeTypeOK, ProofsKnown
<1>3. p = Merged(pq[1], pq[2])
  BY <1>1, <1>2, PairFacts, ReusedIsMerged
<1>4. PairDone(pq, Merged(pq[1], pq[2]))
  BY <1>1, <1>3
<1>5. /\ stored' \in SUBSET Proofs /\ unwritten' \in SUBSET Proofs
      /\ \A r \in stored' \cup unwritten' : Known(r)
  BY DEF MergeIInv, MergeTypeOK, ProofsKnown, Reuse, storage
<1>. QED  BY <1>4, <1>5, PairDoneStep DEF Reuse, storage

LEMMA MergeAnswerStep ==
    ASSUME MergeIInv, NEW pq \in running, MergeAnswer(pq)
    PROVE  MergeIInv'
<1>1. Merged(pq[1], pq[2]) \in Proofs /\ Known(Merged(pq[1], pq[2]))
  BY PairFacts, MergedKnown
<1>2. /\ stored' \in SUBSET Proofs /\ unwritten' \in SUBSET Proofs
      /\ \A r \in stored' \cup unwritten' : Known(r)
  BY <1>1, PersistStep DEF MergeAnswer
<1>. QED  BY <1>2, PairDoneStep DEF MergeAnswer

LEMMA MergeFailsStep ==
    ASSUME MergeIInv, NEW pq \in running, MergeFails(pq)
    PROVE  MergeIInv'
<1>1. Merged(pq[1], pq[2]) \in Proofs /\ Known(Merged(pq[1], pq[2]))
  BY PairFacts, MergedKnown
<1>2. /\ stored' \in SUBSET Proofs /\ unwritten' \in SUBSET Proofs
      /\ \A r \in stored' \cup unwritten' : Known(r)
  <2>1. CASE UNCHANGED <<stored, unwritten>>
    BY <2>1 DEF MergeIInv, MergeTypeOK, ProofsKnown
  <2>2. CASE Persist(Merged(pq[1], pq[2]), FALSE)
    BY <1>1, <2>2, PersistStep
  <2>. QED  BY <2>1, <2>2 DEF MergeFails
<1>3. Held' \subseteq Held
  BY DEF Held, MergeFails
<1>4. MergeTypeOK'
  <2>1. MergeTypeOK
    BY DEF MergeIInv
  <2>2. failure' \in BOOLEAN /\ failure'
    BY DEF MergeFails
  <2>3. mergeFaults' \in 0..MaxMergeFaults
    BY <2>1 DEF MergeTypeOK, MergeFails, MergeFault
  <2>. QED  BY <1>2, <2>1, <2>2, <2>3 DEF MergeTypeOK, MergeFails
<1>5. ProofsKnown'
  BY <1>2, <1>3 DEF MergeIInv, ProofsKnown
<1>6. ForestSound'
  <2>1. ForestTiles'
    BY <1>3 DEF MergeIInv, ForestSound, ForestTiles, MergeFails
  <2>2. \A p \in Held' : p.to < next'
    BY <1>3 DEF MergeIInv, ForestSound, MergeFails
  <2>. QED  BY <2>1, <2>2 DEF MergeIInv, ForestSound, MergeFails
<1>7. CountsSound'
  <2>1. IsFiniteSet(running')
    BY FS_RemoveElement DEF MergeIInv, CountsSound, MergeFails
  <2>. QED  BY <2>1 DEF MergeIInv, CountsSound, MergeFails
<1>8. RootIsComplete' /\ NeverStalls' /\ ExhaustedIsWhole'
  BY DEF MergeIInv, RootIsComplete, NeverStalls, ExhaustedIsWhole, MergeFails
<1>. QED  BY <1>4, <1>5, <1>6, <1>7, <1>8 DEF MergeIInv

-----------------------------------------------------------------------------
(* The end of a merge                                                      *)

\* A forest that tiles what was read, of which no two are neighbours, is one
\* proof of everything.
LEMMA OneTree ==
    ASSUME MergeIInv, Drained, ~failure
    PROVE  \E p \in pending :
              pending = {p} /\ p.from = 0 /\ p.to = count - 1
<1>1. /\ stage = "merging" /\ running = {}
      /\ next = count /\ MergeablePairs(pending) = {}
  BY DEF Drained
<1>2. count \in Nat /\ 1 <= count
  BY <1>1 DEF MergeIInv, MergeTypeOK, CountsSound
<1>3. Held = pending
  BY <1>1 DEF Held
<1>4. \A i \in 0..(count - 1) : \E p \in pending : p.from <= i /\ i <= p.to
  BY <1>1, <1>3 DEF MergeIInv, ForestSound, ForestTiles
<1>5. \A p \in pending : /\ p.from \in Nat /\ p.to \in Nat
                         /\ p.from <= p.to /\ p.to <= count - 1
  BY <1>1, <1>2, <1>3, HeldType
<1>6. PICK p \in pending : p.from <= 0 /\ 0 <= p.to
  BY <1>2, <1>4
<1>7. p.from = 0
  BY <1>5, <1>6
<1>8. p.to = count - 1
  <2>. SUFFICES ASSUME p.to # count - 1 PROVE FALSE
    OBVIOUS
  <2>1. p.to + 1 \in 0..(count - 1)
    BY <1>2, <1>5
  <2>2. PICK q \in pending : q.from <= p.to + 1 /\ p.to + 1 <= q.to
    BY <1>4, <2>1
  <2>3. q # p
    BY <1>5, <2>2
  <2>4. p.to < q.from \/ q.to < p.from
    BY <1>3, <2>3 DEF MergeIInv, ForestSound, ForestTiles
  <2>5. q.from = p.to + 1
    BY <1>5, <2>2, <2>4
  <2>6. <<p, q>> \in MergeablePairs(pending)
    BY <2>5 DEF MergeablePairs
  <2>. QED  BY <1>1, <2>6
<1>9. ASSUME NEW q \in pending
      PROVE  q = p
  <2>. SUFFICES ASSUME q # p PROVE FALSE
    OBVIOUS
  <2>1. p.to < q.from \/ q.to < p.from
    BY <1>3 DEF MergeIInv, ForestSound, ForestTiles
  <2>. QED  BY <1>2, <1>5, <1>7, <1>8, <2>1
<1>. QED  BY <1>7, <1>8, <1>9

LEMMA PublishStep == MergeIInv /\ Publish => MergeIInv'
<1>. SUFFICES ASSUME MergeIInv, Publish PROVE MergeIInv'
  OBVIOUS
<1>1. PICK p \in pending : pending = {p} /\ p.from = 0 /\ p.to = count - 1
  BY OneTree DEF Publish
<1>2. root' = p
  BY <1>1 DEF Publish
<1>3. completed = count - 1
  <2>1. running = {} /\ next = count /\ stage = "merging" /\ ~failure
    BY DEF Publish, Drained
  <2>2. Cardinality(running) = 0
    BY <2>1, FS_EmptySet
  <2>3. Cardinality(pending) = 1
    BY <1>1, FS_Singleton
  <2>. QED  BY <2>1, <2>2, <2>3 DEF MergeIInv, MergeTypeOK, CountsSound
<1>4. MergeTypeOK'
  <2>1. MergeTypeOK
    BY DEF MergeIInv
  <2>2. root' \in Proofs
    BY <1>2, <2>1 DEF MergeTypeOK
  <2>. QED  BY <2>1, <2>2 DEF MergeTypeOK, Publish, memory
<1>5. Held' = Held
  BY DEF Held, Publish, memory
<1>6. ProofsKnown'
  BY <1>5 DEF MergeIInv, ProofsKnown, Publish, memory
<1>7. ForestSound'
  BY <1>5 DEF MergeIInv, ForestSound, ForestTiles, Publish, memory
<1>8. CountsSound'
  BY DEF MergeIInv, CountsSound, Publish, memory
<1>9. RootIsComplete'
  BY <1>1, <1>2, <1>3 DEF RootIsComplete, Publish, memory
<1>10. NeverStalls' /\ ExhaustedIsWhole'
  BY DEF MergeIInv, NeverStalls, ExhaustedIsWhole, Publish
<1>. QED  BY <1>4, <1>6, <1>7, <1>8, <1>9, <1>10 DEF MergeIInv

LEMMA MergeThrowsStep == MergeIInv /\ MergeThrows => MergeIInv'
<1>. SUFFICES ASSUME MergeIInv, MergeThrows PROVE MergeIInv'
  OBVIOUS
<1>1. failure
  <2>. SUFFICES ASSUME ~failure PROVE FALSE
    OBVIOUS
  <2>1. \E p : pending = {p}
    BY OneTree DEF MergeThrows
  <2>. QED  BY <2>1, FS_Singleton DEF MergeThrows
<1>2. ~stalled /\ ~stalled' /\ stalled' \in BOOLEAN
  BY <1>1 DEF MergeIInv, NeverStalls, MergeThrows
<1>3. MergeTypeOK'
  BY <1>2 DEF MergeIInv, MergeTypeOK, MergeThrows, storage, memory
<1>4. Held' = Held
  BY DEF Held, MergeThrows, memory
<1>5. ProofsKnown'
  BY <1>4 DEF MergeIInv, ProofsKnown, MergeThrows, storage, memory
<1>6. ForestSound'
  BY <1>4 DEF MergeIInv, ForestSound, ForestTiles, MergeThrows, memory
<1>7. CountsSound'
  BY DEF MergeIInv, CountsSound, MergeThrows, memory
<1>8. RootIsComplete' /\ NeverStalls' /\ ExhaustedIsWhole'
  BY <1>2 DEF MergeIInv, RootIsComplete, NeverStalls, ExhaustedIsWhole, MergeThrows,
              storage
<1>. QED  BY <1>3, <1>5, <1>6, <1>7, <1>8 DEF MergeIInv

-----------------------------------------------------------------------------
(* exhaust, crash *)

LEMMA ExhaustStep == MergeIInv /\ Exhaust => MergeIInv'
<1>. SUFFICES ASSUME MergeIInv, Exhaust PROVE MergeIInv'
  OBVIOUS
<1>1. MergeTypeOK'
  <2>1. MergeTypeOK
    BY DEF MergeIInv
  <2>2. exhausted' \in Proofs \cup {NoProof}
    BY <2>1 DEF MergeTypeOK, Exhaust
  <2>. QED  BY <2>1, <2>2 DEF MergeTypeOK, Exhaust, memory
<1>2. Held' = Held
  BY DEF Held, Exhaust, memory
<1>3. ProofsKnown'
  BY <1>2 DEF MergeIInv, ProofsKnown, Exhaust, memory
<1>4. ForestSound'
  BY <1>2 DEF MergeIInv, ForestSound, ForestTiles, Exhaust, memory
<1>5. CountsSound'
  BY DEF MergeIInv, CountsSound, Exhaust, memory
<1>6. RootIsComplete' /\ NeverStalls'
  BY DEF MergeIInv, RootIsComplete, NeverStalls, Exhaust
<1>7. ExhaustedIsWhole'
  BY DEF MergeIInv, ExhaustedIsWhole, Exhaust, RootIsWhole
<1>. QED  BY <1>1, <1>3, <1>4, <1>5, <1>6, <1>7 DEF MergeIInv

LEMMA StartOverStep == MergeIInv /\ (StartDigest \/ Crash) => MergeIInv'
<1>. SUFFICES ASSUME MergeIInv, StartDigest \/ Crash PROVE MergeIInv'
  OBVIOUS
<1>1. count' \in 0..N /\ mergeFaults' \in 0..MaxMergeFaults
  BY DEF MergeIInv, MergeTypeOK, StartDigest, Crash, MergeFault
<1>2. CASE StartDigest
  BY <1>1, <1>2, BeginStep DEF StartDigest
<1>3. CASE Crash
  BY <1>1, <1>3, BeginStep DEF Crash
<1>. QED  BY <1>2, <1>3

-----------------------------------------------------------------------------
(* Theorems *)

LEMMA InitMergeIInv == MergeInit => MergeIInv
<1>. SUFFICES ASSUME MergeInit PROVE MergeIInv
  OBVIOUS
<1>1. MergeTypeOK
  <2>1. failure \in BOOLEAN /\ callbackError \in BOOLEAN /\ stalled \in BOOLEAN
    BY DEF MergeInit
  <2>. QED  BY <2>1 DEF MergeInit, MergeTypeOK
<1>2. Held = {}
  BY DEF MergeInit, Held
<1>3. ProofsKnown
  BY <1>2 DEF MergeInit, ProofsKnown
<1>4. ForestSound
  BY <1>2 DEF MergeInit, ForestSound, ForestTiles
<1>5. CountsSound
  BY FS_EmptySet DEF MergeInit, CountsSound
<1>6. RootIsComplete /\ NeverStalls /\ ExhaustedIsWhole
  BY DEF MergeInit, RootIsComplete, NeverStalls, ExhaustedIsWhole
<1>. QED  BY <1>1, <1>3, <1>4, <1>5, <1>6 DEF MergeIInv

LEMMA NextMergeIInv == MergeIInv /\ [MergeNext]_mergeVars => MergeIInv'
<1>. SUFFICES ASSUME MergeIInv, [MergeNext]_mergeVars PROVE MergeIInv'
  OBVIOUS
<1>1. CASE UNCHANGED mergeVars
  BY <1>1 DEF MergeIInv, MergeTypeOK, ProofsKnown, Known, Held, ForestSound,
              ForestTiles, CountsSound, RootIsComplete, NeverStalls,
              ExhaustedIsWhole, mergeVars, storage, memory
<1>2. CASE StartDigest \/ Crash
  BY <1>2, StartOverStep
<1>3. CASE DigestNext
  BY <1>3, DigestNextStep
<1>4. CASE DigestEnds
  BY <1>4, DigestEndsStep
<1>5. ASSUME NEW i \in Traces, DigestAnswer(i) \/ DigestTaskFails(i)
      PROVE  MergeIInv'
  BY <1>5, DigestTaskStep
<1>6. ASSUME NEW i \in Traces, NEW ok \in BOOLEAN, DigestStore(i, ok)
      PROVE  MergeIInv'
  BY <1>6, DigestStoreStep
<1>7. CASE StartMerge
  BY <1>7, StartMergeStep
<1>8. CASE ReadBaseProof
  BY <1>8, ReadBaseProofStep
<1>9. CASE ChoosePair
  BY <1>9, ChoosePairStep
<1>10. ASSUME NEW pq \in running, Reuse(pq)
       PROVE  MergeIInv'
  BY <1>10, ReuseStep
<1>11. ASSUME NEW pq \in running, MergeAnswer(pq)
       PROVE  MergeIInv'
  BY <1>11, MergeAnswerStep
<1>12. ASSUME NEW pq \in running, MergeFails(pq)
       PROVE  MergeIInv'
  BY <1>12, MergeFailsStep
<1>13. CASE Publish
  BY <1>13, PublishStep
<1>14. CASE MergeThrows
  BY <1>14, MergeThrowsStep
<1>15. CASE Exhaust
  BY <1>15, ExhaustStep
<1>. QED
  BY <1>1, <1>2, <1>3, <1>4, <1>5, <1>6, <1>7, <1>8, <1>9, <1>10, <1>11,
     <1>12, <1>13, <1>14, <1>15 DEF MergeNext

\* Every proof covers what its id says, the forest of a merge tiles the base
\* proofs it has read, and every proof is accounted for.
THEOREM MergeInductive == MergeSpec => []MergeIInv
<1>. QED  BY InitMergeIInv, NextMergeIInv, PTL DEF MergeSpec

\* What an interrupted run has left in storage covers what its id says, so
\* that a run that pairs in another order may reuse it (mergePair).
THEOREM StorageIsReusable == MergeSpec => []StoredCoversItsId
<1>1. MergeIInv => StoredCoversItsId
  BY DEF MergeIInv, ProofsKnown, StoredCoversItsId
<1>. QED  BY <1>1, MergeInductive, PTL

\* The proofs that a merge holds never overlap and leave nothing out that it
\* has read, whatever it reuses and in whatever order its merges end
\* (pumpOnce, mergePair).
THEOREM MergeTiles == MergeSpec => []ForestTiles
<1>1. MergeIInv => ForestTiles
  BY DEF MergeIInv, ForestSound
<1>. QED  BY <1>1, MergeInductive, PTL

\* A published root covers every base proof that merge() counted, after
\* exactly as many merges as that takes.
THEOREM RootCoversAll == MergeSpec => []RootIsComplete
<1>1. MergeIInv => RootIsComplete
  BY DEF MergeIInv
<1>. QED  BY <1>1, MergeInductive, PTL

\* "Merge stalled" is never thrown for proofs that digest has made.
THEOREM MergeNeverStalls == MergeSpec => []NeverStalls
<1>1. MergeIInv => NeverStalls
  BY DEF MergeIInv
<1>. QED  BY <1>1, MergeInductive, PTL

-----------------------------------------------------------------------------
(* TaskQueue                                                               *)

HIDE MergeAssumption
USE TaskQueueAssumption

-----------------------------------------------------------------------------
(* The invariant has two halves: what the queue and the prover keep, and   *)
(* what the workers keep.                                                  *)

QueueOK ==
    /\ phase \in [Tasks -> {"new", "added", "listening", "done", "failed"}]
    /\ result \in [Tasks -> Tasks \cup {NoTask}]
    /\ job \in [Tasks -> {"none", "waiting", "active", "completed", "failed"}]
    /\ attempts \in [Tasks -> 0..Attempts]
    /\ lock \in [Tasks -> Workers \cup {NoWorker}]
    /\ ended \in SUBSET (Tasks \X ({"failed"} \cup Tasks))
    /\ JobsSound
    /\ AnswersSound

WorkersOK ==
    /\ doing \in [Workers -> Doing]
    /\ subprocess \in [Workers -> Pids \cup {0}]
    /\ children \in [Workers -> [Pids -> Child]]
    /\ ChildrenSound

LEMMA Halves == IInv <=> QueueOK /\ WorkersOK /\ faults \in 0..MaxFaults
BY DEF IInv, TypeOK, QueueOK, WorkersOK

LEMMA QueueFrame ==
    ASSUME QueueOK, UNCHANGED prover, UNCHANGED queue
    PROVE  QueueOK'
BY DEF QueueOK, JobsSound, AnswersSound, ResultIsOwn, prover, queue

LEMMA WorkersFrame ==
    ASSUME WorkersOK, UNCHANGED workers
    PROVE  WorkersOK'
BY DEF WorkersOK, ChildrenSound, WorkerSound, workers

\* A fault or none: the counter stays within its bound.
LEMMA FaultType ==
    faults \in 0..MaxFaults /\ (Fault \/ UNCHANGED faults)
        => faults' \in 0..MaxFaults
BY DEF Fault

-----------------------------------------------------------------------------
(* The queue *)

\* The end of an attempt, with or without the lock.
LEMMA AttemptFailedStep ==
    ASSUME QueueOK, NEW w \in Workers, NEW t \in Tasks,
           AttemptFailed(w, t), UNCHANGED prover
    PROVE  QueueOK'
<1>1. CASE lock[t] # w
  BY <1>1, QueueFrame DEF AttemptFailed
<1>2. CASE lock[t] = w
  <2>1. job[t] = "active" /\ attempts[t] < Attempts /\ phase[t] # "new"
    BY <1>2 DEF QueueOK, JobsSound
  <2>2. attempts[t] + 1 \in 0..Attempts
    BY <2>1 DEF QueueOK
  <2>3. /\ attempts' = [attempts EXCEPT ![t] = @ + 1]
        /\ lock' = [lock EXCEPT ![t] = NoWorker]
        /\ \/ /\ attempts[t] + 1 < Attempts
              /\ job' = [job EXCEPT ![t] = "waiting"]
              /\ ended' = ended
           \/ /\ job' = [job EXCEPT ![t] = "failed"]
              /\ ended' = ended \cup {<<t, "failed">>}
        /\ phase' = phase /\ result' = result
    BY <1>2 DEF AttemptFailed, prover
  <2>4. JobsSound'
    BY <2>1, <2>2, <2>3 DEF QueueOK, JobsSound
  <2>5. AnswersSound'
    BY <2>3 DEF QueueOK, AnswersSound, ResultIsOwn
  <2>. QED  BY <2>2, <2>3, <2>4, <2>5 DEF QueueOK
<1>. QED  BY <1>1, <1>2

LEMMA CompletedStep ==
    ASSUME QueueOK, NEW w \in Workers, NEW t \in Tasks,
           Completed(w, t, t), UNCHANGED prover
    PROVE  QueueOK'
<1>1. CASE lock[t] # w
  BY <1>1, QueueFrame DEF Completed
<1>2. CASE lock[t] = w
  <2>1. phase[t] # "new"
    BY <1>2 DEF QueueOK, JobsSound
  <2>2. /\ job' = [job EXCEPT ![t] = "completed"]
        /\ lock' = [lock EXCEPT ![t] = NoWorker]
        /\ ended' = ended \cup {<<t, t>>}
        /\ attempts' = attempts /\ phase' = phase /\ result' = result
    BY <1>2 DEF Completed, prover
  <2>3. JobsSound'
    BY <2>1, <2>2 DEF QueueOK, JobsSound
  <2>4. AnswersSound'
    BY <2>2 DEF QueueOK, AnswersSound, ResultIsOwn
  <2>. QED  BY <2>2, <2>3, <2>4 DEF QueueOK
<1>. QED  BY <1>1, <1>2

LEMMA AddTaskStep ==
    ASSUME QueueOK, NEW t \in Tasks, AddTask(t)
    PROVE  QueueOK'
<1>1. /\ phase[t] = "new"
      /\ phase' = [phase EXCEPT ![t] = "added"]
      /\ job' = [job EXCEPT ![t] = "waiting"]
      /\ result' = result /\ attempts' = attempts
      /\ lock' = lock /\ ended' = ended
  BY DEF AddTask
<1>2. JobsSound'
  BY <1>1 DEF QueueOK, JobsSound
<1>3. AnswersSound'
  BY <1>1 DEF QueueOK, AnswersSound, ResultIsOwn
<1>. QED  BY <1>1, <1>2, <1>3 DEF QueueOK

LEMMA ListenStep ==
    ASSUME QueueOK, NEW t \in Tasks, Listen(t)
    PROVE  QueueOK'
<1>1. /\ phase[t] = "added"
      /\ phase' = [phase EXCEPT ![t] = "listening"]
      /\ result' = result /\ UNCHANGED queue
  BY DEF Listen
<1>2. JobsSound'
  BY <1>1 DEF QueueOK, JobsSound, queue
<1>3. AnswersSound'
  BY <1>1 DEF QueueOK, AnswersSound, ResultIsOwn, queue
<1>. QED  BY <1>1, <1>2, <1>3 DEF QueueOK, queue

\* An announcement that is heard brings the task's own output, or failure.
LEMMA NotifyStep ==
    ASSUME QueueOK, NEW t \in Tasks, Notify(t)
    PROVE  QueueOK'
<1>1. PICK how \in {"failed"} \cup Tasks :
         /\ <<t, how>> \in ended
         /\ ended' = ended \ {<<t, how>>}
         /\ IF phase[t] # "listening" THEN UNCHANGED prover
            ELSE IF how = "failed"
            THEN /\ phase' = [phase EXCEPT ![t] = "failed"]
                 /\ UNCHANGED result
            ELSE /\ phase' = [phase EXCEPT ![t] = "done"]
                 /\ result' = [result EXCEPT ![t] = how]
         /\ UNCHANGED <<job, attempts, lock>>
  BY DEF Notify
<1>2. how = "failed" \/ how = t
  <2>1. <<t, how>>[2] \in {"failed", <<t, how>>[1]}
    BY <1>1 DEF QueueOK, AnswersSound
  <2>. QED  BY <2>1
<1>3. /\ phase' \in [Tasks -> {"new", "added", "listening", "done", "failed"}]
      /\ result' \in [Tasks -> Tasks \cup {NoTask}]
      /\ \A u \in Tasks : phase'[u] = "new" => phase[u] = "new"
  BY <1>1, <1>2 DEF QueueOK, prover
<1>4. JobsSound'
  BY <1>1, <1>3 DEF QueueOK, JobsSound
<1>5. AnswersSound'
  <2>1. \A e \in ended' : e[2] \in {"failed", e[1]}
    BY <1>1 DEF QueueOK, AnswersSound
  <2>2. ResultIsOwn'
    BY <1>1, <1>2, <1>3 DEF QueueOK, AnswersSound, ResultIsOwn, prover
  <2>. QED  BY <2>1, <2>2 DEF AnswersSound
<1>. QED  BY <1>1, <1>3, <1>4, <1>5 DEF QueueOK

LEMMA StallStep ==
    ASSUME QueueOK, NEW t \in Tasks, Stall(t)
    PROVE  QueueOK'
<1>1. /\ job[t] = "active"
      /\ job' = [job EXCEPT ![t] = "waiting"]
      /\ lock' = [lock EXCEPT ![t] = NoWorker]
      /\ attempts' = attempts /\ ended' = ended
      /\ phase' = phase /\ result' = result
  BY DEF Stall, prover
<1>2. JobsSound'
  BY <1>1 DEF QueueOK, JobsSound
<1>3. AnswersSound'
  BY <1>1 DEF QueueOK, AnswersSound, ResultIsOwn
<1>. QED  BY <1>1, <1>2, <1>3 DEF QueueOK

LEMMA RestartStep ==
    ASSUME QueueOK, Restart
    PROVE  QueueOK'
<1>1. /\ phase' = [t \in Tasks |-> IF phase[t] = "done" THEN "done" ELSE "new"]
      /\ job' = [t \in Tasks |-> "none"]
      /\ attempts' = [t \in Tasks |-> 0]
      /\ lock' = [t \in Tasks |-> NoWorker]
      /\ ended' = {} /\ result' = result
  BY DEF Restart
<1>2. JobsSound'
  BY <1>1 DEF QueueOK, JobsSound
<1>3. AnswersSound'
  BY <1>1 DEF QueueOK, AnswersSound, ResultIsOwn
<1>. QED  BY <1>1, <1>2, <1>3 DEF QueueOK

\* A job that is taken has attempts left.
LEMMA TakenStep ==
    ASSUME QueueOK, NEW w \in Workers, NEW t \in Tasks,
           job[t] = "waiting",
           job' = [job EXCEPT ![t] = "active"],
           lock' = [lock EXCEPT ![t] = w],
           UNCHANGED <<phase, result, attempts, ended>>
    PROVE  QueueOK'
<1>1. JobsSound'
  BY DEF QueueOK, JobsSound
<1>2. AnswersSound'
  BY DEF QueueOK, AnswersSound, ResultIsOwn
<1>. QED  BY <1>1, <1>2 DEF QueueOK

-----------------------------------------------------------------------------
(* The workers *)

\* A step of one worker leaves the others sound.
LEMMA WorkerStep ==
    ASSUME WorkersOK, NEW w \in Workers, NEW d \in Doing,
           NEW s \in Pids \cup {0}, NEW c \in [Pids -> Child],
           doing' = [doing EXCEPT ![w] = d],
           subprocess' = [subprocess EXCEPT ![w] = s],
           children' = [children EXCEPT ![w] = c],
           WorkerSound(w)'
    PROVE  WorkersOK'
<1>1. ASSUME NEW o \in Workers \ {w} PROVE WorkerSound(o)'
  <2>1. doing'[o] = doing[o] /\ subprocess'[o] = subprocess[o]
           /\ children'[o] = children[o]
    BY DEF WorkersOK
  <2>2. WorkerSound(o)
    BY DEF WorkersOK, ChildrenSound
  <2>. QED  BY <2>1, <2>2 DEF WorkerSound
<1>. QED  BY <1>1 DEF WorkersOK, ChildrenSound

\* What a step of w leads to, in terms of its own parts.
LEMMA WorkerTypes ==
    ASSUME WorkersOK, NEW w \in Workers
    PROVE  /\ doing[w] \in Doing
           /\ subprocess[w] \in Pids \cup {0}
           /\ children[w] \in [Pids -> Child]
           /\ WorkerSound(w)
           /\ doing = [doing EXCEPT ![w] = doing[w]]
           /\ subprocess = [subprocess EXCEPT ![w] = subprocess[w]]
           /\ children = [children EXCEPT ![w] = children[w]]
BY DEF WorkersOK, ChildrenSound

LEMMA TakeWithChildStep ==
    ASSUME WorkersOK, NEW w \in Workers, NEW t \in Tasks,
           TakeWithChild(w, t)
    PROVE  WorkersOK'
<1>. DEFINE p == subprocess[w]
            d == [step |-> "running", task |-> t, pid |-> p]
            c == IF Disconnected(w) THEN children[w]
                 ELSE [children[w] EXCEPT ![p].work = @ \cup {t}]
<1>1. /\ doing[w] = Idle /\ p # 0
      /\ doing' = [doing EXCEPT ![w] = d]
      /\ subprocess' = subprocess
      /\ children' = [children EXCEPT ![w] = c]
  BY WorkerTypes DEF TakeWithChild
<1>2. p \in Pids /\ children[w] \in [Pids -> Child] /\ WorkerSound(w)
  BY <1>1, WorkerTypes
<1>3. children[w][p].work = {}
  BY <1>1, <1>2 DEF WorkerSound, Idle
<1>4. d \in Doing /\ c \in [Pids -> Child]
  BY <1>2 DEF Doing, Child
<1>5. /\ c[p].work \subseteq {t}
      /\ c[p].state = children[w][p].state
      /\ \A q \in Pids \ {p} : c[q] = children[w][q]
  BY <1>2, <1>3 DEF Child
<1>. HIDE DEF d, c, p
<1>6. WorkerSound(w)'
  <2>1. doing'[w] = d /\ children'[w] = c /\ subprocess'[w] = p
    BY <1>1 DEF WorkersOK, p
  <2>2. d.step = "running" /\ d.task = t /\ d.pid = p
    BY DEF d
  <2>3. c[p].state # "none"
    BY <1>1, <1>2, <1>5 DEF WorkerSound, p
  <2>4. \A q \in Pids :
           /\ c[q].state = "none" => c[q].work = {}
           /\ \A u, v \in c[q].work : u = v
    BY <1>2, <1>5, <2>3 DEF WorkerSound
  <2>. QED  BY <1>2, <1>5, <2>1, <2>2, <2>3, <2>4 DEF WorkerSound
<1>7. subprocess' = [subprocess EXCEPT ![w] = p]
  BY <1>1, WorkerTypes DEF p
<1>. QED  BY <1>1, <1>2, <1>4, <1>6, <1>7, WorkerStep

LEMMA TakeAndForkStep ==
    ASSUME WorkersOK, NEW w \in Workers, NEW t \in Tasks, TakeAndFork(w, t)
    PROVE  WorkersOK'
<1>1. PICK p \in Pids :
         /\ children[w][p].state = "none"
         /\ children' = [children EXCEPT ![w][p].state = "starting"]
         /\ subprocess' = [subprocess EXCEPT ![w] = p]
         /\ doing' = [doing EXCEPT ![w] =
               [step |-> "ensuring", task |-> t, pid |-> p]]
  BY DEF TakeAndFork
<1>. DEFINE d == [step |-> "ensuring", task |-> t, pid |-> p]
            c == [children[w] EXCEPT ![p].state = "starting"]
<1>2. children[w] \in [Pids -> Child] /\ WorkerSound(w)
  BY WorkerTypes
<1>3. d \in Doing /\ c \in [Pids -> Child] /\ children' = [children EXCEPT ![w] = c]
  BY <1>1, <1>2 DEF Doing, Child
<1>4. /\ children[w][p].work = {} /\ c[p].state = "starting"
      /\ \A q \in Pids : c[q].work = children[w][q].work
      /\ \A q \in Pids \ {p} : c[q] = children[w][q]
  BY <1>1, <1>2 DEF Child, WorkerSound
<1>5. doing' = [doing EXCEPT ![w] = d]
  BY <1>1
<1>6. d.step = "ensuring" /\ d.task = t /\ d.pid = p
  OBVIOUS
<1>. HIDE DEF d, c
<1>7. WorkerSound(w)'
  <2>1. doing'[w] = d /\ children'[w] = c /\ subprocess'[w] = p
    BY <1>1, <1>3, <1>5 DEF WorkersOK
  <2>. QED  BY <1>2, <1>4, <1>6, <2>1 DEF WorkerSound
<1>. QED  BY <1>1, <1>3, <1>5, <1>7, WorkerStep

\* Children lose work, the worker may stop to await one or to refer to one.
Shrunk(w, d, s, c) ==
    /\ d \in {doing[w], Idle}
    /\ s \in {0, subprocess[w]}
    /\ c \in [Pids -> Child]
    /\ \A q \in Pids :
          /\ c[q].work \subseteq children[w][q].work
          /\ c[q].state = "none" => c[q].work = {}
    /\ s # 0 => c[s].state # "none" /\ (d = Idle => c[s].work = {})
    /\ doing' = [doing EXCEPT ![w] = d]
    /\ subprocess' = [subprocess EXCEPT ![w] = s]
    /\ children' = [children EXCEPT ![w] = c]

LEMMA WorkShrinks ==
    ASSUME WorkersOK, NEW w \in Workers, NEW d, NEW s, NEW c,
           Shrunk(w, d, s, c)
    PROVE  WorkersOK'
<1>. USE DEF Shrunk
<1>1. /\ doing[w] \in Doing /\ subprocess[w] \in Pids \cup {0}
      /\ WorkerSound(w)
  BY WorkerTypes
<1>2. d \in Doing /\ s \in Pids \cup {0}
  BY <1>1 DEF Doing, Idle
<1>3. doing'[w] = d /\ subprocess'[w] = s /\ children'[w] = c
  BY DEF WorkersOK
<1>4. WorkerSound(w)'
  <2>1. CASE d = Idle
    BY <1>1, <1>3, <2>1 DEF WorkerSound, Idle
  <2>2. CASE d = doing[w] /\ d # Idle
    <3>1. d.step # "idle"
      BY <1>1, <2>2 DEF WorkerSound
    <3>2. /\ d.task \in Tasks /\ d.pid \in Pids
          /\ s \in {0, d.pid}
          /\ d.step = "ensuring" => children[w][d.pid].work = {}
          /\ d.step = "running" => children[w][d.pid].work \subseteq {d.task}
      BY <1>1, <2>2, <3>1 DEF WorkerSound
    <3>3. /\ d.step = "ensuring" => c[d.pid].work = {}
          /\ d.step = "running" => c[d.pid].work \subseteq {d.task}
      BY <3>2
    <3>4. \A q \in Pids : \A t, u \in c[q].work : t = u
      BY <1>1 DEF WorkerSound
    <3>. QED  BY <1>3, <3>1, <3>2, <3>3, <3>4 DEF WorkerSound
  <2>. QED  BY <2>1, <2>2
<1>. QED  BY <1>2, <1>4, WorkerStep

\* A child takes up its work, or it turns out that it was sent none.
LEMMA ReadyStep ==
    ASSUME QueueOK, WorkersOK, NEW w \in Workers, NEW p \in Pids, Ready(w, p)
    PROVE  QueueOK' /\ WorkersOK'
<1>. DEFINE forked == [children EXCEPT ![w][p].state = "ready"]
            c == [children[w] EXCEPT ![p].state = "ready"]
            t == doing[w].task
<1>1. /\ children[w] \in [Pids -> Child] /\ WorkerSound(w)
      /\ doing[w] \in Doing /\ subprocess[w] \in Pids \cup {0}
  BY WorkerTypes
<1>2. /\ c \in [Pids -> Child] /\ forked = [children EXCEPT ![w] = c]
      /\ \A q \in Pids : c[q].work = children[w][q].work
      /\ \A q \in Pids : c[q].state = "none" => c[q].work = {}
  BY <1>1 DEF Child, WorkerSound
<1>3. UNCHANGED prover /\ subprocess' = [subprocess EXCEPT ![w] = subprocess[w]]
  BY WorkerTypes DEF Ready
<1>7. subprocess[w] # 0 => c[subprocess[w]].state # "none"
  BY <1>1, <1>2 DEF WorkerSound, Child
<1>4. CASE doing[w].step = "ensuring" /\ doing[w].pid = p /\ subprocess[w] = 0
  <2>1. AttemptFailed(w, t) /\ doing' = [doing EXCEPT ![w] = Idle]
           /\ children' = forked
    BY <1>4 DEF Ready, Send
  <2>2. t \in Tasks
    BY <1>1, <1>4 DEF WorkerSound
  <2>3. QueueOK'
    BY <1>3, <2>1, <2>2, AttemptFailedStep
  <2>4. children' = [children EXCEPT ![w] = c]
    BY <1>2, <2>1
  <2>5. subprocess' = [subprocess EXCEPT ![w] = 0]
    BY <1>3, <1>4
  <2>. HIDE DEF c
  <2>7. Shrunk(w, Idle, 0, c)
    BY <1>2, <2>1, <2>4, <2>5 DEF Shrunk
  <2>6. WorkersOK'
    BY <2>7, WorkShrinks
  <2>. QED  BY <2>3, <2>6
<1>5. CASE doing[w].step = "ensuring" /\ doing[w].pid = p /\ subprocess[w] # 0
  <2>1. subprocess[w] = p /\ t \in Tasks /\ children[w][p].work = {}
    BY <1>1, <1>5 DEF WorkerSound
  <2>. DEFINE d == [step |-> "running", task |-> t, pid |-> p]
              e == [c EXCEPT ![p].work = @ \cup {t}]
  <2>2. /\ UNCHANGED queue
        /\ doing' = [doing EXCEPT ![w] = d]
        /\ children' = [forked EXCEPT ![w][p].work = @ \cup {t}]
    <3>1. forked[w][p].state = "ready"
      BY <1>1, <1>2 DEF WorkersOK, Child
    <3>. QED  BY <1>5, <2>1, <3>1 DEF Ready, Send
  <2>3. children' = [children EXCEPT ![w] = e]
    <3>1. forked = [children EXCEPT ![w] = c] /\ forked[w] = c
      BY <1>2 DEF WorkersOK
    <3>2. [forked EXCEPT ![w][p].work = @ \cup {t}]
            = [forked EXCEPT ![w] = [c EXCEPT ![p].work = @ \cup {t}]]
      BY <3>1
    <3>3. \A x : [forked EXCEPT ![w] = x] = [children EXCEPT ![w] = x]
      BY <3>1 DEF WorkersOK
    <3>. HIDE DEF c, forked
    <3>. QED  BY <2>2, <3>2, <3>3
  <2>4. e \in [Pids -> Child] /\ d \in Doing
    BY <1>1, <1>2, <2>1 DEF Child, Doing
  <2>5. /\ e[p].work \subseteq {t}
        /\ e[p].state = "ready"
        /\ \A q \in Pids \ {p} : e[q] = children[w][q]
    BY <1>1, <1>2, <2>1 DEF Child
  <2>6. d.step = "running" /\ d.task = t /\ d.pid = p
    OBVIOUS
  <2>. HIDE DEF c, d, e, forked
  <2>7. WorkerSound(w)'
    <3>1. doing'[w] = d /\ children'[w] = e /\ subprocess'[w] = p
      BY <1>3, <2>1, <2>2, <2>3 DEF WorkersOK
    <3>. QED  BY <1>1, <2>1, <2>5, <2>6, <3>1 DEF WorkerSound
  <2>8. WorkersOK'
    BY <1>1, <1>3, <2>2, <2>3, <2>4, <2>7, WorkerStep
  <2>. QED  BY <1>3, <2>2, <2>8, QueueFrame
<1>6. CASE ~(doing[w].step = "ensuring" /\ doing[w].pid = p)
  <2>1. children' = forked /\ UNCHANGED <<queue, doing>>
    BY <1>6 DEF Ready
  <2>2. doing' = [doing EXCEPT ![w] = doing[w]]
    BY <2>1, WorkerTypes
  <2>3. doing[w] = Idle /\ subprocess[w] # 0 => c[subprocess[w]].work = {}
    BY <1>1, <1>2 DEF WorkerSound, Idle
  <2>5. children' = [children EXCEPT ![w] = c]
    BY <1>2, <2>1
  <2>. HIDE DEF c
  <2>6. Shrunk(w, doing[w], subprocess[w], c)
    BY <1>2, <1>3, <1>7, <2>2, <2>3, <2>5 DEF Shrunk
  <2>4. WorkersOK'
    BY <2>6, WorkShrinks
  <2>. QED  BY <1>3, <2>1, <2>4, QueueFrame
<1>. QED  BY <1>4, <1>5, <1>6

\* What a child computes for the task that its worker awaits is that task.
LEMMA AnswerStep ==
    ASSUME QueueOK, WorkersOK, NEW w \in Workers, NEW p \in Pids,
           NEW t \in Tasks, Answer(w, p, t)
    PROVE  QueueOK' /\ WorkersOK'
<1>. DEFINE c == [children[w] EXCEPT ![p].work = @ \ {t}]
<1>1. /\ children[w] \in [Pids -> Child] /\ WorkerSound(w)
      /\ doing[w] \in Doing /\ subprocess[w] \in Pids \cup {0}
  BY WorkerTypes
<1>2. /\ c \in [Pids -> Child] /\ children' = [children EXCEPT ![w] = c]
      /\ \A q \in Pids : c[q].work \subseteq children[w][q].work
      /\ \A q \in Pids : c[q].state = "none" => c[q].work = {}
      /\ subprocess[w] # 0 => c[subprocess[w]].state # "none"
      /\ c[p].work = children[w][p].work \ {t}
  BY <1>1 DEF Answer, Child, WorkerSound
<1>3. /\ UNCHANGED prover /\ t \in children[w][p].work
      /\ subprocess' = [subprocess EXCEPT ![w] = subprocess[w]]
  BY WorkerTypes DEF Answer
<1>4. CASE doing[w].step = "running" /\ doing[w].pid = p
  <2>1. /\ Completed(w, doing[w].task, t)
        /\ doing' = [doing EXCEPT ![w] = Idle]
    BY <1>4 DEF Answer
  <2>2. children[w][p].work \subseteq {doing[w].task} /\ subprocess[w] \in {0, p}
    BY <1>1, <1>4 DEF WorkerSound
  <2>3. doing[w].task = t /\ c[p].work = {}
    BY <1>2, <1>3, <2>2
  <2>4. QueueOK'
    BY <1>3, <2>1, <2>3, CompletedStep
  <2>. HIDE DEF c
  <2>5. Shrunk(w, Idle, subprocess[w], c)
    BY <1>2, <1>3, <2>1, <2>2, <2>3 DEF Shrunk
  <2>. QED  BY <2>4, <2>5, WorkShrinks
<1>5. CASE ~(doing[w].step = "running" /\ doing[w].pid = p)
  <2>1. UNCHANGED queue /\ doing' = [doing EXCEPT ![w] = doing[w]]
    BY <1>5, WorkerTypes DEF Answer
  <2>2. doing[w] = Idle /\ subprocess[w] # 0 => c[subprocess[w]].work = {}
    BY <1>1, <1>2 DEF WorkerSound, Idle
  <2>. HIDE DEF c
  <2>3. Shrunk(w, doing[w], subprocess[w], c)
    BY <1>2, <1>3, <2>1, <2>2 DEF Shrunk
  <2>. QED  BY <1>3, <2>1, <2>3, QueueFrame, WorkShrinks
<1>. QED  BY <1>4, <1>5

LEMMA TaskErrorStep ==
    ASSUME QueueOK, WorkersOK, NEW w \in Workers, TaskError(w)
    PROVE  QueueOK' /\ WorkersOK'
<1>. DEFINE p == doing[w].pid
            t == doing[w].task
            c == [children[w] EXCEPT ![p].work = @ \ {t}]
<1>1. /\ children[w] \in [Pids -> Child] /\ WorkerSound(w)
      /\ doing[w] \in Doing /\ subprocess[w] \in Pids \cup {0}
  BY WorkerTypes
<1>2. /\ p \in Pids /\ t \in Tasks /\ subprocess[w] \in {0, p}
      /\ children[w][p].work \subseteq {t}
  BY <1>1 DEF TaskError, WorkerSound
<1>3. /\ c \in [Pids -> Child] /\ children' = [children EXCEPT ![w] = c]
      /\ \A q \in Pids : c[q].work \subseteq children[w][q].work
      /\ \A q \in Pids : c[q].state = "none" => c[q].work = {}
      /\ subprocess[w] # 0 => c[subprocess[w]].state # "none"
      /\ c[p].work = {}
  BY <1>1, <1>2 DEF TaskError, Child, WorkerSound
<1>4. /\ UNCHANGED prover /\ AttemptFailed(w, t)
      /\ doing' = [doing EXCEPT ![w] = Idle]
      /\ subprocess' = [subprocess EXCEPT ![w] = subprocess[w]]
  BY WorkerTypes DEF TaskError
<1>5. QueueOK'
  BY <1>2, <1>4, AttemptFailedStep
<1>. HIDE DEF c, p
<1>6. Shrunk(w, Idle, subprocess[w], c)
  BY <1>2, <1>3, <1>4 DEF Shrunk
<1>. QED  BY <1>5, <1>6, WorkShrinks

\* The child that a worker gave up on is killed before the next task.
LEMMA TimeoutStep ==
    ASSUME QueueOK, WorkersOK, NEW w \in Workers, Timeout(w)
    PROVE  QueueOK' /\ WorkersOK'
<1>. DEFINE s == subprocess[w]
            t == doing[w].task
            killed == [state |-> "dead", work |-> {}]
            c == IF s = 0 THEN children[w] ELSE [children[w] EXCEPT ![s] = killed]
<1>1. /\ children[w] \in [Pids -> Child] /\ WorkerSound(w)
      /\ doing[w] \in Doing /\ s \in Pids \cup {0}
  BY WorkerTypes
<1>2. t \in Tasks
  BY <1>1 DEF Timeout, WorkerSound
<1>3. /\ UNCHANGED prover /\ AttemptFailed(w, t)
      /\ doing' = [doing EXCEPT ![w] = Idle]
  BY DEF Timeout
<1>4. QueueOK'
  BY <1>2, <1>3, AttemptFailedStep
<1>5. subprocess' = [subprocess EXCEPT ![w] = 0]
  BY <1>1, WorkerTypes DEF Timeout, TerminateSubprocess
<1>6. children' = [children EXCEPT ![w] = c]
  BY <1>1, WorkerTypes DEF Timeout, TerminateSubprocess, Killed
<1>7. /\ c \in [Pids -> Child]
      /\ \A q \in Pids : c[q].work \subseteq children[w][q].work
      /\ \A q \in Pids : c[q].state = "none" => c[q].work = {}
  BY <1>1 DEF Child, WorkerSound
<1>. HIDE DEF c
<1>8. Shrunk(w, Idle, 0, c)
  BY <1>3, <1>5, <1>6, <1>7 DEF Shrunk
<1>. QED  BY <1>4, <1>8, WorkShrinks

LEMMA ChildDiesStep ==
    ASSUME QueueOK, WorkersOK, NEW w \in Workers, NEW p \in Pids,
           ChildDies(w, p)
    PROVE  QueueOK' /\ WorkersOK'
<1>. DEFINE c == [children[w] EXCEPT ![p] = [state |-> "dead", work |-> {}]]
<1>1. /\ children[w] \in [Pids -> Child] /\ WorkerSound(w)
      /\ subprocess[w] \in Pids \cup {0}
  BY WorkerTypes
<1>2. /\ c \in [Pids -> Child] /\ children' = [children EXCEPT ![w] = c]
      /\ \A q \in Pids : c[q].work \subseteq children[w][q].work
      /\ \A q \in Pids : c[q].state = "none" => c[q].work = {}
      /\ subprocess[w] # 0 => c[subprocess[w]].state # "none"
  BY <1>1 DEF ChildDies, Killed, Child, WorkerSound
<1>3. /\ doing' = [doing EXCEPT ![w] = doing[w]]
      /\ subprocess' = [subprocess EXCEPT ![w] = subprocess[w]]
      /\ UNCHANGED <<prover, queue>>
  BY WorkerTypes DEF ChildDies
<1>4. doing[w] = Idle /\ subprocess[w] # 0 => c[subprocess[w]].work = {}
  BY <1>1, <1>2 DEF WorkerSound, Idle
<1>. HIDE DEF c
<1>5. Shrunk(w, doing[w], subprocess[w], c)
  BY <1>2, <1>3, <1>4 DEF Shrunk
<1>. QED  BY <1>3, <1>5, WorkShrinks, QueueFrame

LEMMA ExitStep ==
    ASSUME QueueOK, WorkersOK, NEW w \in Workers, NEW p \in Pids, Exit(w, p)
    PROVE  QueueOK' /\ WorkersOK'
<1>. DEFINE c == [children[w] EXCEPT ![p] = NoChild]
<1>1. /\ children[w] \in [Pids -> Child] /\ WorkerSound(w)
      /\ doing[w] \in Doing
  BY WorkerTypes
<1>2. /\ c \in [Pids -> Child] /\ children' = [children EXCEPT ![w] = c]
      /\ \A q \in Pids : c[q].work \subseteq children[w][q].work
      /\ \A q \in Pids : c[q].state = "none" => c[q].work = {}
  BY <1>1 DEF Exit, NoChild, Child, WorkerSound
<1>3. UNCHANGED prover /\ subprocess' = [subprocess EXCEPT ![w] = 0]
  BY DEF Exit, ClearSubprocess
<1>. HIDE DEF c
<1>4. CASE doing[w] # Idle /\ doing[w].pid = p
  <2>1. AttemptFailed(w, doing[w].task) /\ doing' = [doing EXCEPT ![w] = Idle]
    BY <1>4 DEF Exit
  <2>2. doing[w].task \in Tasks
    BY <1>1, <1>4 DEF WorkerSound
  <2>3. Shrunk(w, Idle, 0, c)
    BY <1>2, <1>3, <2>1 DEF Shrunk
  <2>. QED  BY <1>3, <2>1, <2>2, <2>3, AttemptFailedStep, WorkShrinks
<1>5. CASE ~(doing[w] # Idle /\ doing[w].pid = p)
  <2>1. UNCHANGED queue /\ doing' = [doing EXCEPT ![w] = doing[w]]
    BY <1>5, WorkerTypes DEF Exit
  <2>2. Shrunk(w, doing[w], 0, c)
    BY <1>2, <1>3, <2>1 DEF Shrunk
  <2>. QED  BY <1>3, <2>1, <2>2, QueueFrame, WorkShrinks
<1>. QED  BY <1>4, <1>5

-----------------------------------------------------------------------------
(* The invariant *)

LEMMA InitIInv == Init => IInv
<1> SUFFICES ASSUME Init PROVE IInv
  OBVIOUS
<1>1. 1 \in Pids /\ Idle \in Doing
  BY DEF Pids, Idle, Doing
<1>2. QueueOK
  BY DEF Init, QueueOK, JobsSound, AnswersSound, ResultIsOwn
<1>3. children \in [Workers -> [Pids -> Child]]
  BY DEF Init, Child, NoChild
<1>4. ASSUME NEW w \in Workers PROVE WorkerSound(w)
  BY <1>1, <1>4 DEF Init, WorkerSound, Idle, NoChild
<1>5. WorkersOK
  BY <1>1, <1>3, <1>4 DEF Init, WorkersOK, ChildrenSound
<1>. QED  BY <1>2, <1>5, Halves DEF Init

LEMMA NextIInv == IInv /\ [Next]_vars => IInv'
<1> SUFFICES ASSUME IInv, [Next]_vars PROVE IInv'
  OBVIOUS
<1>1. QueueOK /\ WorkersOK /\ faults \in 0..MaxFaults
  BY Halves
<1>2. faults' \in 0..MaxFaults
  BY <1>1, FaultType
     DEF Next, vars, AddTask, Listen, Notify, Restart, Stall, Take,
         TakeWithChild, TakeAndFork, Ready, Answer, TaskError, Timeout,
         ChildDies, Exit
<1>3. ASSUME NEW t \in Tasks, AddTask(t) \/ Listen(t) \/ Notify(t) \/ Stall(t)
      PROVE  QueueOK' /\ WorkersOK'
  <2>1. QueueOK'
    BY <1>1, <1>3, AddTaskStep, ListenStep, NotifyStep, StallStep
  <2>2. UNCHANGED workers
    BY <1>3 DEF AddTask, Listen, Notify, Stall
  <2>. QED  BY <1>1, <2>1, <2>2, WorkersFrame
<1>4. ASSUME Restart PROVE QueueOK' /\ WorkersOK'
  <2>1. UNCHANGED workers
    BY <1>4 DEF Restart
  <2>. QED  BY <1>1, <1>4, <2>1, RestartStep, WorkersFrame
<1>5. ASSUME NEW w \in Workers, NEW t \in Tasks, Take(w, t)
      PROVE  QueueOK' /\ WorkersOK'
  <2>1. WorkersOK'
    BY <1>1, <1>5, TakeWithChildStep, TakeAndForkStep DEF Take
  <2>2. /\ job[t] = "waiting"
        /\ job' = [job EXCEPT ![t] = "active"]
        /\ lock' = [lock EXCEPT ![t] = w]
        /\ UNCHANGED <<phase, result, attempts, ended>>
    BY <1>5 DEF Take, TakeWithChild, TakeAndFork, prover
  <2>. QED  BY <1>1, <2>1, <2>2, TakenStep
<1>6. ASSUME NEW w \in Workers, TaskError(w) \/ Timeout(w)
      PROVE  QueueOK' /\ WorkersOK'
  BY <1>1, <1>6, TaskErrorStep, TimeoutStep
<1>7. ASSUME NEW w \in Workers, NEW p \in Pids,
             \/ Ready(w, p) \/ ChildDies(w, p) \/ Exit(w, p)
             \/ \E t \in Tasks : Answer(w, p, t)
      PROVE  QueueOK' /\ WorkersOK'
  <2>1. ASSUME NEW t \in Tasks, Answer(w, p, t) PROVE QueueOK' /\ WorkersOK'
    BY <1>1, <2>1, AnswerStep
  <2>2. CASE Ready(w, p)
    BY <1>1, <2>2, ReadyStep
  <2>3. CASE ChildDies(w, p)
    BY <1>1, <2>3, ChildDiesStep
  <2>4. CASE Exit(w, p)
    BY <1>1, <2>4, ExitStep
  <2>. QED  BY <1>7, <2>1, <2>2, <2>3, <2>4
<1>8. ASSUME UNCHANGED vars PROVE QueueOK' /\ WorkersOK'
  <2>1. UNCHANGED prover /\ UNCHANGED queue /\ UNCHANGED workers
    BY <1>8 DEF vars, prover, queue, workers
  <2>. QED  BY <1>1, <2>1, QueueFrame, WorkersFrame
<1>9. QueueOK' /\ WorkersOK'
  BY <1>3, <1>4, <1>5, <1>6, <1>7, <1>8 DEF Next
<1>. QED  BY <1>2, <1>9 DEF IInv, TypeOK, QueueOK, WorkersOK

\* The inductive invariant holds for any number of tasks, workers, attempts
\* and faults.
THEOREM Inductive == Spec => []IInv
BY InitIInv, NextIInv, PTL DEF Spec

\* An answer reaches the task that it is for, although it does not name it
\* (Worker.runSubprocessJobWithTimeout).
THEOREM AnswersReachTheirTask == Spec => []ResultIsOwn
<1>. IInv => ResultIsOwn
  BY DEF IInv, AnswersSound
<1>. QED  BY Inductive, PTL

\* No child computes two tasks at once, although time limits cut tasks short
\* and the exit of one child clears the reference to another.
THEOREM ChildrenAreNotShared == Spec => []OneTaskPerChild
<1>1. ASSUME IInv PROVE OneTaskPerChild
  <2>1. ASSUME NEW w \in Workers, NEW p \in Pids
        PROVE  Cardinality(children[w][p].work) <= 1
    <3>1. \A t, u \in children[w][p].work : t = u
      BY <1>1, <2>1 DEF IInv, ChildrenSound, WorkerSound
    <3>2. CASE children[w][p].work = {}
      BY <3>2, FS_EmptySet
    <3>3. CASE children[w][p].work # {}
      <4>1. PICK t \in children[w][p].work : TRUE
        BY <3>3
      <4>2. children[w][p].work = {t}
        BY <3>1, <4>1
      <4>3. Cardinality({t}) = 1
        BY FS_Singleton
      <4>. QED  BY <4>2, <4>3
    <3>. QED  BY <3>2, <3>3
  <2>. QED  BY <2>1 DEF OneTaskPerChild
<1>. QED  BY <1>1, Inductive, PTL

-----------------------------------------------------------------------------
(* The refinement *)

LEMMA InitService == Init => Abstract!Init
BY DEF Init, Abstract!Init

\* A step of the queue, of a worker or of a child is nothing to the prover
\* until it is announced; what is announced for a task is its own output.
LEMMA NextService ==
    ASSUME IInv, [Next]_vars
    PROVE  [Abstract!Next]_Abstract!vars
<1>. DEFINE bar == [t \in Tasks |-> IF phase[t] \in {"added", "listening"}
                                    THEN "waiting" ELSE phase[t]]
<1>1. QueueOK
  BY Halves
<1>2. CASE UNCHANGED prover
  BY <1>2 DEF prover, Abstract!vars
<1>3. ASSUME NEW t \in Tasks, AddTask(t) PROVE Abstract!Ask(t)
  <2>1. phase[t] = "new" /\ phase' = [phase EXCEPT ![t] = "added"]
           /\ result' = result
    BY <1>3 DEF AddTask
  <2>2. bar' = [bar EXCEPT ![t] = "waiting"]
    BY <1>1, <2>1 DEF QueueOK
  <2>. QED  BY <2>1, <2>2 DEF Abstract!Ask
<1>4. ASSUME NEW t \in Tasks, Listen(t) PROVE UNCHANGED Abstract!vars
  <2>1. phase[t] = "added" /\ phase' = [phase EXCEPT ![t] = "listening"]
           /\ result' = result
    BY <1>4 DEF Listen
  <2>2. bar' = bar
    BY <1>1, <2>1 DEF QueueOK
  <2>. QED  BY <2>1, <2>2 DEF Abstract!vars
<1>5. ASSUME NEW t \in Tasks, Notify(t)
      PROVE  UNCHANGED prover \/ Abstract!Complete(t) \/ Abstract!Fail(t)
  <2>1. PICK how \in {"failed"} \cup Tasks :
           /\ <<t, how>> \in ended
           /\ IF phase[t] # "listening" THEN UNCHANGED prover
              ELSE IF how = "failed"
              THEN /\ phase' = [phase EXCEPT ![t] = "failed"]
                   /\ UNCHANGED result
              ELSE /\ phase' = [phase EXCEPT ![t] = "done"]
                   /\ result' = [result EXCEPT ![t] = how]
    BY <1>5 DEF Notify
  <2>2. how = "failed" \/ how = t
    <3>1. <<t, how>>[2] \in {"failed", <<t, how>>[1]}
      BY <1>1, <2>1 DEF QueueOK, AnswersSound
    <3>. QED  BY <3>1
  <2>3. CASE phase[t] # "listening"
    BY <2>1, <2>3
  <2>4. CASE phase[t] = "listening" /\ how = "failed"
    <3>1. bar[t] = "waiting" /\ bar' = [bar EXCEPT ![t] = "failed"]
      BY <1>1, <2>1, <2>4 DEF QueueOK
    <3>. QED  BY <2>1, <2>4, <3>1 DEF Abstract!Fail
  <2>5. CASE phase[t] = "listening" /\ how # "failed"
    <3>1. bar[t] = "waiting" /\ bar' = [bar EXCEPT ![t] = "done"]
      BY <1>1, <2>1, <2>5 DEF QueueOK
    <3>2. result' = [result EXCEPT ![t] = t]
      BY <2>1, <2>2, <2>5
    <3>. QED  BY <3>1, <3>2 DEF Abstract!Complete
  <2>. QED  BY <2>3, <2>4, <2>5
<1>6. ASSUME Restart PROVE Abstract!Restart
  <2>1. /\ phase' = [t \in Tasks |->
                        IF phase[t] = "done" THEN "done" ELSE "new"]
        /\ result' = result
        /\ \E t \in Tasks : phase[t] \in {"added", "listening", "failed"}
    BY <1>6 DEF Restart, InFlight
  <2>2. bar' = [t \in Tasks |-> IF bar[t] = "done" THEN "done" ELSE "new"]
    BY <1>1, <2>1 DEF QueueOK
  <2>3. \E t \in Tasks : bar[t] \in {"waiting", "failed"}
    BY <2>1
  <2>. QED  BY <2>1, <2>2, <2>3 DEF Abstract!Restart
<1>7. ASSUME NEW t \in Tasks, Stall(t) PROVE UNCHANGED prover
  BY <1>7 DEF Stall
<1>8. ASSUME NEW w \in Workers,
             \/ TaskError(w) \/ Timeout(w) \/ \E t \in Tasks : Take(w, t)
             \/ \E p \in Pids : \/ Ready(w, p) \/ ChildDies(w, p) \/ Exit(w, p)
                                \/ \E t \in Tasks : Answer(w, p, t)
      PROVE  UNCHANGED prover
  BY <1>8 DEF TaskError, Timeout, Take, TakeWithChild, TakeAndFork, Ready,
              ChildDies, Exit, Answer
<1>9. CASE UNCHANGED vars
  BY <1>2, <1>9 DEF vars
<1>. HIDE DEF bar
<1>. QED
  BY <1>2, <1>3, <1>4, <1>5, <1>6, <1>7, <1>8, <1>9 DEF Next, Abstract!Next

\* The queue, its workers and their children are the task service that the
\* provers rely on.
THEOREM QueueProvidesService == Spec => ProvidesService
<1>1. IInv /\ [Next]_vars => [Abstract!Next]_Abstract!vars
  BY NextService
<1>. QED  BY <1>1, InitService, Inductive, PTL DEF Spec, ProvidesService, Abstract!Spec
=============================================================================
