-------------------------- MODULE ProjectionProofs --------------------------
(***************************************************************************)
(* The projection of a proposal, for every tree of blocks, every set of    *)
(* events in it that the contracts can have emitted, and any number of     *)
(* workers, reorganizations and crashes.                                   *)
(***************************************************************************)
EXTENDS Projection, Sums

-----------------------------------------------------------------------------
(* The tree.  A branch is the least closed set, so a closed set that has a *)
(* block is an induction hypothesis for the block's ancestors.             *)

LEMMA BranchLeast ==
    ASSUME NEW b \in Blocks, NEW S \in SUBSET Blocks, b \in S, ClosedUnderParent(S)
    PROVE  Branch[b] \subseteq S
BY DEF Branch

LEMMA BranchSelf ==
    ASSUME NEW b \in Blocks
    PROVE  b \in Branch[b] /\ Branch[b] \in SUBSET Blocks
BY DEF Branch

LEMMA BranchClosed ==
    ASSUME NEW b \in Blocks
    PROVE  ClosedUnderParent(Branch[b])
<1> SUFFICES ASSUME NEW a \in Branch[b] \ {Root}
             PROVE  Parent[a] \in Branch[b]
  BY DEF ClosedUnderParent
<1>1. a \in Blocks /\ Parent[a] \in Blocks
  BY ProjectionAssumption, BranchSelf
<1>2. ASSUME NEW S \in SUBSET Blocks, b \in S, ClosedUnderParent(S)
      PROVE  Parent[a] \in S
  <2>1. a \in S
    BY <1>2, BranchLeast
  <2> QED
    BY <2>1, <1>2 DEF ClosedUnderParent
<1> QED
  BY <1>1, <1>2 DEF Branch

LEMMA BranchOfAncestor ==
    ASSUME NEW b \in Blocks, NEW a \in Branch[b]
    PROVE  a \in Blocks /\ Branch[a] \subseteq Branch[b]
BY BranchSelf, BranchClosed, BranchLeast

LEMMA BranchStep ==
    ASSUME NEW b \in Blocks \ {Root}
    PROVE  Parent[b] \in Blocks /\ Branch[b] = {b} \cup Branch[Parent[b]]
<1>1. Parent[b] \in Blocks /\ Parent[b] \in Branch[b]
  BY ProjectionAssumption, BranchSelf, BranchClosed DEF ClosedUnderParent
<1> DEFINE S == {b} \cup Branch[Parent[b]]
<1>2. S \in SUBSET Blocks /\ b \in S
  BY <1>1, BranchSelf
<1>3. ClosedUnderParent(S)
  BY <1>1, BranchSelf, BranchClosed DEF ClosedUnderParent
<1>4. Branch[b] \subseteq S
  <2> HIDE DEF S
  <2> QED
    BY <1>2, <1>3, BranchLeast
<1>5. S \subseteq Branch[b]
  BY <1>1, BranchSelf, BranchOfAncestor
<1> QED
  BY <1>1, <1>4, <1>5

LEMMA BranchRoot == Branch[Root] = {Root}
<1>1. ClosedUnderParent({Root}) /\ Root \in Blocks
  BY ProjectionAssumption DEF ClosedUnderParent
<1> QED
  BY <1>1, BranchLeast, BranchSelf

LEMMA AncestorLower ==
    ASSUME NEW b \in Blocks, NEW a \in Branch[b]
    PROVE  a = b \/ Height[a] < Height[b]
<1> DEFINE S == {x \in Blocks : x = b \/ Height[x] < Height[b]}
<1>1. ClosedUnderParent(S)
  <2> SUFFICES ASSUME NEW x \in S \ {Root}
               PROVE  Parent[x] \in S
    BY DEF ClosedUnderParent
  <2>1. /\ x \in Blocks \ {Root} /\ Parent[x] \in Blocks
        /\ Height[x] = Height[Parent[x]] + 1
        /\ Height[x] \in Nat /\ Height[b] \in Nat /\ Height[Parent[x]] \in Nat
    BY ProjectionAssumption
  <2>2. Height[x] <= Height[b]
    BY <2>1
  <2> QED
    BY <2>1, <2>2
<1>2. S \in SUBSET Blocks /\ b \in S
  OBVIOUS
<1>3. a \in S
  <2> HIDE DEF S
  <2> QED
    BY <1>1, <1>2, BranchLeast
<1> QED
  BY <1>3

LEMMA BranchLinear ==
    ASSUME NEW b \in Blocks, NEW a \in Branch[b], NEW c \in Branch[b]
    PROVE  a \in Branch[c] \/ c \in Branch[a]
<1> DEFINE S == {x \in Blocks : x \in Branch[a] \/ a \in Branch[x]}
<1>1. a \in Blocks /\ c \in Blocks
  BY BranchSelf
<1>2. ClosedUnderParent(S)
  <2> SUFFICES ASSUME NEW x \in S \ {Root}
               PROVE  Parent[x] \in S
    BY DEF ClosedUnderParent
  <2>1. x \in Blocks \ {Root} /\ Parent[x] \in Blocks
    BY ProjectionAssumption
  <2>2. CASE x \in Branch[a]
    BY <1>1, <2>1, <2>2, BranchClosed DEF ClosedUnderParent
  <2>3. CASE a \in Branch[x] /\ x \notin Branch[a]
    <3>1. a # x
      BY <1>1, <2>3, BranchSelf
    <3>2. a \in Branch[Parent[x]]
      BY <2>1, <2>3, <3>1, BranchStep
    <3> QED
      BY <2>1, <3>2
  <2> QED
    BY <2>2, <2>3
<1>3. S \in SUBSET Blocks /\ b \in S
  OBVIOUS
<1>4. c \in S
  <2> HIDE DEF S
  <2> QED
    BY <1>2, <1>3, BranchLeast
<1> QED
  BY <1>4

\* Of two blocks of a branch the lower one is an ancestor of the other.
LEMMA LowerIsAncestor ==
    ASSUME NEW b \in Blocks, NEW a \in Branch[b], NEW c \in Branch[b],
           Height[a] <= Height[c]
    PROVE  a \in Branch[c]
<1>1. /\ a \in Blocks /\ c \in Blocks
      /\ Height[a] \in Nat /\ Height[c] \in Nat
  BY ProjectionAssumption, BranchSelf
<1>2. c \in Branch[a] => a = c
  BY <1>1, AncestorLower
<1> QED
  BY <1>1, <1>2, BranchLinear, BranchSelf

LEMMA OnePerHeight ==
    ASSUME NEW b \in Blocks, NEW a \in Branch[b], NEW c \in Branch[b],
           Height[a] = Height[c]
    PROVE  a = c
<1>1. /\ a \in Blocks /\ c \in Blocks
      /\ Height[a] \in Nat /\ Height[c] \in Nat
  BY ProjectionAssumption, BranchSelf
<1>2. a \in Branch[c]
  BY <1>1, LowerIsAncestor
<1> QED
  BY <1>1, <1>2, AncestorLower

-----------------------------------------------------------------------------
(* Numbering a set in an order *)

\* R orders S strictly, and any two members.
Orders(R, S) ==
    /\ \A x \in S : <<x, x>> \notin R
    /\ \A x, y \in S : x # y => <<x, y>> \in R \/ <<y, x>> \in R
    /\ \A x, y, z \in S : <<x, y>> \in R /\ <<y, z>> \in R => <<x, z>> \in R

Below(R, S, x) == {y \in S : <<y, x>> \in R}

\* The members have different numbers of members below them.
LEMMA BelowDiffer ==
    ASSUME NEW S, IsFiniteSet(S), NEW R, Orders(R, S), NEW x \in S, NEW y \in S,
           <<x, y>> \in R
    PROVE  /\ Cardinality(Below(R, S, x)) \in Nat
           /\ Cardinality(Below(R, S, y)) \in Nat
           /\ Cardinality(Below(R, S, x)) < Cardinality(Below(R, S, y))
<1>. DEFINE X == Below(R, S, x)
            Y == Below(R, S, y)
<1>1. X \subseteq Y /\ x \in Y /\ x \notin X /\ Y \subseteq S
  BY DEF Orders, Below
<1>2. IsFiniteSet(Y)
  BY <1>1, FS_Subset
<1>. HIDE DEF X, Y
<1>3. X # Y
  BY <1>1
<1>4. Cardinality(X) \in Nat /\ Cardinality(Y) \in Nat /\ Cardinality(X) < Cardinality(Y)
  BY <1>1, <1>2, <1>3, FS_Subset, FS_CardinalityType
<1>. QED  BY <1>4 DEF X, Y

LEMMA BelowFewer ==
    ASSUME NEW S, IsFiniteSet(S), NEW R, Orders(R, S), NEW x \in S
    PROVE  /\ Cardinality(S) \in Nat
           /\ Cardinality(Below(R, S, x)) \in 0..(Cardinality(S) - 1)
<1>. DEFINE X == Below(R, S, x)
<1>1. X \subseteq S /\ x \notin X
  BY DEF Orders, Below
<1>. HIDE DEF X
<1>2. X # S
  BY <1>1
<1>3. /\ Cardinality(X) \in Nat /\ Cardinality(S) \in Nat
      /\ Cardinality(X) < Cardinality(S)
  BY <1>1, <1>2, FS_Subset, FS_CardinalityType
<1>. QED  BY <1>3 DEF X

\* So that every number below their count is taken.
LEMMA Ranked ==
    ASSUME NEW S, IsFiniteSet(S), NEW R, Orders(R, S),
           NEW k \in 0..(Cardinality(S) - 1)
    PROVE  \E x \in S : Cardinality(Below(R, S, x)) = k
<1>. DEFINE n == Cardinality(S)
            T == 0..(n - 1)
            f == [x \in S |-> Cardinality(Below(R, S, x))]
<1>1. n \in Nat
  BY FS_CardinalityType
<1>2. f \in [S -> T]
  BY BelowFewer
<1>3. \A x, y \in S : f[x] = f[y] => x = y
  <2>1. ASSUME NEW x \in S, NEW y \in S, x # y PROVE f[x] # f[y]
    <3>1. <<x, y>> \in R \/ <<y, x>> \in R
      BY <2>1 DEF Orders
    <3>. QED  BY <2>1, <3>1, BelowDiffer
  <2>. QED  BY <2>1
<1>4. IsFiniteSet(T) /\ Cardinality(T) = n
  <2>1. 0 \in Int /\ n - 1 \in Int
    BY <1>1
  <2>2. /\ IsFiniteSet(T)
        /\ Cardinality(T) = IF 0 > n - 1 THEN 0 ELSE n - 1 - 0 + 1
    BY <2>1, FS_Interval
  <2>3. n = IF 0 > n - 1 THEN 0 ELSE n - 1 - 0 + 1
    BY <1>1
  <2>. QED  BY <2>2, <2>3
<1>. HIDE DEF f
<1>5. f \in Injection(S, T)
  BY <1>2, <1>3 DEF Injection, IsInjective
<1>. HIDE DEF T, n
<1>6. f \in Surjection(S, T)
  BY <1>1, <1>4, <1>5, FS_Injection DEF n
<1>7. k \in T /\ f = [x \in S |-> Cardinality(Below(R, S, x))]
  BY DEF T, n, f
<1>8. PICK x \in S : f[x] = k
  BY <1>6, <1>7 DEF Surjection
<1>. QED  BY <1>7, <1>8

\* The numbers after n in the order O.
Numbers(n, O, S) == [x \in S |-> n + 1 + Cardinality(Below(O, S, x))]

LEMMA NumbersDiffer ==
    ASSUME NEW S, IsFiniteSet(S), NEW O, Orders(O, S), NEW n \in Nat
    PROVE  /\ Cardinality(S) \in Nat
           /\ \A e \in S : /\ Numbers(n, O, S)[e] \in Nat
                          /\ Numbers(n, O, S)[e] > n
                          /\ Numbers(n, O, S)[e] <= n + Cardinality(S)
           /\ \A e, f \in S : Numbers(n, O, S)[e] = Numbers(n, O, S)[f] => e = f
<1>. DEFINE k(e) == Cardinality(Below(O, S, e))
<1>1. Cardinality(S) \in Nat
  BY FS_CardinalityType
<1>2. \A e \in S : k(e) \in 0..(Cardinality(S) - 1)
  BY BelowFewer
<1>3. \A e \in S : Numbers(n, O, S)[e] = n + 1 + k(e)
  BY DEF Numbers
<1>4. ASSUME NEW e \in S, NEW f \in S, k(e) = k(f)
      PROVE  e = f
  <2>. SUFFICES ASSUME e # f PROVE FALSE
    OBVIOUS
  <2>1. <<e, f>> \in O \/ <<f, e>> \in O
    BY DEF Orders
  <2>2. CASE <<e, f>> \in O
    BY <1>4, <2>2, BelowDiffer
  <2>3. CASE <<f, e>> \in O
    BY <1>4, <2>3, BelowDiffer
  <2>. QED  BY <2>1, <2>2, <2>3
<1>. HIDE DEF k
<1>. QED  BY <1>1, <1>2, <1>3, <1>4

-----------------------------------------------------------------------------
(* A set as the sequence of its members in an order *)

Ranks(O, S) == {<<Cardinality(Below(O, S, x)), x>> : x \in S}

Ordered(O, S) ==
    [i \in 1..Cardinality(S) |-> (CHOOSE p \in Ranks(O, S) : p[1] = i - 1)[2]]

LEMMA OrderedOf ==
    ASSUME NEW S, IsFiniteSet(S), NEW O, Orders(O, S)
    PROVE  /\ Cardinality(S) \in Nat
           /\ Ordered(O, S) \in [1..Cardinality(S) -> S]
           /\ \A x \in S : \E i \in 1..Cardinality(S) : Ordered(O, S)[i] = x
           /\ \A i, j \in 1..Cardinality(S) : i < j =>
                 /\ <<Ordered(O, S)[i], Ordered(O, S)[j]>> \in O
                 /\ <<Ordered(O, S)[j], Ordered(O, S)[i]>> \notin O
                 /\ Ordered(O, S)[i] # Ordered(O, S)[j]
<1>. DEFINE n == Cardinality(S)
            B(x) == Cardinality(Below(O, S, x))
            q == Ordered(O, S)
<1>1. n \in Nat
  BY FS_CardinalityType
<1>2. \A x \in S : B(x) \in 0..(n - 1)
  BY BelowFewer
<1>3. \A x, y \in S : <<x, y>> \in O => B(x) < B(y)
  BY BelowDiffer
<1>4. \A k \in 0..(n - 1) : \E x \in S : B(x) = k
  BY Ranked
<1>. DEFINE R == {<<B(x), x>> : x \in S}
<1>5. q = [i \in 1..n |-> (CHOOSE p \in R : p[1] = i - 1)[2]]
  BY DEF Ordered, Ranks
<1>6. \A x, y \in S : x # y => <<x, y>> \in O \/ <<y, x>> \in O
  BY DEF Orders
<1>. HIDE DEF n, B, q
<1>7. ASSUME NEW i \in 1..n PROVE q[i] \in S /\ B(q[i]) = i - 1
  <2>1. i - 1 \in 0..(n - 1)
    BY <1>1
  <2>2. PICK x \in S : B(x) = i - 1
    BY <1>4, <2>1
  <2>3. \E p \in R : p[1] = i - 1
    <3>1. <<B(x), x>> \in R
      OBVIOUS
    <3>. QED  BY <2>2, <3>1
  <2>. DEFINE p == CHOOSE r \in R : r[1] = i - 1
  <2>4. p \in R /\ p[1] = i - 1
    BY <2>3
  <2>5. q[i] = p[2]
    BY <1>5
  <2>. HIDE DEF p
  <2>6. PICK y \in S : p = <<B(y), y>>
    BY <2>4
  <2>. QED  BY <2>4, <2>5, <2>6
<1>8. ASSUME NEW x \in S PROVE \E i \in 1..n : q[i] = x
  <2>1. B(x) + 1 \in 1..n /\ (B(x) + 1) - 1 = B(x) /\ B(x) \in Int
    BY <1>1, <1>2
  <2>2. q[B(x) + 1] \in S /\ B(q[B(x) + 1]) = B(x)
    BY <1>7, <2>1
  <2>. DEFINE y == q[B(x) + 1]
  <2>. HIDE DEF y
  <2>3. y \in S /\ B(y) = B(x)
    BY <2>2 DEF y
  <2>4. ~ (B(x) < B(y)) /\ ~ (B(y) < B(x))
    BY <2>1, <2>3
  <2>5. x = y
    BY <1>3, <1>6, <2>3, <2>4
  <2>. QED  BY <2>1, <2>5 DEF y
<1>9. ASSUME NEW i \in 1..n, NEW j \in 1..n, i < j
      PROVE  <<q[i], q[j]>> \in O /\ <<q[j], q[i]>> \notin O /\ q[i] # q[j]
  <2>1. /\ q[i] \in S /\ q[j] \in S /\ B(q[i]) = i - 1 /\ B(q[j]) = j - 1
        /\ i \in Int /\ j \in Int
    BY <1>1, <1>7
  <2>2. <<q[j], q[i]>> \notin O /\ q[i] # q[j]
    <3>1. ~ (B(q[j]) < B(q[i])) /\ B(q[i]) # B(q[j])
      BY <1>9, <2>1
    <3>. QED  BY <1>3, <2>1, <3>1
  <2>. QED  BY <1>6, <2>1, <2>2
<1>10. q \in [1..n -> S]
  BY <1>5, <1>7
<1>. QED  BY <1>1, <1>8, <1>9, <1>10 DEF n, q

-----------------------------------------------------------------------------
(* The events of a branch *)

LEMMA EventsOfType ==
    ASSUME NEW S \in SUBSET Blocks
    PROVE  /\ EventsOf(S) \subseteq Events
           /\ \A e : e \in EventsOf(S) <=> \E c \in S : e \in Range(EventsIn[c])
<1>1. \A c \in S : Range(EventsIn[c]) \subseteq Events
  BY ProjectionAssumption DEF Range
<1>. QED  BY <1>1 DEF EventsOf

LEMMA FiniteEvents ==
    ASSUME NEW S \in SUBSET Events
    PROVE  IsFiniteSet(S)
BY ProjectionAssumption, FS_Subset

\* An event is in one block of a branch.
LEMMA RowAtBlock ==
    ASSUME NEW t \in Blocks, NEW e \in EventsOf(Branch[t])
    PROVE  /\ e \in Events
           /\ RowAt(e, Branch[t]) \in Branch[t]
           /\ RowAt(e, Branch[t]) \in Blocks
           /\ e \in Range(EventsIn[RowAt(e, Branch[t])])
<1>1. Branch[t] \in SUBSET Blocks
  BY BranchSelf
<1>. QED  BY <1>1, EventsOfType DEF RowAt

LEMMA RowAtOnly ==
    ASSUME NEW t \in Blocks, NEW c \in Branch[t], NEW e \in Range(EventsIn[c])
    PROVE  e \in EventsOf(Branch[t]) /\ RowAt(e, Branch[t]) = c
<1>1. Branch[t] \in SUBSET Blocks
  BY BranchSelf
<1>2. e \in EventsOf(Branch[t])
  BY <1>1, EventsOfType
<1>3. Range(EventsIn[c]) \cap Range(EventsIn[RowAt(e, Branch[t])]) # {}
  BY <1>2, RowAtBlock
<1>. QED  BY <1>2, <1>3, RowAtBlock, ChainAssumption

LEMMA PlaceOf ==
    ASSUME NEW d \in Blocks, NEW x \in Range(EventsIn[d])
    PROVE  Place(x, d) \in Int /\ EventsIn[d][Place(x, d)] = x
<1>1. \E i \in DOMAIN EventsIn[d] : EventsIn[d][i] = x
  BY DEF Range
<1>2. DOMAIN EventsIn[d] \subseteq Int
  BY ProjectionAssumption
<1>. QED  BY <1>1, <1>2 DEF Place

LEMMA EarlierPlace ==
    ASSUME NEW F, NEW e, NEW f
    PROVE  Earlier(F, e, f) <=>
             \/ Height[F[e].block] < Height[F[f].block]
             \/ /\ Height[F[e].block] = Height[F[f].block]
                /\ Place(e, F[e].block) < Place(f, F[f].block)
BY DEF Earlier, Place

\* F places the events of S on the branch of t.
Placed(F, S, t) ==
    \A e \in S : F[e].block \in Branch[t] /\ e \in Range(EventsIn[F[e].block])

EarlierIn(F, S) == {p \in S \X S : Earlier(F, p[1], p[2])}

LEMMA EarlierOrders ==
    ASSUME NEW t \in Blocks, NEW F, NEW S, Placed(F, S, t)
    PROVE  Orders(EarlierIn(F, S), S)
<1>1. \A e \in S : /\ F[e].block \in Branch[t] /\ F[e].block \in Blocks
                   /\ Height[F[e].block] \in Int
                   /\ Place(e, F[e].block) \in Int
                   /\ EventsIn[F[e].block][Place(e, F[e].block)] = e
  BY BranchSelf, PlaceOf, ProjectionAssumption DEF Placed
<1>2. \A e, f \in S : <<e, f>> \in EarlierIn(F, S) <=>
             \/ Height[F[e].block] < Height[F[f].block]
             \/ /\ Height[F[e].block] = Height[F[f].block]
                /\ Place(e, F[e].block) < Place(f, F[f].block)
  BY EarlierPlace DEF EarlierIn
<1>3. \A e, f \in S : Height[F[e].block] = Height[F[f].block]
                        => F[e].block = F[f].block
  BY <1>1, OnePerHeight
<1>4. \A x \in S : <<x, x>> \notin EarlierIn(F, S)
  BY <1>1, <1>2
<1>5. ASSUME NEW x \in S, NEW y \in S, x # y
      PROVE  <<x, y>> \in EarlierIn(F, S) \/ <<y, x>> \in EarlierIn(F, S)
  <2>1. CASE Height[F[x].block] = Height[F[y].block]
    <3>1. Place(x, F[x].block) # Place(y, F[y].block)
      BY <1>1, <1>3, <1>5, <2>1
    <3>. QED  BY <1>1, <1>2, <2>1, <3>1
  <2>2. CASE Height[F[x].block] # Height[F[y].block]
    BY <1>1, <1>2, <2>2
  <2>. QED  BY <2>1, <2>2
<1>6. ASSUME NEW x \in S, NEW y \in S, NEW z \in S,
             <<x, y>> \in EarlierIn(F, S), <<y, z>> \in EarlierIn(F, S)
      PROVE  <<x, z>> \in EarlierIn(F, S)
  BY <1>1, <1>2, <1>6
<1>. QED  BY <1>4, <1>5, <1>6 DEF Orders

-----------------------------------------------------------------------------
(* The archive's rows *)

Showing(R) == {e \in Events : R[e].status \in {"pending", "canonical"}}

\* Rows at a commit with the canonical block b: those that it shows are the
\* events of one branch, the canonical ones of b's, and every number is used once.
RowsSound(R, b, n) ==
    /\ R \in [Events -> Rows]
    /\ \A e \in Events :
          IF R[e].status = "absent" THEN R[e] = Absent ELSE R[e].seq \in 1..n
    /\ \A e, f \in Events : R[e].seq = R[f].seq => R[e].seq = 0 \/ e = f
    /\ \A e \in Events : R[e].status = "canonical" => R[e].block \in Branch[b]
    /\ \E t \in Blocks :
          /\ b \in Branch[t]
          /\ Showing(R) = EventsOf(Branch[t])
          /\ Placed(R, Showing(R), t)

LEMMA ShownStatus ==
    ASSUME NEW b \in Blocks, NEW t \in Blocks, NEW e \in Events,
           rows \in [Events -> Rows]
    PROVE  /\ Shown(e, b, t).block \in Blocks
           /\ Shown(e, b, t).status \in {"absent", "pending", "canonical", "orphaned"}
           /\ e \in EventsOf(Branch[t]) =>
                 /\ Shown(e, b, t).block = RowAt(e, Branch[t])
                 /\ Shown(e, b, t).status =
                       IF RowAt(e, Branch[t]) \in Branch[b] THEN "canonical" ELSE "pending"
           /\ e \notin EventsOf(Branch[t]) =>
                 /\ Shown(e, b, t).block = rows[e].block
                 /\ Shown(e, b, t).status =
                       IF rows[e].status = "pending" THEN "orphaned" ELSE rows[e].status
<1>1. rows[e].status \in {"absent", "pending", "canonical", "orphaned"}
      /\ rows[e].block \in Blocks
  BY DEF Rows
<1>. QED  BY <1>1, RowAtBlock DEF Shown

\* What is canonical stays as it is.
LEMMA CanonicalStays ==
    ASSUME NEW b \in Blocks, NEW t \in Blocks, RowsSound(rows, final, lastSequence),
           final \in Branch[b], b \in Branch[t],
           NEW e \in Events, rows[e].status = "canonical"
    PROVE  e \in EventsOf(Branch[t]) /\ e \notin Changed(b, t)
<1>1. Branch[final] \subseteq Branch[b] /\ Branch[b] \subseteq Branch[t]
  BY BranchOfAncestor
<1>2. rows[e].block \in Branch[final] /\ e \in Range(EventsIn[rows[e].block])
  BY DEF RowsSound, Placed, Showing
<1>3. e \in EventsOf(Branch[t]) /\ RowAt(e, Branch[t]) = rows[e].block
  BY <1>1, <1>2, RowAtOnly
<1>. QED  BY <1>1, <1>2, <1>3, ShownStatus DEF Changed, RowsSound

LEMMA ChangedStatus ==
    ASSUME NEW b \in Blocks, NEW t \in Blocks, rows \in [Events -> Rows],
           NEW e \in Changed(b, t)
    PROVE  /\ e \in Events
           /\ Shown(e, b, t).status # "absent"
           /\ Shown(e, b, t).status = "orphaned" => rows[e].status = "pending"
           /\ Shown(e, b, t).status # "orphaned" => e \in EventsOf(Branch[t])
BY ShownStatus DEF Changed

NumberOrder(b, t, inReverse) ==
    {p \in Changed(b, t) \X Changed(b, t) : NumberedBefore(b, t, inReverse, p[1], p[2])}

LEMMA NumberedOrders ==
    ASSUME NEW b \in Blocks, NEW t \in Blocks, NEW inReverse \in BOOLEAN,
           RowsSound(rows, final, lastSequence)
    PROVE  Orders(NumberOrder(b, t, inReverse), Changed(b, t))
<1>. DEFINE C == Changed(b, t)
            R == NumberOrder(b, t, inReverse)
            O(x) == Shown(x, b, t).status = "orphaned"
            K == {e \in C : ~ O(e)}
            after == [x \in Events |-> Shown(x, b, t)]
            E == EarlierIn(after, K)
<1>1. rows \in [Events -> Rows] /\ C \subseteq Events
  BY DEF RowsSound, Changed
<1>2. Placed(after, K, t)
  BY <1>1, ChangedStatus, ShownStatus, RowAtBlock DEF Placed
<1>3. Orders(E, K)
  <2>. HIDE DEF after, K
  <2>. QED  BY <1>2, EarlierOrders
<1>4. \A e \in C : O(e) => rows[e].seq \in Int /\ rows[e].seq # 0
  BY <1>1, ChangedStatus DEF RowsSound, Rows
<1>5. \A e, f \in C : <<e, f>> \in R <=>
             \/ O(e) /\ ~ O(f)
             \/ /\ O(e) /\ O(f)
                /\ IF inReverse THEN rows[f].seq < rows[e].seq
                                ELSE rows[e].seq < rows[f].seq
             \/ <<e, f>> \in E
  BY DEF NumberOrder, NumberedBefore, EarlierIn
<1>6. E \subseteq K \X K /\ \A e \in C : e \in K <=> ~ O(e)
  BY DEF EarlierIn
<1>7. \A e, f \in C : rows[e].seq = rows[f].seq /\ rows[e].seq # 0 => e = f
  BY <1>1 DEF RowsSound
<1>. HIDE DEF C, R, O, K, E, after
<1>8. ASSUME NEW x \in C PROVE <<x, x>> \notin R
  <2>1. CASE O(x)
    BY <1>4, <1>5, <1>6, <2>1
  <2>2. CASE ~ O(x)
    BY <1>3, <1>5, <1>6, <2>2 DEF Orders
  <2>. QED  BY <2>1, <2>2
<1>9. ASSUME NEW x \in C, NEW y \in C, x # y
      PROVE  <<x, y>> \in R \/ <<y, x>> \in R
  <2>1. CASE O(x) /\ O(y)
    <3>1. rows[x].seq # rows[y].seq /\ rows[x].seq \in Int /\ rows[y].seq \in Int
      BY <1>4, <1>7, <1>9, <2>1
    <3>. QED  BY <1>5, <2>1, <3>1
  <2>2. CASE ~ O(x) /\ ~ O(y)
    BY <1>3, <1>5, <1>6, <1>9, <2>2 DEF Orders
  <2>. QED  BY <1>5, <2>1, <2>2
<1>10. ASSUME NEW x \in C, NEW y \in C, NEW z \in C, <<x, y>> \in R, <<y, z>> \in R
       PROVE  <<x, z>> \in R
  <2>1. CASE O(x) /\ O(y) /\ O(z)
    <3>1. rows[x].seq \in Int /\ rows[y].seq \in Int /\ rows[z].seq \in Int
      BY <1>4, <2>1
    <3>. QED  BY <1>5, <1>6, <1>10, <2>1, <3>1
  <2>2. CASE ~ O(x) /\ ~ O(y) /\ ~ O(z)
    BY <1>3, <1>5, <1>6, <1>10, <2>2 DEF Orders
  <2>. QED  BY <1>5, <1>6, <1>10, <2>1, <2>2
<1>. QED  BY <1>8, <1>9, <1>10 DEF Orders, R, C

LEMMA NumberedAre ==
    ASSUME NEW b \in Blocks, NEW t \in Blocks, NEW inReverse \in BOOLEAN,
           RowsSound(rows, final, lastSequence), lastSequence \in Nat
    PROVE  LET n == Numbers(lastSequence, NumberOrder(b, t, inReverse), Changed(b, t))
           IN  /\ Cardinality(Changed(b, t)) \in Nat
               /\ RowsAfter(b, t, inReverse) =
                     [e \in Events |->
                         IF e \notin Changed(b, t) THEN rows[e]
                         ELSE [status |-> Shown(e, b, t).status,
                               block |-> Shown(e, b, t).block, seq |-> n[e]]]
               /\ \A e \in Changed(b, t) :
                     /\ n[e] \in Nat
                     /\ n[e] > lastSequence
                     /\ n[e] <= lastSequence + Cardinality(Changed(b, t))
               /\ \A e, f \in Changed(b, t) : n[e] = n[f] => e = f
<1>. DEFINE C == Changed(b, t)
            O == NumberOrder(b, t, inReverse)
<1>1. Orders(O, C)
  BY NumberedOrders
<1>2. IsFiniteSet(C)
  BY FiniteEvents DEF Changed
<1>3. \A e \in C : Below(O, C, e) = {y \in C : NumberedBefore(b, t, inReverse, y, e)}
  BY DEF Below, NumberOrder
<1>4. RowsAfter(b, t, inReverse) =
        [e \in Events |->
            IF e \notin C THEN rows[e]
            ELSE [status |-> Shown(e, b, t).status, block |-> Shown(e, b, t).block,
                  seq |-> Numbers(lastSequence, O, C)[e]]]
  BY <1>3 DEF RowsAfter, NumberedAfter, Numbers
<1>. HIDE DEF C, O
<1>5. /\ Cardinality(C) \in Nat
      /\ \A e \in C : /\ Numbers(lastSequence, O, C)[e] \in Nat
                     /\ Numbers(lastSequence, O, C)[e] > lastSequence
                     /\ Numbers(lastSequence, O, C)[e] <= lastSequence + Cardinality(C)
      /\ \A e, f \in C : Numbers(lastSequence, O, C)[e] = Numbers(lastSequence, O, C)[f]
                         => e = f
  BY <1>1, <1>2, NumbersDiffer
<1>. QED  BY <1>4, <1>5 DEF C, O

\* R are rows of a later commit.
Later(R) ==
    \A e \in Events : /\ R[e] = rows[e] \/ R[e].seq > lastSequence
                      /\ rows[e].status = "canonical" => R[e] = rows[e]
                      /\ R[e].seq >= rows[e].seq

\* A commit numbers the rows that it changes after all others.
LEMMA RowsAfterSound ==
    ASSUME NEW b \in Blocks, NEW t \in Blocks, NEW inReverse \in BOOLEAN,
           RowsSound(rows, final, lastSequence), lastSequence \in Nat,
           final \in Branch[b], b \in Branch[t],
           NEW R, R = RowsAfter(b, t, inReverse)
    PROVE  /\ RowsSound(R, b, lastSequence + Cardinality(Changed(b, t)))
           /\ Later(R)
<1>. DEFINE C == Changed(b, t)
            m == lastSequence + Cardinality(C)
            n == Numbers(lastSequence, NumberOrder(b, t, inReverse), C)
<1>1. /\ C \subseteq Events /\ rows \in [Events -> Rows] /\ Branch[b] \subseteq Branch[t]
      /\ Branch[final] \subseteq Branch[b] /\ final \in Blocks
  BY BranchOfAncestor DEF Changed, RowsSound
<1>2. /\ Cardinality(C) \in Nat
      /\ R = [e \in Events |->
                 IF e \notin C THEN rows[e]
                 ELSE [status |-> Shown(e, b, t).status,
                       block |-> Shown(e, b, t).block, seq |-> n[e]]]
      /\ \A e \in C : n[e] \in Nat /\ n[e] > lastSequence /\ n[e] <= m
      /\ \A e, f \in C : n[e] = n[f] => e = f
  BY NumberedAre
<1>3. /\ \A e \in C : R[e].seq = n[e] /\ R[e].status = Shown(e, b, t).status
                      /\ R[e].block = Shown(e, b, t).block
      /\ \A e \in Events \ C : R[e] = rows[e]
  BY <1>1, <1>2
<1>4. \A e \in Events : /\ R[e].status = Shown(e, b, t).status
                        /\ R[e].block = Shown(e, b, t).block
  BY <1>3 DEF Changed
<1>. HIDE DEF n, C
<1>5. R \in [Events -> Rows]
  <2>1. ASSUME NEW e \in Events PROVE R[e] \in Rows
    <3>1. CASE e \in C
      BY <1>1, <1>2, <2>1, <3>1, ShownStatus DEF Rows
    <3>2. CASE e \notin C
      BY <1>1, <1>3, <2>1, <3>2
    <3>. QED  BY <3>1, <3>2
  <2>. QED  BY <1>2, <2>1
<1>6. \A e \in Events : rows[e].seq <= lastSequence /\ rows[e].seq \in Nat
  BY DEF RowsSound, Rows, Absent
<1>7. ASSUME NEW e \in Events
      PROVE  IF R[e].status = "absent" THEN R[e] = Absent ELSE R[e].seq \in 1..m
  <2>1. CASE e \in C
    <3>1. R[e].status # "absent"
      BY <1>1, <1>3, <2>1, ChangedStatus DEF C
    <3>. QED  BY <1>2, <1>3, <2>1, <3>1
  <2>2. CASE e \notin C
    BY <1>2, <1>3, <2>2 DEF RowsSound
  <2>. QED  BY <2>1, <2>2
<1>8. ASSUME NEW e \in Events, NEW f \in Events, R[e].seq = R[f].seq
      PROVE  R[e].seq = 0 \/ e = f
  <2>1. CASE e \in C /\ f \in C
    BY <1>2, <1>3, <1>8, <2>1
  <2>2. CASE e \notin C /\ f \notin C
    BY <1>3, <1>8, <2>2 DEF RowsSound
  <2>3. CASE e \in C /\ f \notin C
    BY <1>2, <1>3, <1>6, <1>8, <2>3
  <2>4. CASE e \notin C /\ f \in C
    BY <1>2, <1>3, <1>6, <1>8, <2>4
  <2>. QED  BY <2>1, <2>2, <2>3, <2>4
<1>9. ASSUME NEW e \in Events, R[e].status \in {"pending", "canonical"}
      PROVE  /\ e \in EventsOf(Branch[t])
             /\ R[e].block = RowAt(e, Branch[t])
             /\ R[e].status = "canonical" => R[e].block \in Branch[b]
  <2>1. e \in EventsOf(Branch[t])
    <3>. SUFFICES ASSUME e \notin EventsOf(Branch[t]) PROVE FALSE
      OBVIOUS
    <3>1. rows[e].status = "canonical"
      BY <1>1, <1>4, <1>9, ShownStatus
    <3>. QED  BY <3>1, CanonicalStays
  <2>. QED  BY <1>1, <1>4, <2>1, ShownStatus
<1>10. Showing(R) = EventsOf(Branch[t]) /\ Placed(R, Showing(R), t)
  <2>1. \A e \in EventsOf(Branch[t]) :
           e \in Events /\ R[e].status \in {"pending", "canonical"}
    BY <1>1, <1>4, RowAtBlock, ShownStatus
  <2>. QED  BY <1>9, <2>1, RowAtBlock DEF Placed, Showing
<1>11. RowsSound(R, b, m)
  BY <1>5, <1>7, <1>8, <1>9, <1>10 DEF RowsSound
<1>12. ASSUME NEW e \in Events
       PROVE  /\ R[e] = rows[e] \/ R[e].seq > lastSequence
              /\ rows[e].status = "canonical" => R[e] = rows[e]
              /\ R[e].seq >= rows[e].seq
  <2>1. rows[e].status = "canonical" => e \notin C
    BY CanonicalStays DEF C
  <2>2. CASE e \in C
    BY <1>2, <1>3, <1>6, <2>1, <2>2
  <2>3. CASE e \notin C
    BY <1>3, <1>6, <2>3
  <2>. QED  BY <2>2, <2>3
<1>. QED  BY <1>11, <1>12 DEF C, Later

-----------------------------------------------------------------------------
(* What is known of an event *)

\* v was the row of e at some commit before R.
Known(e, v, R) ==
    /\ v \in Rows /\ v.status # "absent"
    /\ 1 <= v.seq /\ v.seq <= R[e].seq
    /\ \A f \in Events : R[f].seq = v.seq => f = e /\ R[f] = v
    /\ v.status = "canonical" => R[e].status = "canonical" /\ R[e].block = v.block

FactsKnown(F, R) ==
    /\ F \in [Events -> Rows]
    /\ \A e \in Events : \/ F[e] = Absent
                         \/ e \notin Undecodable /\ Known(e, F[e], R)

LEMMA RowKnown ==
    ASSUME NEW R, NEW b, NEW n, RowsSound(R, b, n),
           NEW e \in Events, R[e].status # "absent"
    PROVE  Known(e, R[e], R)
<1>1. R[e] \in Rows /\ R[e].seq \in 1..n
  BY DEF RowsSound
<1>2. R[e].seq \in Nat /\ 1 <= R[e].seq
  BY <1>1 DEF Rows
<1>3. \A f \in Events : R[f].seq = R[e].seq => f = e
  BY <1>2 DEF RowsSound
<1>. QED  BY <1>1, <1>2, <1>3 DEF Known

\* A fact that survives is the row of an event that the archive shows.
LEMMA SurvivingShown ==
    ASSUME NEW R, NEW b \in Blocks, NEW n, RowsSound(R, b, n),
           NEW F, FactsKnown(F, R), NEW e \in Surviving(F, R)
    PROVE  /\ e \in Events \ Undecodable
           /\ R[e].status \in {"pending", "canonical"}
           /\ R[e].block = F[e].block
<1>1. e \in Events /\ F[e].status \in {"pending", "canonical"} /\ ~ Outdated(e, F, R)
  BY DEF Surviving
<1>2. F[e] # Absent
  BY <1>1 DEF Absent
<1>3. e \notin Undecodable /\ Known(e, F[e], R)
  BY <1>1, <1>2 DEF FactsKnown
<1>4. R[e].status # "absent" /\ R[e] \in Rows
  <2>1. R[e].seq # 0 /\ R[e] \in Rows
    BY <1>1, <1>3 DEF Known, Rows, RowsSound
  <2>2. R[e] # Absent
    BY <2>1 DEF Absent
  <2>. QED  BY <1>1, <2>1, <2>2 DEF RowsSound
<1>5. R[e].status \in {"absent", "pending", "canonical", "orphaned"}
  BY <1>4 DEF Rows
<1>. QED  BY <1>1, <1>3, <1>4, <1>5 DEF Known, Outdated

LEMMA PlacedCoherent ==
    ASSUME NEW t \in Blocks, NEW F, NEW S, Placed(F, S, t)
    PROVE  Coherent(F, S)
<1>. SUFFICES ASSUME NEW e \in S, NEW f \in S
              PROVE  /\ Height[F[e].block] = Height[F[f].block] => F[e].block = F[f].block
                     /\ Height[F[f].block] = Height[F[e].block] + 1
                        => Parent[F[f].block] = F[e].block
  BY DEF Coherent
<1>. DEFINE b == F[e].block
            c == F[f].block
<1>1. b \in Branch[t] /\ c \in Branch[t] /\ b \in Blocks /\ c \in Blocks
  BY BranchSelf DEF Placed
<1>. HIDE DEF b, c
<1>2. Height[b] \in Nat /\ Height[c] \in Nat
  BY <1>1, ProjectionAssumption
<1>3. Height[b] = Height[c] => b = c
  BY <1>1, OnePerHeight
<1>4. ASSUME Height[c] = Height[b] + 1 PROVE Parent[c] = b
  <2>1. b \in Branch[c] /\ b # c
    BY <1>1, <1>2, <1>4, LowerIsAncestor
  <2>2. c # Root
    BY <2>1, BranchRoot
  <2>3. b \in Branch[Parent[c]] /\ Parent[c] \in Blocks
    BY <1>1, <2>1, <2>2, BranchStep
  <2>4. Height[c] = Height[Parent[c]] + 1 /\ Height[Parent[c]] \in Nat
    BY <1>1, <2>2, <2>3, ProjectionAssumption
  <2>5. Height[b] = Height[Parent[c]]
    BY <1>2, <1>4, <2>4
  <2>. QED  BY <2>3, <2>5, OnePerHeight, BranchSelf
<1>. QED  BY <1>3, <1>4 DEF b, c

\* The reconciliation is never refused.
LEMMA NotRefused ==
    ASSUME NEW R, NEW b \in Blocks, NEW n, RowsSound(R, b, n),
           NEW F, FactsKnown(F, R)
    PROVE  ~ Refused(F, Surviving(F, R))
<1>. DEFINE S == Surviving(F, R)
            Shows == Showing(R)
<1>1. PICK t \in Blocks : b \in Branch[t] /\ Placed(R, Shows, t)
  BY DEF RowsSound
<1>2. \A e \in S : e \in Shows /\ R[e].block = F[e].block
  BY SurvivingShown DEF Showing
<1>3. Placed(F, S, t)
  BY <1>1, <1>2 DEF Placed
<1>4. S \subseteq EventsOf(Branch[t])
  BY <1>3, RowAtOnly DEF Placed
<1>. HIDE DEF S, Shows
<1>5. Coherent(F, S)
  BY <1>3, PlacedCoherent
<1>6. ~ (Cardinality(Creations(F, S)) > 1)
  <2>. DEFINE C == Creations(F, S)
  <2>1. C \subseteq OfType(EventsOf(Branch[t]), "created")
    BY <1>4 DEF Creations, OfType
  <2>2. IsFiniteSet(C)
    <3>1. C \subseteq Events
      BY <2>1, EventsOfType, BranchSelf DEF OfType
    <3>. HIDE DEF C
    <3>. QED  BY <3>1, FiniteEvents
  <2>3. C = {} \/ \E e : C = {e}
    <3>1. \A e, f \in C : e = f
      BY <2>1, ChainAssumption
    <3>. HIDE DEF C
    <3>. QED  BY <3>1
  <2>. HIDE DEF C
  <2>4. Cardinality(C) = 0 \/ Cardinality(C) = 1
    BY <2>2, <2>3, FS_EmptySet, FS_Singleton
  <2>. QED  BY <2>4 DEF C
<1>7. PaidOut(S) \in Nat /\ PaidOut(S) <= PayoutLimit
  <2>. DEFINE T == OfType(EventsOf(Branch[t]), "executed")
              U == OfType(S, "executed")
  <2>1. IsFiniteSet(T) /\ U \in SUBSET T
    <3>1. T \subseteq Events
      BY EventsOfType, BranchSelf DEF OfType
    <3>2. U \subseteq T
      BY <1>4 DEF OfType
    <3>. HIDE DEF T, U
    <3>. QED  BY <3>1, <3>2, FiniteEvents
  <2>2. \A e \in T : Payload[e] \in Nat
    BY ChainAssumption
  <2>3. SumFunctionOnSet(Payload, T) <= PayoutLimit
    BY ChainAssumption DEF PaidOut
  <2>. HIDE DEF T, U
  <2>4. SumFunctionOnSet(Payload, U) <= SumFunctionOnSet(Payload, T)
    BY <2>1, <2>2, SumPart
  <2>5. SumFunctionOnSet(Payload, U) \in Nat /\ SumFunctionOnSet(Payload, T) \in Nat
    BY <2>1, <2>2, SumType, FS_Subset
  <2>6. SumFunctionOnSet(Payload, U) <= PayoutLimit
    BY <2>3, <2>4, <2>5, ProjectionAssumption
  <2>. QED  BY <2>5, <2>6 DEF PaidOut, U
<1>. QED  BY <1>5, <1>6, <1>7, ProjectionAssumption DEF Refused, S

-----------------------------------------------------------------------------
(* The inductive invariant *)

PagesKnown ==
    /\ page \in [Workers -> Seq(Versioned)]
    /\ \A w \in Workers : \A i \in DOMAIN page[w] :
          Known(page[w][i].event, page[w][i].version, rows)

TransactionType ==
    [worker : Workers, items : Seq(Versioned), rows : [Events -> Rows],
     contents : BOOLEAN, ledger : BOOLEAN]

\* R are the rows after the first n numbers; the rows that have changed since
\* have later numbers.
Snapshot(R, n) ==
    /\ \E b \in Blocks : RowsSound(R, b, n)
    /\ \A e \in Events : R[e] = rows[e] \/ rows[e].seq > n

\* A transaction has read the rows at some commit, and handles the head of its
\* worker's page.
TransactionKnown ==
    transaction # NoTransaction =>
       /\ transaction \in TransactionType /\ Len(transaction.items) <= 1
       /\ \E n \in 0..lastSequence : Snapshot(transaction.rows, n)
       /\ FactsKnown(facts, transaction.rows)
       /\ \A i \in Range(transaction.items) :
             /\ page[transaction.worker] # <<>>
             /\ i = Head(page[transaction.worker])
             /\ i.event \notin Undecodable
             /\ Known(i.event, i.version, transaction.rows)
             /\ offset < i.version.seq

SafeInv ==
    /\ TypeOK
    /\ RowsSound(rows, final, lastSequence)
    /\ FactsKnown(facts, rows)
    /\ PagesKnown
    /\ TransactionKnown

\* A replay that may end has the archive locked since it read the rows.
ArchiveHeld ==
    /\ ArchiveLocked => transaction.rows = rows
    /\ transaction # NoTransaction /\ transaction.items = <<>>
       => replay.state = "collecting"

\* No page of a complete projection leaves out a row that is to be processed.
NoGap ==
    replay.state = "complete" =>
       \A w \in Workers : \A i \in DOMAIN page[w] : \A e \in Events :
          offset < rows[e].seq /\ rows[e].seq < page[w][i].version.seq
          => \E j \in 1..(i - 1) : page[w][j] = [event |-> e, version |-> rows[e]]

\* The facts follow the offset.
FactsFollow ==
    replay.state = "complete" =>
       \A e \in Events \ Undecodable : rows[e].seq <= offset => facts[e] = rows[e]

\* Once the offset has passed every event with a fact, the proposal is the
\* reconciliation of the facts with the rows.
ProposalFollows ==
    replay.state = "complete" /\ (\A e \in Events \ Undecodable : rows[e].seq <= offset)
    => \E contents \in BOOLEAN :
          proposal = Reconciled(facts, Surviving(facts, rows), contents)

IInv ==
    /\ SafeInv
    /\ ArchiveHeld
    /\ NoGap
    /\ FactsFollow
    /\ ProposalFollows

-----------------------------------------------------------------------------
(* The archive's steps *)

LEMMA SnapshotNow ==
    ASSUME RowsSound(rows, final, lastSequence), final \in Blocks
    PROVE  Snapshot(rows, lastSequence)
BY DEF Snapshot

LEMMA KnownLater ==
    ASSUME RowsSound(rows, final, lastSequence), lastSequence \in Nat,
           NEW e \in Events, NEW v, Known(e, v, rows),
           NEW R \in [Events -> Rows], Later(R)
    PROVE  Known(e, v, R)
<1>1. /\ rows \in [Events -> Rows]
      /\ \A f \in Events : rows[f].seq <= lastSequence /\ rows[f].seq \in Nat
      /\ \A f \in Events : R[f].seq \in Nat
  BY DEF RowsSound, Rows, Absent
<1>2. v.seq \in Nat /\ v.seq <= lastSequence /\ v.seq <= R[e].seq
  BY <1>1 DEF Known, Rows, Later
<1>3. ASSUME NEW f \in Events, R[f].seq = v.seq
      PROVE  f = e /\ R[f] = v
  <2>1. R[f] = rows[f]
    BY <1>1, <1>2, <1>3 DEF Later
  <2>. QED  BY <1>3, <2>1 DEF Known
<1>4. v.status = "canonical" => R[e].status = "canonical" /\ R[e].block = v.block
  BY DEF Known, Later
<1>. QED  BY <1>2, <1>3, <1>4 DEF Known

LEMMA ObserveSafe ==
    ASSUME SafeInv, NEW b \in Blocks, NEW t \in Blocks, Observe(b, t)
    PROVE  /\ SafeInv'
           /\ lastSequence <= lastSequence'
           /\ \A e \in Events : rows'[e] = rows[e] \/ rows'[e].seq > lastSequence
<1>. DEFINE R == rows'
            m == lastSequence'
<1>1. PICK inReverse \in BOOLEAN : R = RowsAfter(b, t, inReverse)
  BY DEF Observe
<1>2. /\ m = lastSequence + Cardinality(Changed(b, t)) /\ final' = b
      /\ observations < MaxObservations /\ observations' = observations + 1
      /\ final \in Branch[b] /\ b \in Branch[t]
      /\ UNCHANGED <<progress, projection, savedContent, ledger, workers, transaction>>
  BY DEF Observe
<1>3. lastSequence \in Nat /\ final \in Blocks
  BY DEF SafeInv, TypeOK
<1>4. RowsSound(R, b, m) /\ Later(R)
  <2>1. RowsSound(rows, final, lastSequence)
    BY DEF SafeInv
  <2>2. final \in Branch[b] /\ b \in Branch[t]
    BY <1>2
  <2>. HIDE DEF R, m
  <2>. QED  BY <1>1, <1>2, <1>3, <2>1, <2>2, RowsAfterSound
<1>5. m \in Nat /\ lastSequence <= m
  <2>1. IsFiniteSet(Changed(b, t))
    BY FiniteEvents DEF Changed
  <2>2. Cardinality(Changed(b, t)) \in Nat
    BY <2>1, FS_CardinalityType
  <2>. QED  BY <1>2, <1>3, <2>2
<1>6. R \in [Events -> Rows]
  BY <1>4 DEF RowsSound
<1>. HIDE DEF R, m
<1>7. \A e \in Events : \A v : Known(e, v, rows) => Known(e, v, R)
  BY <1>3, <1>4, <1>6, KnownLater DEF SafeInv
<1>8. FactsKnown(facts, R)
  BY <1>7 DEF SafeInv, FactsKnown
<1>9. TypeOK'
  <2>1. \A e \in Events : facts[e].seq <= R[e].seq
    <3>1. \A e \in Events : facts[e].seq \in Nat /\ rows[e].seq \in Nat /\ R[e].seq \in Nat
                            /\ facts[e].seq <= rows[e].seq
      BY <1>6 DEF SafeInv, TypeOK, Rows
    <3>. QED  BY <1>4, <3>1 DEF Later
  <2>2. offset \in 0..m /\ replay \in [state : {"collecting", "complete"}, target : 0..m]
    BY <1>3, <1>5 DEF SafeInv, TypeOK
  <2>3. quarantined \subseteq Undecodable \X (1..m)
    BY <1>3, <1>5 DEF SafeInv, TypeOK
  <2>4. b \in Blocks /\ observations' \in 0..MaxObservations
    BY <1>2, ProjectionAssumption DEF SafeInv, TypeOK
  <2>. QED
    BY <1>2, <1>5, <1>6, <2>1, <2>2, <2>3, <2>4
    DEF SafeInv, TypeOK, progress, projection, workers, R, m
<1>10. PagesKnown'
  <2>1. ASSUME NEW w \in Workers, NEW i \in DOMAIN page[w]
        PROVE  page[w][i].event \in Events
    <3>1. page[w] \in Seq(Versioned)
      BY DEF SafeInv, PagesKnown
    <3>2. page[w][i] \in Versioned
      BY <3>1
    <3>. QED  BY <3>2 DEF Versioned
  <2>2. \A w \in Workers : \A i \in DOMAIN page[w] :
           Known(page[w][i].event, page[w][i].version, R)
    BY <1>7, <2>1 DEF SafeInv, PagesKnown
  <2>. QED  BY <1>2, <2>2 DEF SafeInv, PagesKnown, workers, R
<1>11. TransactionKnown'
  <2>1. ASSUME NEW n \in 0..lastSequence, Snapshot(transaction.rows, n)
        PROVE  n \in 0..m /\ Snapshot(transaction.rows, n)'
    <3>1. n \in Nat /\ n <= lastSequence /\ n \in 0..m
      BY <1>3, <1>5
    <3>2. ASSUME NEW e \in Events
          PROVE  transaction.rows[e] = R[e] \/ R[e].seq > n
      <4>1. R[e].seq \in Nat
        BY <1>6 DEF Rows
      <4>. QED  BY <1>3, <1>4, <2>1, <3>1, <4>1 DEF Snapshot, Later
    <3>. QED  BY <1>2, <2>1, <3>1, <3>2 DEF Snapshot, R
  <2>2. transaction' = transaction /\ facts' = facts /\ page' = page /\ offset' = offset
    BY <1>2 DEF progress, projection, workers
  <2>. QED  BY <2>1, <2>2 DEF SafeInv, TransactionKnown, m
<1>. QED
  BY <1>2, <1>4, <1>5, <1>8, <1>9, <1>10, <1>11 DEF SafeInv, projection, Later, R, m

LEMMA LedgerBuiltSafe == SafeInv /\ LedgerBuilt => SafeInv'
BY DEF SafeInv, LedgerBuilt, TypeOK, PagesKnown, TransactionKnown, Snapshot, store,
       progress, projection, workers

LEMMA PostContentSafe == SafeInv /\ PostContent => SafeInv'
BY DEF SafeInv, PostContent, TypeOK, PagesKnown, TransactionKnown, Snapshot, store,
       progress, workers

-----------------------------------------------------------------------------
(* The workers' steps *)

LEMMA StartSafe == ASSUME SafeInv, NEW w \in Workers, Start(w) PROVE SafeInv'
<1>1. /\ prepared' = [prepared EXCEPT ![w] = TRUE]
      /\ offset' = 0 \/ offset' = offset
      /\ UNCHANGED <<final, rows, lastSequence, observations, quarantined, facts,
                     replay, proposal, savedContent, ledger, page, crashes, transaction>>
  BY DEF Start, store, projection
<1>2. lastSequence \in Nat /\ offset \in 0..lastSequence
  BY DEF SafeInv, TypeOK
<1>3. prepared' \in [Workers -> BOOLEAN] /\ \A v \in Workers : prepared[v] => prepared'[v]
  BY <1>1 DEF SafeInv, TypeOK
<1>4. transaction # NoTransaction => transaction.worker \in Workers
  BY DEF SafeInv, TransactionKnown, TransactionType
<1>5. TypeOK'
  BY <1>1, <1>2, <1>3, <1>4 DEF SafeInv, TypeOK
<1>6. ASSUME transaction # NoTransaction, NEW i \in Range(transaction.items),
             offset < i.version.seq, Known(i.event, i.version, transaction.rows)
      PROVE  offset' < i.version.seq
  BY <1>1, <1>2, <1>6 DEF Known, Rows
<1>7. TransactionKnown'
  BY <1>1, <1>6 DEF SafeInv, TransactionKnown, Snapshot
<1>. QED  BY <1>1, <1>5, <1>7 DEF SafeInv, PagesKnown

\* The rows above the offset, in the order of their numbers.
Queue == InOrder(Versions(offset), LAMBDA e, f : rows[e].seq < rows[f].seq)

LEMMA QueueOf ==
    ASSUME RowsSound(rows, final, lastSequence), NEW k \in 1..Cardinality(Versions(offset))
    PROVE  /\ Queue[k] \in Versions(offset)
           /\ \A e \in Versions(offset) : rows[e].seq < rows[Queue[k]].seq
                 => \E j \in 1..(k - 1) : Queue[j] = e
<1>. DEFINE V == Versions(offset)
            R == {p \in V \X V : rows[p[1]].seq < rows[p[2]].seq}
            n == Cardinality(V)
<1>1. V \subseteq Events /\ \A e \in V : rows[e].status # "absent"
  BY DEF Versions
<1>2. IsFiniteSet(V)
  BY <1>1, FiniteEvents
<1>3. \A e \in V : rows[e].seq \in Int /\ rows[e].seq # 0
  BY <1>1 DEF RowsSound, Rows
<1>4. \A e, f \in V : rows[e].seq = rows[f].seq => e = f
  BY <1>1, <1>3 DEF RowsSound
<1>5. \A x, y \in V : <<x, y>> \in R <=> rows[x].seq < rows[y].seq
  OBVIOUS
<1>6. Queue = Ordered(R, V)
  <2>1. \A x \in V : Below(R, V, x) = {y \in V : rows[y].seq < rows[x].seq}
    BY DEF Below
  <2>. DEFINE ranked == {<<Cardinality({y \in V : rows[y].seq < rows[x].seq}), x>> : x \in V}
  <2>2. Ranks(R, V) = ranked
    BY <2>1 DEF Ranks
  <2>3. Queue = [i \in 1..Cardinality(V) |-> (CHOOSE p \in ranked : p[1] = i - 1)[2]]
    BY DEF Queue, InOrder
  <2>. HIDE DEF ranked, R, V
  <2>. QED  BY <2>2, <2>3 DEF Ordered
<1>. HIDE DEF R, V
<1>7. Orders(R, V)
  BY <1>3, <1>4, <1>5 DEF Orders
<1>8. /\ n \in Nat /\ Queue \in [1..n -> V]
      /\ \A x \in V : \E i \in 1..n : Queue[i] = x
      /\ \A i, j \in 1..n : i < j => <<Queue[i], Queue[j]>> \in R
  <2>. DEFINE q == Ordered(R, V)
  <2>1. /\ n \in Nat /\ q \in [1..n -> V]
        /\ \A x \in V : \E i \in 1..n : q[i] = x
        /\ \A i, j \in 1..n : i < j => /\ <<q[i], q[j]>> \in R
                                        /\ <<q[j], q[i]>> \notin R
                                        /\ q[i] # q[j]
    BY <1>2, <1>7, OrderedOf
  <2>. HIDE DEF q, n
  <2>. QED  BY <1>6, <2>1 DEF q
<1>9. k \in 1..n
  BY DEF V
<1>. HIDE DEF n
<1>10. ASSUME NEW e \in V, rows[e].seq < rows[Queue[k]].seq
       PROVE  \E j \in 1..(k - 1) : Queue[j] = e
  <2>1. PICK i \in 1..n : Queue[i] = e
    BY <1>8
  <2>2. ~ (k < i)
    <3>. SUFFICES ASSUME k < i PROVE FALSE
      OBVIOUS
    <3>1. rows[Queue[k]].seq < rows[e].seq
      BY <1>5, <1>8, <1>9, <2>1
    <3>2. Queue[k] \in V
      BY <1>8, <1>9
    <3>. QED  BY <1>3, <1>10, <3>1, <3>2
  <2>3. i # k
    BY <1>3, <1>10, <2>1
  <2>. QED  BY <1>8, <1>9, <2>1, <2>2, <2>3
<1>. QED  BY <1>8, <1>9, <1>10 DEF V

\* A page that is replaced, in both parts of the invariant that speak of it.
LEMMA PageReplaced ==
    ASSUME TypeOK, PagesKnown, NEW w \in Workers, NEW p \in Seq(Versioned),
           Len(p) <= BatchSize, prepared[w] \/ p = <<>>,
           \A i \in DOMAIN p : Known(p[i].event, p[i].version, rows),
           page' = [page EXCEPT ![w] = p], rows' = rows,
           \/ prepared' = prepared
           \/ p = <<>> /\ prepared' = [prepared EXCEPT ![w] = FALSE]
    PROVE  /\ PagesKnown'
           /\ prepared' \in [Workers -> BOOLEAN]
           /\ \A v \in Workers : /\ Len(page'[v]) <= BatchSize
                                 /\ Range(page'[v]) \subseteq Versioned
                                 /\ ~ prepared'[v] => page'[v] = <<>>
<1>1. /\ page'[w] = p
      /\ \A v \in Workers \ {w} : page'[v] = page[v] /\ prepared'[v] = prepared[v]
      /\ page' \in [Workers -> Seq(Versioned)] /\ prepared' \in [Workers -> BOOLEAN]
      /\ p = <<>> \/ prepared'[w]
  BY DEF PagesKnown, TypeOK
<1>2. Range(p) \subseteq Versioned
  BY DEF Range
<1>3. PagesKnown'
  BY <1>1 DEF PagesKnown
<1>4. ASSUME NEW v \in Workers
      PROVE  /\ Len(page'[v]) <= BatchSize
             /\ Range(page'[v]) \subseteq Versioned
             /\ ~ prepared'[v] => page'[v] = <<>>
  <2>1. CASE v = w
    BY <1>1, <1>2, <2>1
  <2>2. CASE v # w
    BY <1>1, <2>2 DEF TypeOK
  <2>. QED  BY <2>1, <2>2
<1>. QED  BY <1>1, <1>3, <1>4

LEMMA EmptyPage ==
    /\ <<>> \in Seq(Versioned) /\ Len(<<>>) <= BatchSize
    /\ \A i \in DOMAIN <<>> : FALSE
BY ProjectionAssumption

LEMMA TailPage ==
    ASSUME PagesKnown, TypeOK, NEW w \in Workers, page[w] # <<>>
    PROVE  LET p == Tail(page[w])
           IN  /\ p \in Seq(Versioned) /\ Len(p) <= BatchSize
               /\ prepared[w]
               /\ page[w] \in Seq(Versioned)
               /\ \A i \in DOMAIN p : i + 1 \in DOMAIN page[w] /\ p[i] = page[w][i + 1]
               /\ \A i \in DOMAIN p : Known(p[i].event, p[i].version, rows)
<1>. DEFINE q == page[w]
            p == Tail(q)
<1>1. q \in Seq(Versioned) /\ Len(q) <= BatchSize /\ q # <<>> /\ prepared[w]
  BY DEF PagesKnown, TypeOK
<1>2. \A i \in DOMAIN q : Known(q[i].event, q[i].version, rows)
  BY DEF PagesKnown
<1>. HIDE DEF q
<1>3. /\ p \in Seq(Versioned) /\ Len(p) <= Len(q)
      /\ \A i \in DOMAIN p : i + 1 \in DOMAIN q /\ p[i] = q[i + 1]
  BY <1>1
<1>4. Len(p) <= BatchSize
  <2>1. Len(p) \in Nat /\ Len(q) \in Nat /\ BatchSize \in Nat
    BY <1>1, <1>3, ProjectionAssumption
  <2>. HIDE DEF p
  <2>. QED  BY <1>1, <1>3, <2>1
<1>. QED  BY <1>1, <1>2, <1>3, <1>4 DEF q

LEMMA HeadKnown ==
    ASSUME PagesKnown, NEW w \in Workers, page[w] # <<>>
    PROVE  /\ Item(w) \in Versioned /\ Item(w) = page[w][1] /\ 1 \in DOMAIN page[w]
           /\ Item(w).event \in Events /\ Item(w).version \in Rows
           /\ Known(Item(w).event, Item(w).version, rows)
<1>1. page[w] \in Seq(Versioned)
  BY DEF PagesKnown
<1>2. 1 \in DOMAIN page[w] /\ Head(page[w]) = page[w][1] /\ page[w][1] \in Versioned
  BY <1>1
<1>. QED  BY <1>2 DEF PagesKnown, Item, Versioned

\* The number of a known version.
LEMMA KnownNumber ==
    ASSUME RowsSound(rows, final, lastSequence), lastSequence \in Nat,
           NEW e \in Events, NEW v, Known(e, v, rows)
    PROVE  v.seq \in 1..lastSequence /\ v.seq \in Nat /\ v.seq <= rows[e].seq
<1>1. rows[e].seq \in Nat /\ rows[e].seq <= lastSequence
  BY DEF RowsSound, Rows, Absent
<1>. QED  BY <1>1 DEF Known, Rows

LEMMA FetchPageSafe == ASSUME SafeInv, NEW w \in Workers, FetchPage(w) PROVE SafeInv'
<1>. DEFINE V == Versions(offset)
            n == Min({BatchSize, Cardinality(V)})
            p == [i \in 1..n |-> [event |-> Queue[i], version |-> rows[Queue[i]]]]
<1>1. /\ page' = [page EXCEPT ![w] = p] /\ prepared[w] /\ page[w] = <<>>
      /\ UNCHANGED <<final, rows, lastSequence, observations, offset, quarantined, facts,
                     replay, proposal, savedContent, ledger, prepared, crashes, transaction>>
  BY DEF FetchPage, Queue, store, progress, projection
<1>2. n \in Nat /\ n <= BatchSize /\ n <= Cardinality(V)
  <2>1. IsFiniteSet(V)
    BY FiniteEvents DEF Versions
  <2>2. Cardinality(V) \in Nat /\ BatchSize \in Nat
    BY <2>1, FS_CardinalityType, ProjectionAssumption
  <2>3. {BatchSize, Cardinality(V)} \in SUBSET Nat /\ {BatchSize, Cardinality(V)} # {}
    BY <2>2
  <2>. HIDE DEF V
  <2>4. /\ Min({BatchSize, Cardinality(V)}) \in {BatchSize, Cardinality(V)}
        /\ \A k \in {BatchSize, Cardinality(V)} : Min({BatchSize, Cardinality(V)}) <= k
    BY <2>3, NatMin
  <2>. QED  BY <2>2, <2>4
<1>3. ASSUME NEW i \in 1..n
      PROVE  p[i] \in Versioned /\ Known(p[i].event, p[i].version, rows)
  <2>1. i \in 1..Cardinality(V)
    <3>1. Cardinality(V) \in Nat
      BY FS_CardinalityType, FiniteEvents DEF Versions
    <3>. QED  BY <1>2, <3>1
  <2>2. Queue[i] \in V
    BY <2>1, QueueOf DEF SafeInv
  <2>3. Queue[i] \in Events /\ rows[Queue[i]].status # "absent" /\ rows[Queue[i]] \in Rows
    BY <2>2 DEF Versions, SafeInv, TypeOK
  <2>4. Known(Queue[i], rows[Queue[i]], rows)
    BY <2>3, RowKnown DEF SafeInv
  <2>. QED  BY <2>3, <2>4 DEF Versioned
<1>4. p \in Seq(Versioned) /\ Len(p) <= BatchSize /\ DOMAIN p = 1..n
  <2>. HIDE DEF n
  <2>1. p \in [1..n -> Versioned]
    BY <1>3
  <2>. HIDE DEF p
  <2>. QED  BY <1>2, <2>1
<1>. HIDE DEF p, n
<1>5. /\ PagesKnown'
      /\ \A v \in Workers : /\ Len(page'[v]) <= BatchSize
                            /\ Range(page'[v]) \subseteq Versioned
                            /\ ~ prepared'[v] => page'[v] = <<>>
  BY <1>1, <1>3, <1>4, PageReplaced DEF SafeInv
<1>6. TypeOK'
  BY <1>1, <1>5 DEF SafeInv, TypeOK
<1>7. TransactionKnown'
  <2>1. \A v \in Workers : page[v] # <<>> => page'[v] = page[v]
    BY <1>1
  <2>. QED  BY <1>1, <2>1 DEF SafeInv, TransactionKnown, TransactionType, Snapshot
<1>. QED  BY <1>1, <1>5, <1>6, <1>7 DEF SafeInv

LEMMA SkipSafe == ASSUME SafeInv, NEW w \in Workers, Skip(w) PROVE SafeInv'
<1>1. /\ page[w] # <<>> /\ transaction = NoTransaction
      /\ page' = [page EXCEPT ![w] = Tail(page[w])]
      /\ UNCHANGED <<final, rows, lastSequence, observations, offset, quarantined, facts,
                     replay, proposal, savedContent, ledger, prepared, crashes, transaction>>
  BY DEF Skip, AtHead, store, progress, projection
<1>2. /\ PagesKnown'
      /\ \A v \in Workers : /\ Len(page'[v]) <= BatchSize
                            /\ Range(page'[v]) \subseteq Versioned
                            /\ ~ prepared'[v] => page'[v] = <<>>
  BY <1>1, PageReplaced, TailPage DEF SafeInv
<1>3. TypeOK'
  BY <1>1, <1>2 DEF SafeInv, TypeOK
<1>. QED  BY <1>1, <1>2, <1>3 DEF SafeInv, TransactionKnown

LEMMA QuarantineSafe == ASSUME SafeInv, NEW w \in Workers, Quarantine(w) PROVE SafeInv'
<1>1. /\ page[w] # <<>> /\ transaction = NoTransaction
      /\ page' = [page EXCEPT ![w] = Tail(page[w])]
      /\ Item(w).event \in Undecodable
      /\ quarantined' = quarantined \cup {<<Item(w).event, Item(w).version.seq>>}
      /\ offset' = Item(w).version.seq
      /\ UNCHANGED <<final, rows, lastSequence, observations, facts,
                     replay, proposal, savedContent, ledger, prepared, crashes, transaction>>
  BY DEF Quarantine, AtHead, store, projection
<1>2. /\ PagesKnown'
      /\ \A v \in Workers : /\ Len(page'[v]) <= BatchSize
                            /\ Range(page'[v]) \subseteq Versioned
                            /\ ~ prepared'[v] => page'[v] = <<>>
  BY <1>1, PageReplaced, TailPage DEF SafeInv
<1>3. Item(w).version.seq \in 1..lastSequence /\ lastSequence \in Nat
  BY <1>1, HeadKnown, KnownNumber DEF SafeInv, TypeOK
<1>4. TypeOK'
  BY <1>1, <1>2, <1>3 DEF SafeInv, TypeOK
<1>. QED  BY <1>1, <1>2, <1>4 DEF SafeInv, TransactionKnown

LEMMA BeginSafe ==
    ASSUME SafeInv, NEW w \in Workers, NEW items \in Seq(Versioned), Len(items) <= 1,
           \A i \in Range(items) : /\ page[w] # <<>> /\ i = Head(page[w])
                                   /\ i.event \notin Undecodable
                                   /\ Known(i.event, i.version, rows)
                                   /\ offset < i.version.seq,
           prepared[w], Begin(w, items),
           UNCHANGED <<store, progress, projection, savedContent, ledger, workers>>
    PROVE  SafeInv'
<1>1. /\ transaction' = [worker |-> w, items |-> items, rows |-> rows,
                         contents |-> savedContent, ledger |-> ledger]
      /\ UNCHANGED <<final, rows, lastSequence, observations, offset, quarantined, facts,
                     replay, proposal, savedContent, ledger, page, prepared, crashes>>
  BY DEF Begin, store, progress, projection, workers
<1>2. /\ transaction' \in TransactionType
      /\ transaction'.worker = w /\ transaction'.items = items /\ transaction'.rows = rows
  BY <1>1 DEF SafeInv, TypeOK, TransactionType
<1>3. lastSequence \in 0..lastSequence /\ Snapshot(rows, lastSequence)
  BY SnapshotNow DEF SafeInv, TypeOK
<1>4. TransactionKnown'
  BY <1>1, <1>2, <1>3 DEF SafeInv, TransactionKnown, Snapshot
<1>5. TypeOK'
  BY <1>1, <1>2 DEF SafeInv, TypeOK
<1>. QED  BY <1>1, <1>4, <1>5 DEF SafeInv, PagesKnown

LEMMA HandleSafe == ASSUME SafeInv, NEW w \in Workers, Handle(w) PROVE SafeInv'
<1>1. /\ page[w] # <<>> /\ offset < Item(w).version.seq
      /\ Item(w).event \notin Undecodable /\ Begin(w, <<Item(w)>>)
      /\ UNCHANGED <<store, progress, projection, savedContent, ledger, workers>>
  BY DEF Handle, AtHead
<1>2. Item(w) \in Versioned /\ Known(Item(w).event, Item(w).version, rows)
  BY <1>1, HeadKnown DEF SafeInv
<1>3. /\ <<Item(w)>> \in Seq(Versioned) /\ Len(<<Item(w)>>) <= 1
      /\ Range(<<Item(w)>>) = {Item(w)}
  BY <1>2 DEF Range
<1>4. prepared[w] /\ Item(w) = Head(page[w])
  BY <1>1 DEF SafeInv, TypeOK, Item
<1>. HIDE DEF Item
<1>. QED  BY <1>1, <1>2, <1>3, <1>4, BeginSafe

LEMMA AfterPassSafe == ASSUME SafeInv, NEW w \in Workers, AfterPass(w) PROVE SafeInv'
<1>1. /\ prepared[w] /\ Begin(w, <<>>)
      /\ UNCHANGED <<store, progress, projection, savedContent, ledger, workers>>
  BY DEF AfterPass
<1>2. <<>> \in Seq(Versioned) /\ Len(<<>>) <= 1 /\ Range(<<>>) = {}
  BY DEF Range
<1>. QED  BY <1>1, <1>2, BeginSafe

-----------------------------------------------------------------------------
(* What a transaction writes *)

ReplayType == [state : {"collecting", "complete"}, target : 0..lastSequence]

\* A proposal is written only with its creation's fact, or left as it is.
Writeable(F, o) ==
    o.ok => /\ o.facts = F
            /\ o.replay \in ReplayType
            /\ \/ o.proposal = NoProposal
               \/ o.proposal = proposal
               \/ \E e \in OfType(Events, "created") : F[e].status # "absent"

LEMMA ReconcileWriteable ==
    ASSUME NEW F, NEW r \in ReplayType
    PROVE  Writeable(F, Reconcile(F, r))
<1>. DEFINE S == Surviving(F, transaction.rows)
            p == Reconciled(F, S, transaction.contents)
<1>1. CASE Refused(F, S) \/ ~ Weighable(F, S)
  BY <1>1 DEF Writeable, Reconcile, Throws
<1>2. CASE ~ (Refused(F, S) \/ ~ Weighable(F, S))
  <2>1. Reconcile(F, r) = [ok |-> TRUE, facts |-> F, replay |-> r, proposal |-> p]
    BY <1>2 DEF Reconcile, Writes
  <2>2. CASE Creations(F, S) = {}
    <3>1. p = NoProposal
      BY <2>2 DEF Reconciled
    <3>. HIDE DEF p
    <3>. QED  BY <2>1, <3>1 DEF Writeable
  <2>3. CASE Creations(F, S) # {}
    <3>1. PICK e : e \in Creations(F, S)
      BY <2>3
    <3>2. e \in OfType(Events, "created") /\ F[e].status # "absent"
      BY <3>1 DEF Creations, OfType, Surviving
    <3>. HIDE DEF p
    <3>. QED  BY <2>1, <3>2 DEF Writeable
  <2>. QED  BY <2>2, <2>3
<1>. QED  BY <1>1, <1>2

LEMMA LatestTargetIs ==
    ASSUME replay \in ReplayType, lastSequence \in Nat
    PROVE  LatestTarget = lastSequence
<1>1. replay.target \in Nat /\ replay.target <= lastSequence
  BY DEF ReplayType
<1>. QED  BY <1>1 DEF LatestTarget, Max

LEMMA FinishReplayWriteable ==
    ASSUME replay \in ReplayType, lastSequence \in Nat, NEW F, NEW processed
    PROVE  Writeable(F, FinishReplay(F, processed))
<1>. DEFINE extended == [replay EXCEPT !.target = LatestTarget]
            ended == [extended EXCEPT !.state = "complete"]
<1>1. extended \in ReplayType /\ ended \in ReplayType
  <2>1. LatestTarget \in 0..lastSequence
    BY LatestTargetIs
  <2>. QED  BY <2>1 DEF ReplayType
<1>. HIDE DEF extended
<1>2. Writeable(F, Writes(F, replay, proposal)) /\ Writeable(F, Writes(F, extended, proposal))
  BY <1>1 DEF Writeable, Writes
<1>3. Writeable(F, Throws)
  BY DEF Writeable, Throws
<1>4. Writeable(F, Reconcile(F, ended))
  BY <1>1, ReconcileWriteable
<1>5. FinishReplay(F, processed) \in
        {Writes(F, replay, proposal), Writes(F, extended, proposal), Throws,
         Reconcile(F, ended)}
  BY DEF FinishReplay, extended
<1>. HIDE DEF ended
<1>. QED  BY <1>2, <1>3, <1>4, <1>5

LEMMA RecordedWriteable ==
    ASSUME replay \in ReplayType, lastSequence \in Nat, NEW e, NEW v
    PROVE  Writeable([facts EXCEPT ![e] = Newer(@, v)], Recorded(e, v))
<1>. DEFINE F == [facts EXCEPT ![e] = Newer(@, v)]
<1>1. Writeable(F, Writes(F, replay, proposal))
  BY DEF Writeable, Writes
<1>2. Writeable(F, FinishReplay(F, v.seq)) /\ Writeable(F, Reconcile(F, replay))
  BY FinishReplayWriteable, ReconcileWriteable
<1>3. Recorded(e, v) \in
        {Writes(F, replay, proposal), FinishReplay(F, v.seq), Reconcile(F, replay)}
  BY DEF Recorded
<1>. HIDE DEF F
<1>4. Writeable(F, Recorded(e, v))
  BY <1>1, <1>2, <1>3
<1>. QED  BY <1>4 DEF F

\* The facts with one more version.
LEMMA NewerKnown ==
    ASSUME NEW R \in [Events -> Rows], NEW F, FactsKnown(F, R),
           NEW e \in Events \ Undecodable, NEW v, Known(e, v, R)
    PROVE  FactsKnown([F EXCEPT ![e] = Newer(@, v)], R)
<1>. DEFINE G == [F EXCEPT ![e] = Newer(@, v)]
<1>1. F \in [Events -> Rows] /\ v \in Rows
  BY DEF FactsKnown, Known
<1>2. G[e] = v \/ G[e] = F[e]
  BY <1>1 DEF Newer
<1>3. \A f \in Events \ {e} : G[f] = F[f]
  BY <1>1
<1>4. G \in [Events -> Rows]
  BY <1>1 DEF Newer
<1>. HIDE DEF G
<1>5. FactsKnown(G, R)
  BY <1>2, <1>3, <1>4 DEF FactsKnown
<1>. QED  BY <1>5 DEF G

\* A transaction under way: its worker, its rows, and its item if it has one.
LEMMA UnderWay ==
    ASSUME SafeInv, NEW w \in Workers, transaction.worker = w
    PROVE  /\ transaction # NoTransaction /\ prepared[w]
           /\ FactsKnown(facts, transaction.rows)
           /\ transaction.rows \in [Events -> Rows]
           /\ transaction.contents \in BOOLEAN
           /\ \/ transaction.items = <<>>
              \/ /\ transaction.items = <<Item(w)>> /\ transaction.items[1] = Item(w)
                 /\ transaction.items # <<>> /\ page[w] # <<>>
                 /\ Item(w).event \in Events \ Undecodable
                 /\ Known(Item(w).event, Item(w).version, rows)
                 /\ Known(Item(w).event, Item(w).version, transaction.rows)
                 /\ Item(w).version.seq \in 1..lastSequence
                 /\ offset < Item(w).version.seq
<1>1. transaction # NoTransaction
  BY ProjectionAssumption DEF NoTransaction
<1>2. transaction \in TransactionType /\ Len(transaction.items) <= 1 /\ prepared[w]
  BY <1>1 DEF SafeInv, TransactionKnown, TypeOK
<1>3. /\ transaction.items \in Seq(Versioned) /\ transaction.rows \in [Events -> Rows]
      /\ transaction.contents \in BOOLEAN
  BY <1>2 DEF TransactionType
<1>4. CASE transaction.items # <<>>
  <2>1. transaction.items = <<transaction.items[1]>> /\ 1 \in DOMAIN transaction.items
    BY <1>2, <1>3, <1>4
  <2>2. transaction.items[1] \in Range(transaction.items)
    BY <2>1 DEF Range
  <2>. DEFINE i == transaction.items[1]
  <2>. HIDE DEF i
  <2>3. /\ page[w] # <<>> /\ i = Head(page[w]) /\ i.event \notin Undecodable
        /\ Known(i.event, i.version, transaction.rows) /\ offset < i.version.seq
    BY <1>1, <2>2 DEF SafeInv, TransactionKnown, i
  <2>4. i = Item(w)
    BY <2>3 DEF Item
  <2>5. /\ i.event \in Events /\ Known(i.event, i.version, rows)
        /\ i.version.seq \in 1..lastSequence
    BY <2>3, <2>4, HeadKnown, KnownNumber DEF SafeInv, TypeOK
  <2>. QED  BY <1>1, <1>2, <1>3, <1>4, <2>1, <2>3, <2>4, <2>5 DEF SafeInv, TransactionKnown, i
<1>. QED  BY <1>1, <1>2, <1>3, <1>4 DEF SafeInv, TransactionKnown

LEMMA FinishSafe == ASSUME SafeInv, NEW w \in Workers, Finish(w) PROVE SafeInv'
<1>. DEFINE items == transaction.items
            i == Item(w)
            outcome == IF items = <<>> THEN FinishReplay(facts, offset)
                       ELSE Recorded(items[1].event, items[1].version)
<1>1. /\ transaction.worker = w /\ transaction' = NoTransaction
      /\ UNCHANGED <<final, rows, lastSequence, observations, quarantined,
                     savedContent, ledger, prepared, crashes>>
  BY DEF Finish, store
<1>2. \/ /\ outcome.ok /\ facts' = outcome.facts /\ replay' = outcome.replay
         /\ proposal' = outcome.proposal
         /\ IF items = <<>> THEN UNCHANGED <<offset, page>>
            ELSE /\ offset' = items[1].version.seq
                 /\ page' = [page EXCEPT ![w] = Tail(page[w])]
      \/ /\ ~ outcome.ok /\ page' = [page EXCEPT ![w] = <<>>]
         /\ UNCHANGED <<facts, replay, proposal, offset>>
  BY DEF Finish, projection
<1>3. TransactionKnown'
  BY <1>1 DEF TransactionKnown
<1>4. /\ lastSequence \in Nat /\ replay \in ReplayType /\ rows \in [Events -> Rows]
      /\ FactsKnown(facts, rows) /\ TypeOK /\ PagesKnown
  BY DEF SafeInv, TypeOK, ReplayType
<1>5. \/ items = <<>>
      \/ /\ items # <<>> /\ items[1] = i /\ page[w] # <<>>
         /\ i.event \in Events \ Undecodable /\ Known(i.event, i.version, rows)
         /\ i.version.seq \in 1..lastSequence
  BY <1>1, UnderWay
<1>6. prepared[w]
  BY <1>1, UnderWay
<1>. DEFINE F == IF items = <<>> THEN facts
                 ELSE [facts EXCEPT ![i.event] = Newer(@, i.version)]
<1>7. Writeable(F, outcome)
  BY <1>4, <1>5, FinishReplayWriteable, RecordedWriteable
<1>8. FactsKnown(F, rows)
  BY <1>4, <1>5, NewerKnown
<1>9. \A e \in Events : facts[e].status # "absent" => F[e].status # "absent"
  <2>1. CASE items = <<>>
    BY <2>1
  <2>2. CASE items # <<>>
    <3>1. i.version.status # "absent"
      BY <1>5, <2>2 DEF Known
    <3>. QED  BY <1>4, <1>5, <2>2, <3>1 DEF Newer, FactsKnown
  <2>. QED  BY <2>1, <2>2
<1>. HIDE DEF items, i, outcome, F
<1>10. /\ FactsKnown(facts', rows) /\ replay' \in ReplayType
       /\ proposal' # NoProposal
            => \E e \in OfType(Events, "created") : facts'[e].status # "absent"
  <2>1. CASE ~ outcome.ok
    BY <1>2, <1>4, <2>1 DEF TypeOK
  <2>2. CASE outcome.ok
    <3>1. /\ facts' = F /\ replay' \in ReplayType
          /\ \/ proposal' = NoProposal \/ proposal' = proposal
             \/ \E e \in OfType(Events, "created") : F[e].status # "absent"
      BY <1>2, <1>7, <2>2 DEF Writeable
    <3>2. proposal # NoProposal
            => \E e \in OfType(Events, "created") : facts[e].status # "absent"
      BY <1>4 DEF TypeOK
    <3>3. OfType(Events, "created") \subseteq Events
      BY DEF OfType
    <3>. QED  BY <1>8, <1>9, <3>1, <3>2, <3>3
  <2>. QED  BY <2>1, <2>2
<1>11. offset' \in 0..lastSequence
  BY <1>2, <1>4, <1>5 DEF TypeOK
<1>12. /\ PagesKnown'
       /\ \A v \in Workers : /\ Len(page'[v]) <= BatchSize
                             /\ Range(page'[v]) \subseteq Versioned
                             /\ ~ prepared'[v] => page'[v] = <<>>
  <2>1. CASE page' = page
    BY <1>1, <1>4, <2>1 DEF TypeOK, PagesKnown
  <2>2. CASE page' = [page EXCEPT ![w] = <<>>]
    BY <1>1, <1>4, <2>2, PageReplaced, EmptyPage
  <2>3. CASE page' = [page EXCEPT ![w] = Tail(page[w])] /\ page[w] # <<>>
    BY <1>1, <1>4, <2>3, PageReplaced, TailPage
  <2>. QED  BY <1>2, <1>5, <2>1, <2>2, <2>3
<1>13. \A e \in Events : facts'[e].seq <= rows[e].seq
  <2>. SUFFICES ASSUME NEW e \in Events PROVE facts'[e].seq <= rows[e].seq
    OBVIOUS
  <2>1. rows[e].seq \in Nat
    BY <1>4 DEF Rows
  <2>2. CASE facts'[e] = Absent
    BY <2>1, <2>2 DEF Absent
  <2>3. CASE Known(e, facts'[e], rows)
    BY <2>3 DEF Known
  <2>. QED  BY <1>10, <2>2, <2>3 DEF FactsKnown
<1>14. TypeOK'
  BY <1>1, <1>4, <1>10, <1>11, <1>12, <1>13 DEF TypeOK, ReplayType, FactsKnown
<1>. QED  BY <1>1, <1>3, <1>10, <1>12, <1>14 DEF SafeInv

LEMMA CrashSafe == ASSUME SafeInv, NEW w \in Workers, Crash(w) PROVE SafeInv'
<1>1. /\ crashes < MaxCrashes /\ crashes' = crashes + 1
      /\ prepared' = [prepared EXCEPT ![w] = FALSE]
      /\ page' = [page EXCEPT ![w] = <<>>]
      /\ transaction' = RolledBack(w)
      /\ UNCHANGED <<final, rows, lastSequence, observations, offset, quarantined, facts,
                     replay, proposal, savedContent, ledger>>
  BY DEF Crash, store, progress, projection
<1>2. TypeOK /\ PagesKnown /\ TransactionKnown
  BY DEF SafeInv
<1>3. \/ transaction' = NoTransaction
      \/ transaction' = transaction /\ transaction.worker # w
  <2>1. transaction' = RolledBack(w)
    BY <1>1
  <2>2. CASE transaction.worker = w
    BY <2>1, <2>2 DEF RolledBack
  <2>3. CASE transaction.worker # w
    BY <2>1, <2>3 DEF RolledBack
  <2>. QED  BY <2>2, <2>3
<1>4. /\ PagesKnown'
      /\ prepared' \in [Workers -> BOOLEAN]
      /\ \A v \in Workers : /\ Len(page'[v]) <= BatchSize
                            /\ Range(page'[v]) \subseteq Versioned
                            /\ ~ prepared'[v] => page'[v] = <<>>
  BY <1>1, <1>2, PageReplaced, EmptyPage
<1>5. transaction # NoTransaction => transaction.worker \in Workers
  BY <1>2 DEF TransactionKnown, TransactionType
<1>6. \A v \in Workers \ {w} : prepared'[v] = prepared[v] /\ page'[v] = page[v]
  BY <1>1, <1>2 DEF TypeOK, PagesKnown
<1>7. TypeOK'
  BY <1>1, <1>2, <1>3, <1>4, <1>5, <1>6 DEF TypeOK
<1>8. TransactionKnown'
  BY <1>1, <1>2, <1>3, <1>5, <1>6 DEF TransactionKnown, Snapshot
<1>. QED  BY <1>1, <1>4, <1>7, <1>8 DEF SafeInv

-----------------------------------------------------------------------------
(* The first state *)

\* The rows that a migration finds are of one branch, numbered along it.
LEMMA MigratedRows ==
    ASSUME NEW b \in Blocks, NEW t \in Blocks, b \in Branch[t],
           NEW shown, shown = EventsOf(Branch[t]),
           NEW at, at = [e \in shown |-> [block |-> RowAt(e, Branch[t])]],
           NEW number, number = Numbers(0, EarlierIn(at, shown), shown),
           NEW R, R = [e \in Events |->
                         IF e \notin shown THEN Absent
                         ELSE [status |-> IF at[e].block \in Branch[b]
                                          THEN "canonical" ELSE "pending",
                               block |-> at[e].block,
                               seq |-> number[e]]]
    PROVE  Cardinality(shown) \in Nat /\ RowsSound(R, b, Cardinality(shown))
<1>. DEFINE O == EarlierIn(at, shown)
            n == Cardinality(shown)
<1>1. shown \subseteq Events
  BY EventsOfType, BranchSelf
<1>2. IsFiniteSet(shown)
  BY <1>1, FiniteEvents
<1>3. n \in Nat
  BY <1>2, FS_CardinalityType
<1>4. Placed(at, shown, t)
  BY RowAtBlock DEF Placed
<1>5. Orders(O, shown)
  BY <1>4, EarlierOrders
<1>. HIDE DEF O
<1>6. /\ \A e \in shown : number[e] \in Nat /\ number[e] > 0 /\ number[e] <= 0 + n
      /\ \A e, f \in shown : number[e] = number[f] => e = f
  BY <1>2, <1>5, NumbersDiffer DEF O
<1>7. \A e \in shown : number[e] \in 1..n
  <2>. HIDE DEF n
  <2>. QED  BY <1>3, <1>6
<1>10. \A e \in Events \ shown : R[e] = Absent
  OBVIOUS
<1>11. \A e \in shown : /\ R[e].status = IF at[e].block \in Branch[b]
                                         THEN "canonical" ELSE "pending"
                        /\ R[e].block = at[e].block
                        /\ R[e].seq = number[e]
                        /\ at[e].block \in Blocks
                        /\ R[e] \in Rows
  <2>1. \A e \in shown : at[e].block \in Blocks
    BY RowAtBlock
  <2>2. \A e \in shown : number[e] \in Nat
    BY <1>6
  <2>. QED  BY <1>1, <2>1, <2>2 DEF Rows
<1>. HIDE DEF n
<1>12. R \in [Events -> Rows]
  <2>1. Absent \in Rows
    BY ProjectionAssumption DEF Absent, Rows
  <2>. QED  BY <1>10, <1>11, <2>1
<1>13. \A e \in Events : IF R[e].status = "absent" THEN R[e] = Absent
                                                   ELSE R[e].seq \in 1..n
  BY <1>7, <1>10, <1>11 DEF Absent
<1>14. ASSUME NEW e \in Events, NEW f \in Events, R[e].seq = R[f].seq
       PROVE  R[e].seq = 0 \/ e = f
  BY <1>6, <1>10, <1>11, <1>14 DEF Absent
<1>15. \A e \in Events : R[e].status = "canonical" => R[e].block \in Branch[b]
  BY <1>10, <1>11 DEF Absent
<1>16. Showing(R) = EventsOf(Branch[t]) /\ Placed(R, Showing(R), t)
  BY <1>1, <1>4, <1>10, <1>11 DEF Placed, Absent, Showing
<1>. QED  BY <1>3, <1>12, <1>13, <1>14, <1>15, <1>16 DEF RowsSound, n

\* The store is empty, or the replay of a migration begins.
FirstRows ==
    /\ RowsSound(rows, final, lastSequence) /\ final \in Blocks
    /\ lastSequence \in Nat /\ replay \in ReplayType
    /\ rows = [e \in Events |-> Absent] \/ replay.state = "collecting"

LEMMA InitRows == Init => FirstRows
<1>. SUFFICES ASSUME Init PROVE FirstRows
  OBVIOUS
<1>1. CASE /\ final = Root /\ rows = [e \in Events |-> Absent] /\ lastSequence = 0
           /\ replay = [state |-> "complete", target |-> 0]
  <2>1. Absent \in Rows /\ Root \in Blocks /\ Root \in Branch[Root]
    BY ProjectionAssumption, BranchSelf DEF Absent, Rows
  <2>2. \A e \in Events : rows[e] = Absent /\ Absent.status = "absent" /\ Absent.seq = 0
    BY <1>1 DEF Absent
  <2>3. Showing(rows) = EventsOf(Branch[Root]) /\ Placed(rows, Showing(rows), Root)
    <3>1. Showing(rows) = {}
      BY <2>2 DEF Showing
    <3>2. EventsOf(Branch[Root]) = {}
      <4>1. Branch[Root] = {Root} /\ EventsIn[Root] = <<>>
        BY BranchRoot, ProjectionAssumption
      <4>. QED  BY <4>1 DEF EventsOf, Range
    <3>. QED  BY <3>1, <3>2 DEF Placed
  <2>4. rows \in [Events -> Rows]
    BY <1>1, <2>1
  <2>5. RowsSound(rows, final, lastSequence)
    BY <1>1, <2>1, <2>2, <2>3, <2>4 DEF RowsSound
  <2>6. replay \in ReplayType
    BY <1>1 DEF ReplayType
  <2>. QED  BY <1>1, <2>1, <2>5, <2>6 DEF FirstRows
<1>2. ASSUME NEW b \in Blocks, NEW t \in Blocks,
             LET shown == EventsOf(Branch[t])
                 at == [e \in shown |-> [block |-> RowAt(e, Branch[t])]]
                 number == NumberedAfter(0, shown, LAMBDA e, f : Earlier(at, e, f))
             IN  /\ b \in Branch[t] /\ shown # {}
                 /\ final = b /\ lastSequence = Cardinality(shown)
                 /\ rows = [e \in Events |->
                       IF e \notin shown THEN Absent
                       ELSE [status |-> IF at[e].block \in Branch[b]
                                        THEN "canonical" ELSE "pending",
                             block |-> at[e].block,
                             seq |-> number[e]]]
                 /\ replay = [state |-> "collecting", target |-> lastSequence]
      PROVE  FirstRows
  <2>. DEFINE shown == EventsOf(Branch[t])
              at == [e \in shown |-> [block |-> RowAt(e, Branch[t])]]
              number == NumberedAfter(0, shown, LAMBDA e, f : Earlier(at, e, f))
  <2>1. /\ b \in Branch[t] /\ final = b /\ lastSequence = Cardinality(shown)
        /\ rows = [e \in Events |->
              IF e \notin shown THEN Absent
              ELSE [status |-> IF at[e].block \in Branch[b] THEN "canonical" ELSE "pending",
                    block |-> at[e].block,
                    seq |-> number[e]]]
        /\ replay = [state |-> "collecting", target |-> lastSequence]
    BY <1>2
  <2>2. Cardinality(shown) \in Nat /\ RowsSound(rows, b, Cardinality(shown))
    <3>1. number = Numbers(0, EarlierIn(at, shown), shown)
      <4>1. \A e \in shown : Below(EarlierIn(at, shown), shown, e)
                               = {y \in shown : Earlier(at, y, e)}
        BY DEF Below, EarlierIn
      <4>. QED  BY <4>1 DEF Numbers, NumberedAfter
    <3>. HIDE DEF number
    <3>. QED  BY <2>1, <3>1, MigratedRows
  <2>. HIDE DEF shown, at, number
  <2>3. lastSequence \in 0..lastSequence
    BY <2>1, <2>2
  <2>4. replay \in ReplayType
    BY <2>1, <2>3 DEF ReplayType
  <2>. QED  BY <2>1, <2>2, <2>4 DEF FirstRows
<1>. QED  BY <1>1, <1>2 DEF Init

LEMMA InitSafe == Init => SafeInv
<1>. SUFFICES ASSUME Init PROVE SafeInv
  OBVIOUS
<1>1. /\ RowsSound(rows, final, lastSequence) /\ final \in Blocks
      /\ lastSequence \in Nat /\ replay \in ReplayType
  BY InitRows DEF FirstRows
<1>2. /\ observations = 0 /\ offset = 0 /\ quarantined = {}
      /\ facts = [e \in Events |-> Absent] /\ proposal = NoProposal
      /\ savedContent = FALSE /\ ledger \in BOOLEAN
      /\ prepared = [w \in Workers |-> FALSE] /\ page = [w \in Workers |-> <<>>]
      /\ transaction = NoTransaction /\ crashes = 0
  BY DEF Init
<1>3. Absent \in Rows /\ Absent.seq = 0 /\ rows \in [Events -> Rows]
  BY <1>1, ProjectionAssumption DEF Absent, Rows, RowsSound
<1>4. FactsKnown(facts, rows)
  BY <1>2, <1>3 DEF FactsKnown
<1>5. Range(<<>>) = {} /\ Len(<<>>) <= BatchSize /\ <<>> \in Seq(Versioned)
  BY EmptyPage DEF Range
<1>6. \A e \in Events : facts[e].seq <= rows[e].seq
  BY <1>2, <1>3 DEF Rows
<1>7. TypeOK
  <2>1. observations \in 0..MaxObservations /\ offset \in 0..lastSequence
    BY <1>1, <1>2, ProjectionAssumption
  <2>2. \A w \in Workers : /\ Len(page[w]) <= BatchSize
                           /\ Range(page[w]) \subseteq Versioned
                           /\ ~ prepared[w] => page[w] = <<>>
    BY <1>2, <1>5
  <2>3. facts \in [Events -> Rows] /\ prepared \in [Workers -> BOOLEAN]
    BY <1>2, <1>3
  <2>. QED  BY <1>1, <1>2, <1>3, <1>6, <2>1, <2>2, <2>3 DEF TypeOK, ReplayType
<1>8. PagesKnown /\ TransactionKnown
  BY <1>2, EmptyPage DEF PagesKnown, TransactionKnown
<1>. QED  BY <1>1, <1>4, <1>7, <1>8 DEF SafeInv

LEMMA NextSafe == SafeInv /\ [Next]_vars => SafeInv'
<1>. SUFFICES ASSUME SafeInv, [Next]_vars PROVE SafeInv'
  OBVIOUS
<1>1. CASE \E b, t \in Blocks : Observe(b, t)
  BY <1>1, ObserveSafe
<1>2. CASE LedgerBuilt
  BY <1>2, LedgerBuiltSafe
<1>3. CASE PostContent
  BY <1>3, PostContentSafe
<1>4. CASE \E w \in Workers : Poll(w) \/ Finish(w) \/ Crash(w)
  BY <1>4, StartSafe, FetchPageSafe, SkipSafe, QuarantineSafe, HandleSafe, AfterPassSafe,
     FinishSafe, CrashSafe DEF Poll
<1>5. CASE UNCHANGED vars
  BY <1>5 DEF SafeInv, TypeOK, PagesKnown, TransactionKnown, Snapshot, vars, store,
     progress, projection, workers
<1>. QED  BY <1>1, <1>2, <1>3, <1>4, <1>5 DEF Next

\* Every version is accepted, at every step of every interleaving of the
\* workers with reorganizations and crashes: the facts that survive are of one
\* branch, of one creation and within the payout limit.
THEOREM VersionsAccepted == Spec => []Sound
<1>1. SafeInv => Sound
  BY NotRefused DEF SafeInv, TypeOK, Sound, EveryVersionAccepted
<1>. QED  BY <1>1, InitSafe, NextSafe, PTL DEF Spec

-----------------------------------------------------------------------------
(* The lock on the archive, and the end of a replay *)

LEMMA HeldStep == SafeInv /\ ArchiveHeld /\ [Next]_vars => ArchiveHeld'
<1>. SUFFICES ASSUME SafeInv, ArchiveHeld, [Next]_vars PROVE ArchiveHeld'
  OBVIOUS
<1>1. CASE UNCHANGED <<transaction, replay, facts, rows>>
  BY <1>1 DEF ArchiveHeld, ArchiveLocked
<1>2. CASE transaction' = NoTransaction
  BY <1>2 DEF ArchiveHeld, ArchiveLocked
<1>3. ASSUME NEW b \in Blocks, NEW t \in Blocks, Observe(b, t) PROVE ArchiveHeld'
  BY <1>3 DEF Observe, projection, ArchiveHeld, ArchiveLocked
<1>4. CASE LedgerBuilt \/ PostContent
  BY <1>1, <1>4 DEF LedgerBuilt, PostContent, store, projection
<1>5. ASSUME NEW w \in Workers, Poll(w) PROVE ArchiveHeld'
  <2>1. CASE Start(w) \/ FetchPage(w) \/ Skip(w) \/ Quarantine(w)
    BY <1>1, <2>1 DEF Start, FetchPage, Skip, Quarantine, store, projection
  <2>2. CASE Handle(w) \/ AfterPass(w)
    <3>1. transaction'.rows = rows /\ rows' = rows /\ replay' = replay
      BY <2>2 DEF Handle, AfterPass, Begin, store, projection
    <3>2. transaction'.items = <<>> => replay.state = "collecting"
      BY <2>2 DEF Handle, AfterPass, Begin
    <3>. QED  BY <3>1, <3>2 DEF ArchiveHeld
  <2>. QED  BY <1>5, <2>1, <2>2 DEF Poll
<1>6. ASSUME NEW w \in Workers, Finish(w) PROVE ArchiveHeld'
  BY <1>2, <1>6 DEF Finish
<1>7. ASSUME NEW w \in Workers, Crash(w) PROVE ArchiveHeld'
  BY <1>1, <1>2, <1>7 DEF Crash, RolledBack, store, projection
<1>8. CASE UNCHANGED vars
  BY <1>1, <1>8 DEF vars, store, projection
<1>. QED  BY <1>3, <1>4, <1>5, <1>6, <1>7, <1>8 DEF Next

\* What has been checked when a replay ends.
LEMMA ReplayEnds ==
    ASSUME replay \in ReplayType, lastSequence \in Nat, NEW F, NEW processed \in Nat,
           replay.state = "collecting",
           NEW o, o = FinishReplay(F, processed), o.ok, o.replay.state = "complete"
    PROVE  /\ processed >= replay.target /\ processed >= lastSequence
           /\ Missing(F, lastSequence) = {} /\ Stale(F, lastSequence) = {}
           /\ o.facts = F
           /\ o.proposal = Reconciled(F, Surviving(F, transaction.rows), transaction.contents)
<1>. DEFINE extended == [replay EXCEPT !.target = LatestTarget]
<1>1. LatestTarget = lastSequence
  BY LatestTargetIs
<1>2. replay.target \in Nat /\ extended.state = "collecting"
  BY DEF ReplayType
<1>. HIDE DEF extended
<1>3. ~ (processed < replay.target)
  <2>. SUFFICES ASSUME processed < replay.target PROVE FALSE
    OBVIOUS
  <2>1. o = Writes(F, replay, proposal)
    BY DEF FinishReplay
  <2>. QED  BY <2>1 DEF Writes
<1>4. ~ (processed < LatestTarget \/ LatestTarget = 0)
  <2>. SUFFICES ASSUME processed < LatestTarget \/ LatestTarget = 0 PROVE FALSE
    OBVIOUS
  <2>1. o = Writes(F, extended, proposal)
    BY <1>3 DEF FinishReplay, extended
  <2>. QED  BY <1>2, <2>1 DEF Writes
<1>5. ~ (Missing(F, LatestTarget) # {} \/ Stale(F, LatestTarget) # {} \/ CanonicalChildAlone(F))
  <2>. SUFFICES ASSUME \/ Missing(F, LatestTarget) # {} \/ Stale(F, LatestTarget) # {}
                       \/ CanonicalChildAlone(F)
                PROVE FALSE
    OBVIOUS
  <2>1. o = Throws
    BY <1>3, <1>4 DEF FinishReplay
  <2>. QED  BY <2>1 DEF Throws
<1>6. o = Reconcile(F, [extended EXCEPT !.state = "complete"])
  BY <1>3, <1>4, <1>5 DEF FinishReplay, extended
<1>7. ~ (Refused(F, Surviving(F, transaction.rows))
         \/ ~ Weighable(F, Surviving(F, transaction.rows)))
  BY <1>6 DEF Reconcile, Throws
<1>8. /\ o.facts = F
      /\ o.proposal = Reconciled(F, Surviving(F, transaction.rows), transaction.contents)
  BY <1>6, <1>7 DEF Reconcile, Writes
<1>. QED  BY <1>1, <1>2, <1>3, <1>4, <1>5, <1>8

\* Facts that nothing is missing from are the rows.
LEMMA FactsWhole ==
    ASSUME SafeInv, NEW F, FactsKnown(F, rows), Missing(F, lastSequence) = {},
           NEW e \in Events \ Undecodable
    PROVE  F[e] = rows[e]
<1>1. /\ rows[e] \in Rows /\ rows[e].seq \in Nat
      /\ IF rows[e].status = "absent" THEN rows[e] = Absent ELSE rows[e].seq \in 1..lastSequence
      /\ F[e] = Absent \/ Known(e, F[e], rows)
      /\ lastSequence \in Nat
  BY DEF SafeInv, RowsSound, FactsKnown, Rows, TypeOK
<1>2. CASE rows[e].status = "absent"
  <2>1. rows[e] = Absent /\ rows[e].seq = 0
    BY <1>1, <1>2 DEF Absent
  <2>2. ~ Known(e, F[e], rows)
    BY <2>1 DEF Known, Rows
  <2>. QED  BY <1>1, <2>1, <2>2
<1>3. CASE rows[e].status # "absent"
  <2>1. <<e, rows[e].seq>> \notin quarantined
    BY DEF SafeInv, TypeOK
  <2>2. F[e].seq = rows[e].seq /\ rows[e].seq # 0
    BY <1>1, <1>3, <2>1 DEF Missing
  <2>3. F[e] # Absent
    BY <2>2 DEF Absent
  <2>. QED  BY <1>1, <2>2, <2>3 DEF Known
<1>. QED  BY <1>2, <1>3

LEMMA FinishEnds ==
    ASSUME SafeInv, ArchiveHeld, NEW w \in Workers, Finish(w),
           replay.state = "collecting", replay'.state = "complete"
    PROVE  /\ \A e \in Events \ Undecodable : facts'[e] = rows[e]
           /\ proposal' = Reconciled(facts', Surviving(facts', rows), transaction.contents)
           /\ transaction.contents \in BOOLEAN
           /\ rows' = rows /\ transaction' = NoTransaction
           /\ lastSequence <= offset' /\ lastSequence' = lastSequence
<1>. DEFINE items == transaction.items
            i == Item(w)
            F == [facts EXCEPT ![i.event] = Newer(@, i.version)]
<1>1. /\ transaction.worker = w /\ transaction' = NoTransaction /\ rows' = rows
      /\ lastSequence' = lastSequence
  BY DEF Finish, store
<1>2. /\ lastSequence \in Nat /\ replay \in ReplayType /\ offset \in Nat
      /\ FactsKnown(facts, rows) /\ rows \in [Events -> Rows] /\ facts \in [Events -> Rows]
  BY DEF SafeInv, TypeOK, ReplayType
<1>3. transaction # NoTransaction /\ transaction.contents \in BOOLEAN
  BY <1>1, UnderWay
<1>4. CASE items = <<>>
  <2>. DEFINE o == FinishReplay(facts, offset)
  <2>1. \/ /\ o.ok /\ facts' = o.facts /\ replay' = o.replay /\ proposal' = o.proposal
           /\ offset' = offset
        \/ replay' = replay
    BY <1>4 DEF Finish, projection
  <2>. HIDE DEF o
  <2>2. /\ o.ok /\ facts' = o.facts /\ o.replay.state = "complete"
        /\ proposal' = o.proposal /\ offset' = offset
    BY <2>1
  <2>3. /\ offset >= lastSequence
        /\ Missing(facts, lastSequence) = {} /\ o.facts = facts
        /\ o.proposal = Reconciled(facts, Surviving(facts, transaction.rows),
                                   transaction.contents)
    BY <1>2, <2>2, ReplayEnds DEF o
  <2>4. transaction.rows = rows
    BY <1>3, <1>4 DEF ArchiveHeld, ArchiveLocked, Range
  <2>. QED  BY <1>1, <1>2, <1>3, <2>2, <2>3, <2>4, FactsWhole
<1>5. CASE items # <<>>
  <2>1. /\ items = <<i>> /\ items[1] = i
        /\ i.event \in Events \ Undecodable /\ Known(i.event, i.version, rows)
        /\ i.version.seq \in 1..lastSequence
    BY <1>1, <1>5, UnderWay
  <2>. DEFINE o == Recorded(i.event, i.version)
  <2>2. \/ /\ o.ok /\ facts' = o.facts /\ replay' = o.replay /\ proposal' = o.proposal
           /\ offset' = i.version.seq
        \/ replay' = replay
    <3>. HIDE DEF i, o
    <3>1. \/ /\ o.ok /\ facts' = o.facts /\ replay' = o.replay /\ proposal' = o.proposal
             /\ offset' = items[1].version.seq
          \/ replay' = replay
      BY <1>5, <2>1 DEF Finish, projection, o
    <3>. QED  BY <2>1, <3>1
  <2>. HIDE DEF o
  <2>3. /\ o.ok /\ facts' = o.facts /\ o.replay.state = "complete"
        /\ proposal' = o.proposal /\ offset' = i.version.seq
    BY <2>2
  <2>4. ~ (F[i.event].seq > i.version.seq) /\ o = FinishReplay(F, i.version.seq)
    <3>1. CASE F[i.event].seq > i.version.seq
      <4>1. o = Writes(F, replay, proposal)
        BY <3>1 DEF o, Recorded
      <4>. QED  BY <2>3, <4>1 DEF Writes
    <3>2. CASE ~ (F[i.event].seq > i.version.seq)
      BY <3>2 DEF o, Recorded
    <3>. QED  BY <3>1, <3>2
  <2>. HIDE DEF F, i
  <2>5. i.version.seq \in Nat
    BY <1>2, <2>1
  <2>6. /\ i.version.seq >= replay.target /\ i.version.seq >= lastSequence
        /\ Missing(F, lastSequence) = {} /\ o.facts = F
        /\ o.proposal = Reconciled(F, Surviving(F, transaction.rows), transaction.contents)
    BY <1>2, <2>3, <2>4, <2>5, ReplayEnds
  <2>7. i.version.seq >= facts[i.event].seq
    <3>1. facts[i.event].seq \in Nat /\ F[i.event] = Newer(facts[i.event], i.version)
      BY <1>2, <2>1 DEF Rows, F
    <3>2. CASE facts[i.event].seq < i.version.seq
      BY <2>5, <3>1, <3>2
    <3>3. CASE ~ (facts[i.event].seq < i.version.seq)
      BY <2>4, <2>5, <3>1, <3>3 DEF Newer
    <3>. QED  BY <3>2, <3>3
  <2>8. Range(items) = {i}
    BY <2>1 DEF Range
  <2>9. transaction.rows = rows
    BY <1>3, <2>6, <2>7, <2>8 DEF ArchiveHeld, ArchiveLocked
  <2>10. FactsKnown(F, rows)
    BY <1>2, <2>1, NewerKnown DEF F
  <2>. QED  BY <1>1, <1>3, <2>3, <2>6, <2>9, <2>10, FactsWhole
<1>. QED  BY <1>4, <1>5

-----------------------------------------------------------------------------
(* The projection follows the archive *)

\* The rows of events that have no fact do not matter.
LEMMA SurvivingSame ==
    ASSUME NEW F, NEW Q, NEW R, FactsKnown(F, Q),
           \A e \in Events \ Undecodable : R[e] = Q[e]
    PROVE  Surviving(F, R) = Surviving(F, Q)
<1>1. ASSUME NEW e \in Events, F[e].status \in {"pending", "canonical"}
      PROVE  e \notin Undecodable
  BY <1>1 DEF FactsKnown, Absent
<1>. QED  BY <1>1 DEF Surviving, Outdated

LEMMA ReconciledContents ==
    ASSUME NEW F, NEW S, NEW c, NEW d, Reconciled(F, S, c) # NoProposal
    PROVE  [Reconciled(F, S, c) EXCEPT !.contents = d] = Reconciled(F, S, d)
<1>1. Creations(F, S) # {}
  BY DEF Reconciled
<1>2. PICK a1, a2, a3, a4, a5, a6, a7, a8, a9 : \A x :
         Reconciled(F, S, x) =
           [creation |-> a1, finality |-> a2, status |-> a3, statusFinality |-> a4,
            paused |-> a5, votes |-> a6, owners |-> a7, tallies |-> a8, paidOut |-> a9,
            contents |-> x]
  BY <1>1 DEF Reconciled
<1>3. Reconciled(F, S, c) =
           [creation |-> a1, finality |-> a2, status |-> a3, statusFinality |-> a4,
            paused |-> a5, votes |-> a6, owners |-> a7, tallies |-> a8, paidOut |-> a9,
            contents |-> c]
  BY <1>2
<1>4. Reconciled(F, S, d) =
           [creation |-> a1, finality |-> a2, status |-> a3, statusFinality |-> a4,
            paused |-> a5, votes |-> a6, owners |-> a7, tallies |-> a8, paidOut |-> a9,
            contents |-> d]
  BY <1>2
<1>. QED  BY <1>3, <1>4

\* What the head of a page comes next of.
LEMMA HeadNext ==
    ASSUME SafeInv, NoGap, replay.state = "complete",
           NEW w \in Workers, page[w] # <<>>, NEW e \in Events,
           offset < rows[e].seq, rows[e].seq <= Item(w).version.seq
    PROVE  e = Item(w).event /\ rows[e] = Item(w).version
<1>. DEFINE i == Item(w)
<1>1. /\ i = page[w][1] /\ 1 \in DOMAIN page[w] /\ Known(i.event, i.version, rows)
      /\ i.event \in Events /\ i.version.seq \in Nat
  BY HeadKnown DEF SafeInv, Rows
<1>2. rows[e].seq \in Nat
  BY DEF SafeInv, TypeOK, Rows
<1>. HIDE DEF i
<1>3. CASE rows[e].seq < i.version.seq
  <2>1. \E j \in 1..(1 - 1) : TRUE
    BY <1>1, <1>3 DEF NoGap
  <2>. QED  BY <2>1
<1>4. CASE rows[e].seq = i.version.seq
  BY <1>1, <1>4 DEF Known, i
<1>. QED  BY <1>1, <1>2, <1>3, <1>4 DEF i

LEMMA GapTail ==
    ASSUME SafeInv, NoGap, replay.state = "complete",
           NEW w \in Workers, page[w] # <<>>, page' = [page EXCEPT ![w] = Tail(page[w])],
           offset <= offset', offset' \in Nat, Item(w).version.seq <= offset', rows' = rows
    PROVE  NoGap'
<1>. SUFFICES ASSUME NEW v \in Workers, NEW i \in DOMAIN page'[v], NEW e \in Events,
                     offset' < rows[e].seq, rows[e].seq < page'[v][i].version.seq
              PROVE  \E j \in 1..(i - 1) :
                        page'[v][j] = [event |-> e, version |-> rows[e]]
  <2>1. (\A v \in Workers : \A i \in DOMAIN page'[v] : \A e \in Events :
           offset' < rows[e].seq /\ rows[e].seq < page'[v][i].version.seq
           => \E j \in 1..(i - 1) : page'[v][j] = [event |-> e, version |-> rows[e]])
        => NoGap'
    BY DEF NoGap
  <2>. QED  BY <2>1
<1>1. /\ offset \in Nat /\ rows[e].seq \in Nat /\ page \in [Workers -> Seq(Versioned)]
  BY DEF SafeInv, TypeOK, Rows, PagesKnown
<1>2. offset < rows[e].seq
  BY <1>1
<1>3. CASE v # w
  <2>1. page'[v] = page[v]
    BY <1>1, <1>3
  <2>2. i \in DOMAIN page[v] /\ rows[e].seq < page[v][i].version.seq
    BY <2>1
  <2>3. \E j \in 1..(i - 1) : page[v][j] = [event |-> e, version |-> rows[e]]
    BY <1>2, <2>2 DEF NoGap
  <2>. QED  BY <2>1, <2>3
<1>4. CASE v = w
  <2>. DEFINE p == page[w]
  <2>1. /\ p \in Seq(Versioned) /\ p # <<>> /\ page'[w] = Tail(p)
        /\ i \in Nat /\ i + 1 \in DOMAIN p /\ Tail(p)[i] = p[i + 1]
    BY <1>1, <1>4
  <2>2. p[1].version.seq <= offset'
    BY HeadKnown DEF SafeInv
  <2>3. PICK j \in 1..((i + 1) - 1) : p[j] = [event |-> e, version |-> rows[e]]
    BY <1>2, <1>4, <2>1 DEF NoGap
  <2>. HIDE DEF p
  <2>4. j # 1
    <3>. SUFFICES ASSUME j = 1 PROVE FALSE
      OBVIOUS
    <3>1. p[1].version.seq = rows[e].seq
      BY <2>3
    <3>. QED  BY <1>1, <2>2, <3>1
  <2>5. j - 1 \in 1..(i - 1) /\ Tail(p)[j - 1] = p[j]
    <3>1. j \in 2..i /\ j - 1 \in 1..(i - 1) /\ (j - 1) + 1 = j
      BY <2>1, <2>3, <2>4
    <3>2. j - 1 \in DOMAIN Tail(p)
      BY <2>1, <3>1
    <3>. QED  BY <2>1, <3>1, <3>2
  <2>. QED  BY <1>4, <2>1, <2>3, <2>5
<1>. QED  BY <1>3, <1>4

FollowInv == NoGap /\ FactsFollow /\ ProposalFollows

LEMMA FollowSame ==
    FollowInv /\ UNCHANGED <<rows, offset, facts, replay, proposal, page>> => FollowInv'
BY DEF FollowInv, NoGap, FactsFollow, ProposalFollows

LEMMA ObserveFollows ==
    ASSUME SafeInv, FollowInv, NEW b \in Blocks, NEW t \in Blocks, Observe(b, t)
    PROVE  FollowInv'
<1>1. /\ \A e \in Events : rows'[e] = rows[e] \/ rows'[e].seq > lastSequence
      /\ UNCHANGED <<offset, facts, replay, proposal, page>>
  BY ObserveSafe DEF Observe, progress, projection, workers
<1>2. /\ lastSequence \in Nat /\ offset \in Nat /\ offset <= lastSequence
      /\ \A e \in Events : rows'[e].seq \in Nat /\ rows[e].seq \in Nat
  BY ObserveSafe DEF SafeInv, TypeOK, Rows
<1>3. NoGap'
  <2>. SUFFICES ASSUME replay.state = "complete", NEW w \in Workers, NEW i \in DOMAIN page[w],
                       NEW e \in Events,
                       offset < rows'[e].seq, rows'[e].seq < page[w][i].version.seq
                PROVE  \E j \in 1..(i - 1) : page[w][j] = [event |-> e, version |-> rows'[e]]
    BY <1>1 DEF NoGap
  <2>1. /\ page[w] \in Seq(Versioned)
        /\ Known(page[w][i].event, page[w][i].version, rows)
    BY DEF SafeInv, PagesKnown
  <2>2. page[w][i] \in Versioned
    BY <2>1
  <2>3. page[w][i].event \in Events
    BY <2>2 DEF Versioned
  <2>4. page[w][i].version.seq \in Nat /\ page[w][i].version.seq <= lastSequence
    BY <1>2, <2>1, <2>3, KnownNumber DEF SafeInv
  <2>5. rows'[e] = rows[e]
    BY <1>1, <1>2, <2>4
  <2>. QED  BY <2>5 DEF FollowInv, NoGap
<1>4. \A e \in Events : rows'[e].seq <= offset => rows'[e] = rows[e]
  BY <1>1, <1>2
<1>5. FactsFollow'
  BY <1>1, <1>4 DEF FollowInv, FactsFollow
<1>6. ProposalFollows'
  <2>. SUFFICES ASSUME replay.state = "complete",
                       \A e \in Events \ Undecodable : rows'[e].seq <= offset
                PROVE  \E contents \in BOOLEAN :
                          proposal = Reconciled(facts, Surviving(facts, rows'), contents)
    BY <1>1 DEF ProposalFollows
  <2>1. Surviving(facts, rows') = Surviving(facts, rows)
    BY <1>4, SurvivingSame DEF SafeInv
  <2>. QED  BY <1>4, <2>1 DEF FollowInv, ProposalFollows
<1>. QED  BY <1>3, <1>5, <1>6 DEF FollowInv

LEMMA PostContentFollows ==
    ASSUME FollowInv, PostContent
    PROVE  FollowInv'
<1>1. /\ proposal # NoProposal /\ proposal' = [proposal EXCEPT !.contents = TRUE]
      /\ UNCHANGED <<rows, offset, facts, replay, page>>
  BY DEF PostContent, store, progress, workers
<1>2. ProposalFollows'
  <2>1. ASSUME NEW c \in BOOLEAN, proposal = Reconciled(facts, Surviving(facts, rows), c)
        PROVE  proposal' = Reconciled(facts, Surviving(facts, rows), TRUE)
    <3>. DEFINE S == Surviving(facts, rows)
    <3>. HIDE DEF S
    <3>1. proposal = Reconciled(facts, S, c) /\ Reconciled(facts, S, c) # NoProposal
      BY <1>1, <2>1 DEF S
    <3>2. PICK d : d = TRUE
      OBVIOUS
    <3>3. [Reconciled(facts, S, c) EXCEPT !.contents = d] = Reconciled(facts, S, d)
      BY <3>1, ReconciledContents
    <3>4. proposal' = [Reconciled(facts, S, c) EXCEPT !.contents = d]
      BY <1>1, <3>1, <3>2
    <3>5. proposal' = Reconciled(facts, S, d)
      BY <3>3, <3>4
    <3>. QED  BY <3>2, <3>5 DEF S
  <2>. QED  BY <1>1, <2>1 DEF FollowInv, ProposalFollows
<1>. QED  BY <1>1, <1>2 DEF FollowInv, NoGap, FactsFollow

LEMMA FetchPageFollows ==
    ASSUME SafeInv, FollowInv, NEW w \in Workers, FetchPage(w)
    PROVE  FollowInv'
<1>. DEFINE V == Versions(offset)
            n == Min({BatchSize, Cardinality(V)})
            p == [i \in 1..n |-> [event |-> Queue[i], version |-> rows[Queue[i]]]]
<1>1. /\ page' = [page EXCEPT ![w] = p]
      /\ UNCHANGED <<rows, offset, facts, replay, proposal>>
  BY DEF FetchPage, Queue, store, progress, projection
<1>2. n \in Nat /\ n <= Cardinality(V) /\ Cardinality(V) \in Nat
  <2>1. IsFiniteSet(V)
    BY FiniteEvents DEF Versions
  <2>2. Cardinality(V) \in Nat /\ BatchSize \in Nat
    BY <2>1, FS_CardinalityType, ProjectionAssumption
  <2>3. {BatchSize, Cardinality(V)} \in SUBSET Nat /\ {BatchSize, Cardinality(V)} # {}
    BY <2>2
  <2>. HIDE DEF V
  <2>4. /\ Min({BatchSize, Cardinality(V)}) \in {BatchSize, Cardinality(V)}
        /\ \A k \in {BatchSize, Cardinality(V)} : Min({BatchSize, Cardinality(V)}) <= k
    BY <2>3, NatMin
  <2>. QED  BY <2>2, <2>4
<1>. HIDE DEF n
<1>3. NoGap'
  <2>. SUFFICES ASSUME replay.state = "complete", NEW v \in Workers, NEW i \in DOMAIN page'[v],
                       NEW e \in Events,
                       offset < rows[e].seq, rows[e].seq < page'[v][i].version.seq
                PROVE  \E j \in 1..(i - 1) : page'[v][j] = [event |-> e, version |-> rows[e]]
    BY <1>1 DEF NoGap
  <2>1. page \in [Workers -> Seq(Versioned)] /\ offset \in Nat
    BY DEF SafeInv, PagesKnown, TypeOK
  <2>2. CASE v # w
    BY <1>1, <2>1, <2>2 DEF FollowInv, NoGap
  <2>3. CASE v = w
    <3>1. page'[v] = p /\ i \in 1..n /\ p[i].version = rows[Queue[i]]
      BY <1>1, <2>1, <2>3
    <3>2. i \in 1..Cardinality(V)
      BY <1>2, <3>1
    <3>3. e \in V
      <4>1. rows[e].seq # 0
        BY <2>1 DEF SafeInv, TypeOK, Rows
      <4>. QED  BY <4>1 DEF Versions, SafeInv, RowsSound, Absent
    <3>4. PICK j \in 1..(i - 1) : Queue[j] = e
      BY <3>1, <3>2, <3>3, QueueOf DEF SafeInv
    <3>5. j \in 1..n
      BY <1>2, <3>1
    <3>. QED  BY <3>1, <3>4, <3>5
  <2>. QED  BY <2>2, <2>3
<1>. QED  BY <1>1, <1>3 DEF FollowInv, FactsFollow, ProposalFollows

LEMMA SkipFollows ==
    ASSUME SafeInv, FollowInv, NEW w \in Workers, Skip(w)
    PROVE  FollowInv'
<1>1. /\ page[w] # <<>> /\ page' = [page EXCEPT ![w] = Tail(page[w])]
      /\ offset >= Item(w).version.seq
      /\ UNCHANGED <<rows, offset, facts, replay, proposal>>
  BY DEF Skip, AtHead, store, progress, projection
<1>2. offset \in Nat
  BY DEF SafeInv, TypeOK
<1>3. NoGap'
  <2>1. CASE replay.state = "complete"
    <3>1. /\ offset <= offset' /\ offset' \in Nat /\ Item(w).version.seq <= offset'
          /\ rows' = rows /\ NoGap
      BY <1>1, <1>2 DEF FollowInv
    <3>. QED  BY <1>1, <2>1, <3>1, GapTail
  <2>. QED  BY <1>1, <2>1 DEF NoGap
<1>. QED  BY <1>1, <1>3 DEF FollowInv, FactsFollow, ProposalFollows

LEMMA QuarantineFollows ==
    ASSUME SafeInv, FollowInv, NEW w \in Workers, Quarantine(w)
    PROVE  FollowInv'
<1>1. /\ page[w] # <<>> /\ page' = [page EXCEPT ![w] = Tail(page[w])]
      /\ offset < Item(w).version.seq /\ offset' = Item(w).version.seq
      /\ Item(w).event \in Undecodable
      /\ UNCHANGED <<rows, facts, replay, proposal>>
  BY DEF Quarantine, AtHead, store, projection
<1>2. offset \in Nat /\ offset' \in Nat
  <2>1. Item(w).version \in Rows
    BY <1>1, HeadKnown DEF SafeInv
  <2>. QED  BY <1>1, <2>1 DEF SafeInv, TypeOK, Rows
<1>3. CASE replay.state # "complete"
  BY <1>1, <1>3 DEF FollowInv, NoGap, FactsFollow, ProposalFollows
<1>4. CASE replay.state = "complete"
  <2>1. NoGap'
    <3>1. /\ offset <= offset' /\ Item(w).version.seq <= offset'
          /\ rows' = rows /\ NoGap
      BY <1>1, <1>2 DEF FollowInv
    <3>. QED  BY <1>1, <1>2, <1>4, <3>1, GapTail
  <2>2. \A e \in Events \ Undecodable : rows[e].seq <= offset' => rows[e].seq <= offset
    <3>. SUFFICES ASSUME NEW e \in Events \ Undecodable, rows[e].seq <= offset',
                         ~ (rows[e].seq <= offset)
                  PROVE  FALSE
      OBVIOUS
    <3>1. offset < rows[e].seq
      BY <1>2 DEF SafeInv, TypeOK, Rows
    <3>2. e = Item(w).event
      BY <1>1, <1>4, <3>1, HeadNext DEF FollowInv
    <3>. QED  BY <1>1, <3>2
  <2>3. FactsFollow' /\ ProposalFollows'
    BY <1>1, <2>2 DEF FollowInv, FactsFollow, ProposalFollows
  <2>. QED  BY <2>1, <2>3 DEF FollowInv
<1>. QED  BY <1>3, <1>4

LEMMA StartFollows ==
    ASSUME SafeInv, FollowInv, NEW w \in Workers, Start(w)
    PROVE  FollowInv'
<1>1. /\ offset' = IF replay.state = "collecting" THEN 0 ELSE offset
      /\ UNCHANGED <<rows, facts, replay, proposal, page>>
  BY DEF Start, store, projection
<1>2. replay.state \in {"collecting", "complete"}
  BY DEF SafeInv, TypeOK
<1>. QED  BY <1>1, <1>2 DEF FollowInv, NoGap, FactsFollow, ProposalFollows

\* A page that is given up.
LEMMA PageDropped ==
    ASSUME SafeInv, FollowInv, NEW w \in Workers, page' = [page EXCEPT ![w] = <<>>],
           UNCHANGED <<rows, offset, facts, replay, proposal>>
    PROVE  FollowInv'
<1>1. \A v \in Workers : page'[v] = page[v] \/ page'[v] = <<>>
  BY DEF SafeInv, PagesKnown
<1>2. \A i \in DOMAIN <<>> : FALSE
  OBVIOUS
<1>3. NoGap'
  BY <1>1, <1>2 DEF FollowInv, NoGap
<1>. QED  BY <1>3 DEF FollowInv, FactsFollow, ProposalFollows

\* A version that is recorded by a complete projection.
LEMMA FinishCompleteFollows ==
    ASSUME SafeInv, ArchiveHeld, FollowInv, NEW w \in Workers, Finish(w),
           replay.state = "complete"
    PROVE  FollowInv'
<1>. DEFINE i == Item(w)
            F == [facts EXCEPT ![i.event] = Newer(@, i.version)]
            o == Recorded(i.event, i.version)
<1>1. transaction.worker = w /\ rows' = rows
  BY DEF Finish, store
<1>2. transaction # NoTransaction
  BY <1>1, UnderWay
<1>3. transaction.items # <<>>
  BY <1>2 DEF ArchiveHeld
<1>4. /\ transaction.items[1] = i /\ page[w] # <<>>
      /\ i.event \in Events \ Undecodable /\ Known(i.event, i.version, rows)
      /\ Known(i.event, i.version, transaction.rows)
      /\ i.version.seq \in 1..lastSequence /\ offset < i.version.seq
      /\ transaction.contents \in BOOLEAN
  BY <1>1, <1>3, UnderWay
<1>5. /\ lastSequence \in Nat /\ offset \in Nat /\ FactsKnown(facts, rows)
      /\ rows \in [Events -> Rows] /\ facts \in [Events -> Rows]
      /\ \A e \in Events : rows[e].seq \in Nat /\ facts[e].seq \in Nat
      /\ i.version.seq \in Nat /\ 1 <= i.version.seq
  BY <1>4 DEF SafeInv, TypeOK, Rows, Known
<1>6. \/ /\ o.ok /\ facts' = o.facts /\ replay' = o.replay /\ proposal' = o.proposal
         /\ offset' = i.version.seq /\ page' = [page EXCEPT ![w] = Tail(page[w])]
      \/ /\ page' = [page EXCEPT ![w] = <<>>]
         /\ UNCHANGED <<facts, replay, proposal, offset>>
  <2>. HIDE DEF i, o
  <2>1. \/ /\ o.ok /\ facts' = o.facts /\ replay' = o.replay /\ proposal' = o.proposal
           /\ offset' = transaction.items[1].version.seq
           /\ page' = [page EXCEPT ![w] = Tail(page[w])]
        \/ /\ page' = [page EXCEPT ![w] = <<>>]
           /\ UNCHANGED <<facts, replay, proposal, offset>>
    BY <1>3, <1>4 DEF Finish, projection, o
  <2>. QED  BY <1>4, <2>1
<1>7. CASE page' = [page EXCEPT ![w] = <<>>] /\ UNCHANGED <<facts, replay, proposal, offset>>
  BY <1>1, <1>7, PageDropped
<1>8. CASE /\ o.ok /\ facts' = o.facts /\ replay' = o.replay /\ proposal' = o.proposal
           /\ offset' = i.version.seq /\ page' = [page EXCEPT ![w] = Tail(page[w])]
  <2>1. /\ facts' = F /\ replay' = replay
        /\ \/ F[i.event].seq > i.version.seq
           \/ proposal' = Reconciled(F, Surviving(F, transaction.rows), transaction.contents)
    <3>. HIDE DEF F
    <3>1. CASE F[i.event].seq > i.version.seq
      <4>1. o = Writes(F, replay, proposal)
        BY <3>1 DEF Recorded, F
      <4>. HIDE DEF o
      <4>. QED  BY <1>8, <3>1, <4>1 DEF Writes
    <3>2. CASE ~ (F[i.event].seq > i.version.seq)
      <4>1. o = Reconcile(F, replay)
        BY <3>2 DEF Recorded, F
      <4>. HIDE DEF o
      <4>2. ~ (Refused(F, Surviving(F, transaction.rows))
               \/ ~ Weighable(F, Surviving(F, transaction.rows)))
        BY <1>8, <4>1 DEF Reconcile, Throws
      <4>3. o = Writes(F, replay,
                       Reconciled(F, Surviving(F, transaction.rows), transaction.contents))
        BY <4>1, <4>2 DEF Reconcile
      <4>. QED  BY <1>8, <4>3 DEF Writes
    <3>. QED  BY <3>1, <3>2
  <2>. HIDE DEF F, o
  <2>2. NoGap'
    <3>1. /\ offset <= offset' /\ offset' \in Nat /\ i.version.seq <= offset' /\ NoGap
      BY <1>4, <1>5, <1>8 DEF FollowInv
    <3>. QED  BY <1>1, <1>4, <1>8, <3>1, GapTail
  <2>. HIDE DEF i
  <2>3. F[i.event] = Newer(facts[i.event], i.version)
        /\ \A e \in Events \ {i.event} : F[e] = facts[e]
    BY <1>4, <1>5 DEF F
  <2>4. ASSUME NEW e \in Events \ Undecodable, rows[e].seq <= i.version.seq
        PROVE  F[e] = rows[e]
    <3>1. CASE rows[e].seq <= offset
      <4>1. e # i.event
        BY <1>4, <1>5, <3>1 DEF Known
      <4>. QED  BY <2>3, <3>1, <4>1 DEF FollowInv, FactsFollow
    <3>2. CASE offset < rows[e].seq
      <4>1. e = i.event /\ rows[e] = i.version
        BY <1>4, <2>4, <3>2, HeadNext DEF FollowInv, i
      <4>2. CASE facts[e].seq < i.version.seq
        BY <2>3, <4>1, <4>2 DEF Newer
      <4>3. CASE ~ (facts[e].seq < i.version.seq)
        <5>1. F[e] = facts[e] /\ facts[e] # Absent
          BY <1>5, <2>3, <4>1, <4>3 DEF Newer, Absent
        <5>2. Known(e, facts[e], rows)
          BY <1>5, <5>1 DEF FactsKnown
        <5>3. facts[e].seq = rows[e].seq
          BY <1>5, <4>1, <4>3, <5>2 DEF Known
        <5>. QED  BY <5>1, <5>2, <5>3 DEF Known
      <4>. QED  BY <4>2, <4>3
    <3>. QED  BY <1>5, <3>1, <3>2
  <2>5. FactsFollow'
    BY <1>1, <1>8, <2>1, <2>4 DEF FactsFollow
  <2>6. ASSUME \A e \in Events \ Undecodable : rows[e].seq <= i.version.seq
        PROVE  proposal' = Reconciled(F, Surviving(F, rows), transaction.contents)
    <3>1. ~ (F[i.event].seq > i.version.seq)
      <4>1. F[i.event] = rows[i.event] /\ rows[i.event].seq <= i.version.seq
        BY <1>4, <2>4, <2>6
      <4>. QED  BY <1>4, <1>5, <4>1
    <3>2. PICK n \in 0..lastSequence : Snapshot(transaction.rows, n)
      BY <1>2 DEF SafeInv, TransactionKnown
    <3>3. i.version.seq <= n
      <4>1. /\ transaction.rows[i.event].seq \in Nat
            /\ transaction.rows[i.event].seq <= n
        BY <1>4, <3>2 DEF Snapshot, RowsSound, Rows, Absent
      <4>. QED  BY <1>4, <1>5, <3>2, <4>1 DEF Known
    <3>4. \A e \in Events \ Undecodable : transaction.rows[e] = rows[e]
      BY <1>5, <2>6, <3>2, <3>3 DEF Snapshot
    <3>5. FactsKnown(F, rows)
      BY <1>4, <1>5, NewerKnown DEF F
    <3>6. Surviving(F, transaction.rows) = Surviving(F, rows)
      BY <3>4, <3>5, SurvivingSame
    <3>. QED  BY <2>1, <3>1, <3>6
  <2>7. ProposalFollows'
    BY <1>1, <1>4, <1>8, <2>1, <2>6 DEF ProposalFollows
  <2>. QED  BY <2>2, <2>5, <2>7 DEF FollowInv
<1>. QED  BY <1>6, <1>7, <1>8

LEMMA FinishFollows ==
    ASSUME SafeInv, ArchiveHeld, FollowInv, NEW w \in Workers, Finish(w)
    PROVE  FollowInv'
<1>1. replay.state \in {"collecting", "complete"}
  BY DEF SafeInv, TypeOK
<1>2. CASE replay.state = "complete"
  BY <1>2, FinishCompleteFollows
<1>3. CASE replay'.state # "complete"
  BY <1>3 DEF FollowInv, NoGap, FactsFollow, ProposalFollows
<1>4. CASE replay.state = "collecting" /\ replay'.state = "complete"
  <2>1. /\ \A e \in Events \ Undecodable : facts'[e] = rows[e]
        /\ proposal' = Reconciled(facts', Surviving(facts', rows), transaction.contents)
        /\ transaction.contents \in BOOLEAN
        /\ rows' = rows /\ lastSequence <= offset'
    BY <1>4, FinishEnds
  <2>2. \A e \in Events : ~ (offset' < rows[e].seq)
    <3>1. offset' \in Nat /\ lastSequence \in Nat
      BY FinishSafe DEF SafeInv, TypeOK
    <3>2. \A e \in Events : rows[e].seq \in Nat /\ rows[e].seq <= lastSequence
      BY <3>1 DEF SafeInv, RowsSound, Rows, Absent
    <3>. QED  BY <2>1, <3>1, <3>2
  <2>3. NoGap'
    BY <2>1, <2>2 DEF NoGap
  <2>. QED  BY <2>1, <2>3 DEF FollowInv, FactsFollow, ProposalFollows
<1>. QED  BY <1>1, <1>2, <1>3, <1>4

LEMMA InitFollows == Init => FollowInv
<1>. SUFFICES ASSUME Init PROVE FollowInv
  OBVIOUS
<1>1. /\ facts = [e \in Events |-> Absent] /\ proposal = NoProposal
      /\ page = [w \in Workers |-> <<>>]
      /\ rows = [e \in Events |-> Absent] \/ replay.state = "collecting"
  BY InitRows DEF Init, FirstRows
<1>2. NoGap
  <2>1. \A i \in DOMAIN <<>> : FALSE
    OBVIOUS
  <2>. QED  BY <1>1, <2>1 DEF NoGap
<1>3. FactsFollow
  BY <1>1 DEF FactsFollow
<1>4. Surviving(facts, rows) = {}
  BY <1>1 DEF Surviving, Absent
<1>5. Creations(facts, {}) = {}
  BY DEF Creations, OfType
<1>6. Reconciled(facts, {}, TRUE) = NoProposal
  BY <1>5 DEF Reconciled
<1>7. ProposalFollows
  BY <1>1, <1>4, <1>6 DEF ProposalFollows
<1>. QED  BY <1>2, <1>3, <1>7 DEF FollowInv

LEMMA NextFollows == SafeInv /\ ArchiveHeld /\ FollowInv /\ [Next]_vars => FollowInv'
<1>. SUFFICES ASSUME SafeInv, ArchiveHeld, FollowInv, [Next]_vars PROVE FollowInv'
  OBVIOUS
<1>1. CASE UNCHANGED <<rows, offset, facts, replay, proposal, page>>
  BY <1>1, FollowSame
<1>2. CASE \E b, t \in Blocks : Observe(b, t)
  BY <1>2, ObserveFollows
<1>3. CASE LedgerBuilt
  BY <1>1, <1>3 DEF LedgerBuilt, store, progress, projection, workers
<1>4. CASE PostContent
  BY <1>4, PostContentFollows
<1>5. ASSUME NEW w \in Workers, Poll(w) PROVE FollowInv'
  <2>1. CASE Handle(w) \/ AfterPass(w)
    BY <1>1, <2>1 DEF Handle, AfterPass, store, progress, projection, workers
  <2>. QED
    BY <1>5, <2>1, StartFollows, FetchPageFollows, SkipFollows, QuarantineFollows DEF Poll
<1>6. ASSUME NEW w \in Workers, Finish(w) PROVE FollowInv'
  BY <1>6, FinishFollows
<1>7. ASSUME NEW w \in Workers, Crash(w) PROVE FollowInv'
  BY <1>7, PageDropped DEF Crash, store, progress, projection
<1>8. CASE UNCHANGED vars
  BY <1>1, <1>8 DEF vars, store, progress, projection, workers
<1>. QED  BY <1>2, <1>3, <1>4, <1>5, <1>6, <1>7, <1>8 DEF Next

LEMMA ProjectionInductive == Spec => []IInv
<1>1. Init => IInv
  BY InitSafe, InitFollows DEF IInv, FollowInv, Init, ArchiveHeld, ArchiveLocked
<1>2. IInv /\ [Next]_vars => IInv'
  BY NextSafe, HeldStep, NextFollows DEF IInv, FollowInv
<1>. QED  BY <1>1, <1>2, PTL DEF Spec

\* A replay ends only with a fact for every row that is not quarantined, and
\* with the proposal that is rebuilt from them.
THEOREM ReplaysEndWhole == Spec => ReplayWhole
<1>. DEFINE Whole == replay.state = "collecting" /\ replay'.state = "complete"
               => /\ \A e \in Events \ Undecodable : facts'[e] = rows[e]
                  /\ \E contents \in BOOLEAN :
                        proposal' = Reconciled(facts', Surviving(facts', rows), contents)
                  /\ rows' = rows /\ Versions(offset)' = {} /\ transaction' = NoTransaction
<1>1. IInv /\ IInv' /\ [Next]_vars => Whole
  <2>. SUFFICES ASSUME IInv, IInv', [Next]_vars,
                       replay.state = "collecting", replay'.state = "complete"
                PROVE  Whole
    OBVIOUS
  <2>1. PICK w \in Workers : Finish(w)
    BY DEF Next, Poll, Observe, LedgerBuilt, PostContent, Start, FetchPage, Skip, Quarantine,
           Handle, AfterPass, Crash, vars, projection
  <2>2. /\ \A e \in Events \ Undecodable : facts'[e] = rows[e]
        /\ proposal' = Reconciled(facts', Surviving(facts', rows), transaction.contents)
        /\ transaction.contents \in BOOLEAN
        /\ rows' = rows /\ transaction' = NoTransaction
        /\ lastSequence <= offset' /\ lastSequence' = lastSequence
    BY <2>1, FinishEnds DEF IInv
  <2>3. Versions(offset)' = {}
    <3>1. /\ offset' \in Nat /\ lastSequence \in Nat
          /\ \A e \in Events : rows[e].seq \in Nat /\ rows[e].seq <= lastSequence
      BY DEF IInv, SafeInv, TypeOK, RowsSound, Rows, Absent
    <3>. QED  BY <2>2, <3>1 DEF Versions
  <2>. QED  BY <2>2, <2>3
<1>. HIDE DEF Whole
<1>2. IInv /\ IInv' /\ [Next]_vars => [Whole]_vars
  BY <1>1
<1>3. [][Whole]_vars => ReplayWhole
  BY PTL DEF ReplayWhole, Whole
<1>. QED  BY <1>2, <1>3, ProjectionInductive, PTL DEF Spec

\* Once nothing is left to process, the facts are the rows and the proposal is
\* their reconciliation, whatever pages, crashes and reorganizations were on
\* the way.
LEMMA RebuiltNow ==
    ASSUME IInv, replay.state = "complete", Versions(offset) = {}
    PROVE  /\ \A e \in Events \ Undecodable : facts[e] = rows[e]
           /\ \E contents \in BOOLEAN :
                 proposal = Reconciled(facts, Surviving(facts, rows), contents)
<1>1. ASSUME NEW e \in Events PROVE rows[e].seq <= offset
  <2>1. /\ rows[e].seq \in Nat /\ offset \in Nat
        /\ rows[e].status = "absent" => rows[e].seq = 0
    BY DEF IInv, SafeInv, TypeOK, Rows, RowsSound, Absent
  <2>. QED  BY <2>1 DEF Versions
<1>. QED  BY <1>1 DEF IInv, FactsFollow, ProposalFollows

-----------------------------------------------------------------------------
(* The two histories of a proposal's status *)

StatusesOf(g, n, order) ==
    g = [i \in 0..n |-> IF i = 0 THEN "unknown" ELSE StatusAfter(g[i - 1], order[i])]

StatesOf(g, n, order) ==
    g = [i \in 0..n |-> IF i = 0 THEN Untouched ELSE After(g[i - 1], order[i])]

\* The recursions have a solution: one for a shorter history can be extended.
LEMMA StatusesExist ==
    ASSUME NEW n \in Nat, NEW order PROVE \E g : StatusesOf(g, n, order)
<1>. DEFINE Bad == {k \in Nat : ~ \E g : StatusesOf(g, k, order)}
<1>. SUFFICES ASSUME Bad # {} PROVE FALSE
  OBVIOUS
<1>1. PICK k \in Bad : \A j \in Bad : k <= j
  <2>1. Bad \in SUBSET Nat
    OBVIOUS
  <2>. HIDE DEF Bad
  <2>. QED  BY <2>1, NatMin
<1>2. k \in Nat /\ ~ \E g : StatusesOf(g, k, order)
  OBVIOUS
<1>3. k # 0
  <2>. SUFFICES ASSUME k = 0 PROVE FALSE
    OBVIOUS
  <2>1. StatusesOf([i \in 0..0 |-> "unknown"], 0, order)
    BY DEF StatusesOf
  <2>. QED  BY <1>2, <2>1
<1>4. PICK g : StatusesOf(g, k - 1, order)
  <2>1. k - 1 \in Nat /\ ~ (k <= k - 1)
    BY <1>2, <1>3
  <2>. QED  BY <1>1, <2>1
<1>. DEFINE h == [i \in 0..k |-> IF i = k THEN StatusAfter(g[k - 1], order[k]) ELSE g[i]]
<1>5. ASSUME NEW i \in 0..k
      PROVE  h[i] = IF i = 0 THEN "unknown" ELSE StatusAfter(h[i - 1], order[i])
  <2>1. CASE i = k
    <3>1. k - 1 \in 0..k /\ k - 1 # k
      BY <1>2, <1>3
    <3>2. h[k - 1] = g[k - 1]
      BY <3>1
    <3>. QED  BY <1>3, <2>1, <3>2
  <2>2. CASE i # k
    <3>1. i \in 0..(k - 1)
      BY <1>2, <2>2
    <3>2. h[i] = IF i = 0 THEN "unknown" ELSE StatusAfter(g[i - 1], order[i])
      BY <1>4, <2>2, <3>1 DEF StatusesOf
    <3>3. i # 0 => i - 1 \in 0..k /\ i - 1 # k
      BY <1>2, <3>1
    <3>. QED  BY <3>2, <3>3
  <2>. QED  BY <2>1, <2>2
<1>6. StatusesOf(h, k, order)
  <2>1. h = [i \in 0..k |-> h[i]]
    OBVIOUS
  <2>. HIDE DEF h
  <2>. QED  BY <1>5, <2>1 DEF StatusesOf
<1>. QED  BY <1>2, <1>6

LEMMA StatesExist ==
    ASSUME NEW n \in Nat, NEW order PROVE \E g : StatesOf(g, n, order)
<1>. DEFINE Bad == {k \in Nat : ~ \E g : StatesOf(g, k, order)}
<1>. SUFFICES ASSUME Bad # {} PROVE FALSE
  OBVIOUS
<1>1. PICK k \in Bad : \A j \in Bad : k <= j
  <2>1. Bad \in SUBSET Nat
    OBVIOUS
  <2>. HIDE DEF Bad
  <2>. QED  BY <2>1, NatMin
<1>2. k \in Nat /\ ~ \E g : StatesOf(g, k, order)
  OBVIOUS
<1>3. k # 0
  <2>. SUFFICES ASSUME k = 0 PROVE FALSE
    OBVIOUS
  <2>1. StatesOf([i \in 0..0 |-> Untouched], 0, order)
    BY DEF StatesOf
  <2>. QED  BY <1>2, <2>1
<1>4. PICK g : StatesOf(g, k - 1, order)
  <2>1. k - 1 \in Nat /\ ~ (k <= k - 1)
    BY <1>2, <1>3
  <2>. QED  BY <1>1, <2>1
<1>. DEFINE h == [i \in 0..k |-> IF i = k THEN After(g[k - 1], order[k]) ELSE g[i]]
<1>5. ASSUME NEW i \in 0..k
      PROVE  h[i] = IF i = 0 THEN Untouched ELSE After(h[i - 1], order[i])
  <2>1. CASE i = k
    <3>1. k - 1 \in 0..k /\ k - 1 # k
      BY <1>2, <1>3
    <3>2. h[k - 1] = g[k - 1]
      BY <3>1
    <3>. QED  BY <1>3, <2>1, <3>2
  <2>2. CASE i # k
    <3>1. i \in 0..(k - 1)
      BY <1>2, <2>2
    <3>2. h[i] = IF i = 0 THEN Untouched ELSE After(g[i - 1], order[i])
      BY <1>4, <2>2, <3>1 DEF StatesOf
    <3>3. i # 0 => i - 1 \in 0..k /\ i - 1 # k
      BY <1>2, <3>1
    <3>. QED  BY <3>2, <3>3
  <2>. QED  BY <2>1, <2>2
<1>6. StatesOf(h, k, order)
  <2>1. h = [i \in 0..k |-> h[i]]
    OBVIOUS
  <2>. HIDE DEF h
  <2>. QED  BY <1>5, <2>1 DEF StatesOf
<1>. QED  BY <1>2, <1>6

LEMMA StatesAre ==
    ASSUME NEW order, Len(order) \in Nat
    PROVE  /\ ContractStates(order)[0] = Untouched
           /\ \A i \in 1..Len(order) :
                 ContractStates(order)[i] = After(ContractStates(order)[i - 1], order[i])
<1>. DEFINE g == CHOOSE g : StatesOf(g, Len(order), order)
<1>1. ContractStates(order) = g
  BY DEF ContractStates, StatesOf
<1>2. StatesOf(g, Len(order), order)
  BY StatesExist
<1>. HIDE DEF g
<1>. QED  BY <1>1, <1>2 DEF StatesOf

LEMMA StatusesAre ==
    ASSUME NEW order, Len(order) \in Nat
    PROVE  \E g : /\ ContractStatus(order) = g[Len(order)]
                  /\ g[0] = "unknown"
                  /\ \A i \in 1..Len(order) : g[i] = StatusAfter(g[i - 1], order[i])
<1>. DEFINE g == CHOOSE g : StatusesOf(g, Len(order), order)
<1>1. ContractStatus(order) = g[Len(order)]
  BY DEF ContractStatus, StatusesOf
<1>2. StatusesOf(g, Len(order), order)
  BY StatusesExist
<1>. HIDE DEF g
<1>. QED  BY <1>1, <1>2 DEF StatusesOf

-----------------------------------------------------------------------------
(* One event more *)

\* What the contracts have done with the events of P, of which O is the order.
VotersOf(P) == {Payload[v] : v \in OfType(P, "voted")}

Counted(P, O) ==
    {v \in OfType(P, "voted") :
        \A w \in OfType(P, "voted") :
            Payload[w] = Payload[v] => w = v \/ <<v, w>> \in O}

History(s, status, P, O) ==
    /\ OfType(P, "created") = {} => s.created = None
    /\ OfType(P, "created") # {} => s.created \in OfType(P, "created")
    /\ s.status = status
    /\ Paused(P) <=> status = "paused"
    /\ s.voters = VotersOf(P)
    /\ s.counted = Counted(P, O)
    /\ s.paid = PaidOut(P)

LEMMA PausedGrows ==
    ASSUME NEW P, IsFiniteSet(P), NEW e, e \notin P, NEW status,
           Paused(P) <=> status = "paused",
           Type[e] = "tallied" => status # "paused" /\ Payload[e] # "paused"
    PROVE  Paused(P \cup {e}) <=> StatusAfter(status, e) = "paused"
<1>. DEFINE T == OfType(P, "toggled")
<1>1. IsFiniteSet(T) /\ e \notin T
  BY FS_Subset DEF OfType
<1>2. Cardinality(T) \in Nat
  BY <1>1, FS_CardinalityType
<1>3. CASE Type[e] = "toggled"
  <2>1. OfType(P \cup {e}, "toggled") = T \cup {e}
    BY <1>3 DEF OfType
  <2>. HIDE DEF T
  <2>2. Cardinality(T \cup {e}) = Cardinality(T) + 1
    BY <1>1, FS_AddElement
  <2>3. Cardinality(T) % 2 = 1 <=> ~ ((Cardinality(T) + 1) % 2 = 1)
    BY <1>2
  <2>4. StatusAfter(status, e) = "paused" <=> status # "paused"
    BY <1>3 DEF StatusAfter, Toggle
  <2>. QED  BY <2>1, <2>2, <2>3, <2>4 DEF Paused, T
<1>4. CASE Type[e] # "toggled"
  <2>1. OfType(P \cup {e}, "toggled") = T
    BY <1>4 DEF OfType
  <2>2. StatusAfter(status, e) = "paused" <=> status = "paused"
    BY <1>4 DEF StatusAfter
  <2>. QED  BY <2>1, <2>2 DEF Paused
<1>. QED  BY <1>3, <1>4

LEMMA VotesGrow ==
    ASSUME NEW P, NEW e, e \notin P, NEW O,
           \A w \in P : <<w, e>> \in O /\ <<e, w>> \notin O,
           NEW s, s.voters = VotersOf(P),
           s.counted = Counted(P, O)
    PROVE  /\ After(s, e).voters = VotersOf(P \cup {e})
           /\ After(s, e).counted = Counted(P \cup {e}, O)
<1>. DEFINE V == OfType(P, "voted")
            W == OfType(P \cup {e}, "voted")
<1>1. CASE Type[e] # "voted"
  <2>1. W = V
    BY <1>1 DEF OfType
  <2>2. After(s, e).voters = s.voters /\ After(s, e).counted = s.counted
    BY <1>1 DEF After
  <2>. QED  BY <2>1, <2>2 DEF Counted, VotersOf
<1>2. CASE Type[e] = "voted"
  <2>1. W = V \cup {e} /\ e \notin V /\ V \subseteq P
    BY <1>2 DEF OfType
  <2>2. /\ After(s, e).voters = IF Payload[e] \notin s.voters
                                THEN s.voters \cup {Payload[e]} ELSE s.voters
        /\ After(s, e).counted = IF Payload[e] \notin s.voters
                                 THEN s.counted \cup {e} ELSE s.counted
    BY <1>2 DEF After
  <2>3. Payload[e] \in s.voters <=> \E v \in V : Payload[v] = Payload[e]
    BY DEF VotersOf
  <2>4. /\ s.counted = {v \in V : \A w \in V : Payload[w] = Payload[v]
                                               => w = v \/ <<v, w>> \in O}
        /\ Counted(P \cup {e}, O)
             = {v \in W : \A w \in W : Payload[w] = Payload[v]
                                       => w = v \/ <<v, w>> \in O}
    BY DEF Counted
  <2>. HIDE DEF V, W
  <2>5. After(s, e).voters = {Payload[v] : v \in W}
    <3>1. s.voters = {Payload[v] : v \in V}
      BY DEF V, VotersOf
    <3>. QED  BY <2>1, <2>2, <2>3, <3>1
  <2>6. \A v \in V : <<v, e>> \in O /\ <<e, v>> \notin O /\ v # e
    BY <2>1
  <2>7. ASSUME NEW v \in V
        PROVE  v \in Counted(P \cup {e}, O) <=> v \in s.counted
    BY <2>1, <2>4, <2>6
  <2>8. e \in Counted(P \cup {e}, O) <=> Payload[e] \notin s.voters
    BY <2>1, <2>3, <2>4, <2>6
  <2>9. s.counted \subseteq V /\ Counted(P \cup {e}, O) \subseteq V \cup {e}
    BY <2>1, <2>4
  <2>10. After(s, e).counted = Counted(P \cup {e}, O)
    BY <2>1, <2>2, <2>7, <2>8, <2>9
  <2>. QED  BY <2>5, <2>10 DEF W, VotersOf
<1>. QED  BY <1>1, <1>2

LEMMA PaidGrows ==
    ASSUME NEW P, IsFiniteSet(P), NEW e, e \notin P,
           \A x \in OfType(P \cup {e}, "executed") : Payload[x] \in Nat,
           NEW s, s.paid = PaidOut(P)
    PROVE  After(s, e).paid = PaidOut(P \cup {e})
<1>. DEFINE X == OfType(P, "executed")
<1>1. IsFiniteSet(X) /\ e \notin X
  BY FS_Subset DEF OfType
<1>2. CASE Type[e] = "executed"
  <2>1. OfType(P \cup {e}, "executed") = X \cup {e}
    BY <1>2 DEF OfType
  <2>2. \A x \in X \cup {e} : Payload[x] \in Nat
    BY <2>1
  <2>3. SumFunctionOnSet(Payload, X \cup {e}) = Payload[e] + SumFunctionOnSet(Payload, X)
    <3>. HIDE DEF X
    <3>. QED  BY <1>1, <2>2, SumAdd
  <2>4. SumFunctionOnSet(Payload, X) \in Nat /\ Payload[e] \in Nat
    <3>. HIDE DEF X
    <3>. QED  BY <1>1, <2>2, SumType
  <2>5. After(s, e).paid = s.paid + Payload[e]
    BY <1>2 DEF After
  <2>. QED  BY <2>1, <2>3, <2>4, <2>5 DEF PaidOut
<1>3. CASE Type[e] # "executed"
  <2>1. OfType(P \cup {e}, "executed") = X
    BY <1>3 DEF OfType
  <2>2. After(s, e).paid = s.paid
    BY <1>3 DEF After
  <2>. QED  BY <2>1, <2>2 DEF PaidOut
<1>. QED  BY <1>2, <1>3

LEMMA HistoryGrows ==
    ASSUME NEW P, IsFiniteSet(P), NEW e, e \notin P, NEW O,
           \A w \in P : <<w, e>> \in O /\ <<e, w>> \notin O,
           NEW s, NEW status, History(s, status, P, O),
           \A x \in OfType(P \cup {e}, "executed") : Payload[x] \in Nat,
           Type[e] = "toggled" => Payload[e] = Toggle(status),
           Type[e] = "tallied" => status # "paused" /\ Payload[e] # "paused"
    PROVE  History(After(s, e), StatusAfter(status, e), P \cup {e}, O)
<1>1. /\ OfType(P \cup {e}, "created") = {} => After(s, e).created = None
      /\ OfType(P \cup {e}, "created") # {}
         => After(s, e).created \in OfType(P \cup {e}, "created")
  <2>1. CASE Type[e] = "created"
    <3>1. e \in OfType(P \cup {e}, "created") /\ After(s, e).created = e
      BY <2>1 DEF OfType, After
    <3>. QED  BY <3>1
  <2>2. CASE Type[e] # "created"
    <3>1. OfType(P \cup {e}, "created") = OfType(P, "created")
          /\ After(s, e).created = s.created
      BY <2>2 DEF OfType, After
    <3>. QED  BY <3>1 DEF History
  <2>. QED  BY <2>1, <2>2
<1>2. After(s, e).status = StatusAfter(status, e)
  BY DEF After, StatusAfter, History
<1>3. Paused(P \cup {e}) <=> StatusAfter(status, e) = "paused"
  BY PausedGrows DEF History
<1>4. /\ After(s, e).voters = VotersOf(P \cup {e})
      /\ After(s, e).counted = Counted(P \cup {e}, O)
  <2>1. /\ s.voters = VotersOf(P)
        /\ s.counted = Counted(P, O)
    BY DEF History
  <2>. QED  BY <2>1, VotesGrow
<1>5. After(s, e).paid = PaidOut(P \cup {e})
  BY PaidGrows DEF History
<1>. QED  BY <1>1, <1>2, <1>3, <1>4, <1>5 DEF History

\* All events: the fold over the facts has come as far as the contracts.
LEMMA HistoryOf ==
    ASSUME NEW S, IsFiniteSet(S), NEW O, Orders(O, S),
           NEW order, order = Ordered(O, S),
           \A x \in OfType(S, "executed") : Payload[x] \in Nat,
           \A i \in 1..Len(order) :
              LET before == ContractStates(order)[i - 1].status
              IN  /\ Type[order[i]] = "toggled" => Payload[order[i]] = Toggle(before)
                  /\ Type[order[i]] = "tallied" =>
                        before # "paused" /\ Payload[order[i]] # "paused"
    PROVE  History(ContractStates(order)[Len(order)], ContractStatus(order), S, O)
<1>. DEFINE n == Cardinality(S)
            Prefix(i) == {order[j] : j \in 1..i}
            h == ContractStates(order)
<1>1. /\ n \in Nat /\ order \in [1..n -> S]
      /\ \A x \in S : \E i \in 1..n : order[i] = x
      /\ \A i, j \in 1..n : i < j =>
            /\ <<order[i], order[j]>> \in O /\ <<order[j], order[i]>> \notin O
            /\ order[i] # order[j]
  BY OrderedOf
<1>. HIDE DEF n
<1>2. Len(order) = n
  <2>1. order \in Seq(S) /\ DOMAIN order = 1..n
    BY <1>1
  <2>. QED  BY <1>1, <2>1
<1>3. PICK g : /\ ContractStatus(order) = g[n]
               /\ g[0] = "unknown"
               /\ \A i \in 1..n : g[i] = StatusAfter(g[i - 1], order[i])
  <2>1. \E g : /\ ContractStatus(order) = g[Len(order)]
               /\ g[0] = "unknown"
               /\ \A i \in 1..Len(order) : g[i] = StatusAfter(g[i - 1], order[i])
    <3>1. Len(order) \in Nat
      BY <1>1, <1>2
    <3>. QED  BY <3>1, StatusesAre
  <2>. QED  BY <1>2, <2>1
<1>4. h[0] = Untouched /\ \A i \in 1..n : h[i] = After(h[i - 1], order[i])
  BY <1>1, <1>2, StatesAre
<1>5. \A i \in 1..n :
         /\ Type[order[i]] = "toggled" => Payload[order[i]] = Toggle(h[i - 1].status)
         /\ Type[order[i]] = "tallied" =>
               h[i - 1].status # "paused" /\ Payload[order[i]] # "paused"
  BY <1>2
<1>. HIDE DEF h
<1>6. \A i \in 0..n : Prefix(i) \subseteq S /\ IsFiniteSet(Prefix(i))
  <2>1. \A i \in 0..n : Prefix(i) \subseteq S
    BY <1>1
  <2>. HIDE DEF Prefix
  <2>. QED  BY <2>1, FS_Subset
<1>. DEFINE H(i) == History(h[i], g[i], Prefix(i), O)
<1>7. H(0)
  <2>1. Prefix(0) = {}
    OBVIOUS
  <2>2. \A type : OfType({}, type) = {}
    BY DEF OfType
  <2>3. PaidOut({}) = 0 /\ OfType({}, "toggled") = {}
    BY <2>2, SumEmpty DEF PaidOut
  <2>4. ~ Paused({})
    <3>1. Cardinality({}) = 0
      BY FS_EmptySet
    <3>2. ~ (0 % 2 = 1)
      OBVIOUS
    <3>. QED  BY <2>3, <3>1, <3>2 DEF Paused
  <2>5. History(Untouched, "unknown", {}, O)
    BY <2>2, <2>3, <2>4 DEF History, Untouched, Counted, VotersOf
  <2>. QED  BY <1>3, <1>4, <2>1, <2>5
<1>8. ASSUME NEW i \in 1..n, H(i - 1) PROVE H(i)
  <2>1. i \in Int /\ i - 1 \in 0..n /\ order[i] \in S
    BY <1>1
  <2>2. Prefix(i) = Prefix(i - 1) \cup {order[i]}
    <3>1. \A j : j \in 1..i <=> j \in 1..(i - 1) \/ j = i
      BY <2>1
    <3>. QED  BY <3>1
  <2>3. \A w \in Prefix(i - 1) :
           <<w, order[i]>> \in O /\ <<order[i], w>> \notin O /\ w # order[i]
    <3>1. \A j \in 1..(i - 1) : j \in 1..n /\ j < i
      BY <1>1, <2>1
    <3>. QED  BY <1>1, <3>1
  <2>4. IsFiniteSet(Prefix(i - 1)) /\ Prefix(i - 1) \subseteq S
    BY <1>6, <2>1
  <2>. DEFINE P == Prefix(i - 1)
  <2>. HIDE DEF Prefix
  <2>5. History(h[i - 1], g[i - 1], P, O)
    BY <1>8
  <2>6. h[i - 1].status = g[i - 1]
    BY <2>5 DEF History
  <2>7. \A x \in OfType(P \cup {order[i]}, "executed") : Payload[x] \in Nat
    BY <2>1, <2>4 DEF OfType
  <2>8. order[i] \notin P
    BY <2>3
  <2>9. /\ Type[order[i]] = "toggled" => Payload[order[i]] = Toggle(g[i - 1])
        /\ Type[order[i]] = "tallied" =>
              g[i - 1] # "paused" /\ Payload[order[i]] # "paused"
    BY <1>5, <2>6
  <2>10. \A w \in P : <<w, order[i]>> \in O /\ <<order[i], w>> \notin O
    BY <2>3
  <2>11. IsFiniteSet(P)
    BY <2>4
  <2>. HIDE DEF P
  <2>12. History(After(h[i - 1], order[i]), StatusAfter(g[i - 1], order[i]),
                 P \cup {order[i]}, O)
    BY <2>5, <2>7, <2>8, <2>9, <2>10, <2>11, HistoryGrows
  <2>. QED  BY <1>3, <1>4, <2>2, <2>12 DEF P
<1>. HIDE DEF H
<1>9. H(n)
  <2>. DEFINE Bad == {i \in 0..n : ~ H(i)}
  <2>. SUFFICES ASSUME Bad # {} PROVE FALSE
    BY <1>1
  <2>1. PICK k \in Bad : \A j \in Bad : k <= j
    <3>1. Bad \in SUBSET Nat
      BY <1>1
    <3>. HIDE DEF Bad
    <3>. QED  BY <3>1, NatMin
  <2>2. k # 0
    BY <1>7
  <2>3. k \in 1..n /\ k - 1 \in 0..n /\ ~ (k <= k - 1)
    BY <1>1, <2>2
  <2>4. H(k - 1)
    BY <2>1, <2>3
  <2>. QED  BY <1>8, <2>3, <2>4
<1>10. Prefix(n) = S
  BY <1>1
<1>. QED  BY <1>2, <1>3, <1>9, <1>10 DEF H, h

-----------------------------------------------------------------------------
(* The order of the facts is the order of the chain *)

LEMMA PrecedesEarlier ==
    ASSUME NEW t \in Blocks, NEW F, NEW S, Placed(F, S, t),
           NEW block, \A e \in S : block[e] = F[e].block,
           NEW e \in S, NEW f \in S
    PROVE  Precedes(block, e, f) <=> Earlier(F, e, f)
<1>. DEFINE b == F[e].block
            c == F[f].block
<1>1. /\ b \in Branch[t] /\ c \in Branch[t] /\ b \in Blocks /\ c \in Blocks
      /\ block[e] = b /\ block[f] = c
  BY BranchSelf DEF Placed
<1>2. Earlier(F, e, f) <=> \/ Height[b] < Height[c]
                           \/ Height[b] = Height[c] /\ Place(e, b) < Place(f, c)
  BY EarlierPlace
<1>3. Precedes(block, e, f) <=> \/ b # c /\ b \in Branch[c]
                                \/ b = c /\ Place(e, b) < Place(f, b)
  BY <1>1 DEF Precedes
<1>. HIDE DEF b, c
<1>4. Height[b] \in Nat /\ Height[c] \in Nat
  BY <1>1, ProjectionAssumption
<1>5. Height[b] = Height[c] <=> b = c
  BY <1>1, OnePerHeight
<1>6. Height[b] < Height[c] <=> b # c /\ b \in Branch[c]
  <2>1. b # c /\ b \in Branch[c] => Height[b] < Height[c]
    BY <1>1, AncestorLower
  <2>2. Height[b] < Height[c] => Height[b] <= Height[c]
    BY <1>4
  <2>3. Height[b] < Height[c] => b \in Branch[c]
    BY <1>1, <2>2, LowerIsAncestor
  <2>4. Height[b] < Height[c] => Height[b] # Height[c]
    BY <1>4
  <2>. QED  BY <1>5, <2>1, <2>3, <2>4
<1>. QED  BY <1>2, <1>3, <1>5, <1>6

LEMMA SourceOrderOf ==
    ASSUME NEW F, NEW S
    PROVE  SourceOrder(F, S) = Ordered(EarlierIn(F, S), S)
<1>1. \A x \in S : Below(EarlierIn(F, S), S, x) = {y \in S : Earlier(F, y, x)}
  BY DEF Below, EarlierIn
<1>2. Ranks(EarlierIn(F, S), S)
        = {<<Cardinality({y \in S : Earlier(F, y, x)}), x>> : x \in S}
  BY <1>1 DEF Ranks
<1>. QED  BY <1>2 DEF SourceOrder, InOrder, Ordered

LEMMA ChainOrderOf ==
    ASSUME NEW t \in Blocks, NEW F, NEW S, Placed(F, S, t),
           NEW block, \A e \in S : block[e] = F[e].block
    PROVE  ChainOrder(S, block) = Ordered(EarlierIn(F, S), S)
<1>1. \A x, y \in S : Precedes(block, y, x) <=> <<y, x>> \in EarlierIn(F, S)
  BY PrecedesEarlier DEF EarlierIn
<1>2. \A x \in S : Below(EarlierIn(F, S), S, x) = {y \in S : Precedes(block, y, x)}
  BY <1>1 DEF Below
<1>3. Ranks(EarlierIn(F, S), S)
        = {<<Cardinality({y \in S : Precedes(block, y, x)}), x>> : x \in S}
  BY <1>2 DEF Ranks
<1>. QED  BY <1>3 DEF ChainOrder, InOrder, Ordered

\* The reconciliation of facts that are the rows shows the contracts' state.
LEMMA ReconciledAgrees ==
    ASSUME SafeInv, \A e \in Events \ Undecodable : facts[e] = rows[e],
           NEW contents \in BOOLEAN
    PROVE  Agrees(Reconciled(facts, Surviving(facts, rows), contents))
<1>. DEFINE S == OnChain
            O == EarlierIn(facts, S)
            order == Ordered(O, S)
            block == [e \in Events |-> rows[e].block]
<1>1. PICK t \in Blocks : Showing(rows) = EventsOf(Branch[t]) /\ Placed(rows, Showing(rows), t)
  BY DEF SafeInv, RowsSound
<1>2. /\ S \subseteq Events \ Undecodable /\ S \subseteq Showing(rows)
      /\ S = EventsOf(Branch[t]) \ Undecodable
      /\ \A e \in S : facts[e] = rows[e]
  BY <1>1 DEF OnChain, Showing
<1>3. Surviving(facts, rows) = S
  <2>1. \A e \in Surviving(facts, rows) : e \in S
    BY SurvivingShown DEF SafeInv, TypeOK, OnChain
  <2>2. \A e \in S : e \in Surviving(facts, rows)
    BY DEF OnChain, Surviving, Outdated
  <2>3. Surviving(facts, rows) \subseteq Events
    BY DEF Surviving
  <2>. QED  BY <2>1, <2>2, <2>3
<1>4. Placed(facts, S, t)
  BY <1>1, <1>2 DEF Placed
<1>5. IsFiniteSet(S)
  BY <1>2, FiniteEvents
<1>6. Orders(O, S)
  BY <1>4, EarlierOrders
<1>7. SourceOrder(facts, S) = order
  BY SourceOrderOf
<1>8. ChainOrder(S, block) = order
  <2>1. \A e \in S : block[e] = facts[e].block
    BY <1>2
  <2>. HIDE DEF S, block
  <2>. QED  BY <1>4, <2>1, ChainOrderOf
<1>9. ContractState = ContractStates(order)[Len(order)]
  BY <1>8 DEF ContractState
<1>10. ASSUME NEW i \in 1..Len(order)
       PROVE  LET before == ContractStates(order)[i - 1].status
              IN  /\ Type[order[i]] = "toggled" => Payload[order[i]] = Toggle(before)
                  /\ Type[order[i]] = "tallied" =>
                        before # "paused" /\ Payload[order[i]] # "paused"
  <2>. DEFINE X == EventsOf(Branch[t])
              at == [e \in X |-> RowAt(e, Branch[t])]
  <2>1. \A e \in S : at[e] = facts[e].block
    BY <1>2, <1>4, RowAtOnly DEF Placed
  <2>2. ChainOrder(X \ Undecodable, at) = order
    <3>1. X \ Undecodable = S
      BY <1>2
    <3>. HIDE DEF S, at, X
    <3>. QED  BY <1>4, <2>1, <3>1, ChainOrderOf
  <2>3. \A j \in 1..Len(ChainOrder(X \ Undecodable, at)) :
           LET before == ContractStates(ChainOrder(X \ Undecodable, at))[j - 1].status
               e == ChainOrder(X \ Undecodable, at)[j]
           IN  /\ Type[e] = "toggled" => Payload[e] = Toggle(before)
               /\ Type[e] = "tallied" => before # "paused" /\ Payload[e] # "paused"
    BY StatusAssumption
  <2>. HIDE DEF X, at, order
  <2>. QED  BY <2>2, <2>3
<1>11. \A x \in OfType(S, "executed") : Payload[x] \in Nat
  <2>1. OfType(S, "executed") \subseteq OfType(EventsOf(Branch[t]), "executed")
    BY <1>2 DEF OfType
  <2>. QED  BY <2>1, ChainAssumption
<1>12. \A e, f \in OfType(S, "created") : e = f
  <2>1. OfType(S, "created") \subseteq OfType(EventsOf(Branch[t]), "created")
    BY <1>2 DEF OfType
  <2>. QED  BY <2>1, ChainAssumption
<1>13. \A v, w \in S : Earlier(facts, v, w) <=> <<v, w>> \in O
  BY DEF EarlierIn
<1>. HIDE DEF S, O, order, block
<1>14. History(ContractState, ContractStatus(order), S, O)
  BY <1>5, <1>6, <1>9, <1>10, <1>11, HistoryOf DEF order
<1>15. Owners(facts, S) = Counted(S, O)
  <2>1. OfType(S, "voted") \subseteq S
    BY DEF OfType
  <2>. QED  BY <1>13, <2>1 DEF Owners, Counted
<1>. DEFINE p == Reconciled(facts, S, contents)
<1>16. CASE Creations(facts, S) = {}
  <2>1. OfType(S, "created") = {}
    BY <1>16 DEF Creations
  <2>2. ContractState.created = None
    BY <1>14, <2>1 DEF History
  <2>3. p = NoProposal
    BY <1>16 DEF Reconciled
  <2>. QED  BY <1>3, <2>2, <2>3 DEF Agrees, NoProposal
<1>17. CASE Creations(facts, S) # {}
  <2>. DEFINE creation == CHOOSE e \in Creations(facts, S) : TRUE
  <2>1. creation \in Creations(facts, S) /\ Creations(facts, S) \subseteq OfType(S, "created")
    BY <1>17 DEF Creations
  <2>2. ContractState.created = creation /\ creation \in S
    BY <1>12, <1>14, <2>1 DEF History, OfType
  <2>3. /\ p.creation = creation
        /\ p.finality = facts[creation].status
        /\ p.status = ContractStatus(order)
        /\ p.paused = Paused(S)
        /\ p.owners = Owners(facts, S)
        /\ p.votes = OfType(S, "voted")
        /\ p.tallies = OfType(S, "tallied")
        /\ p.paidOut = PaidOut(S)
    BY <1>7, <1>17 DEF Reconciled
  <2>. HIDE DEF creation, p
  <2>4. /\ p.paused <=> ContractState.status = "paused"
        /\ p.status = ContractState.status
        /\ p.owners = ContractState.counted
        /\ p.paidOut = ContractState.paid
    BY <1>14, <1>15, <2>3 DEF History
  <2>5. p.finality = rows[p.creation].status
    BY <1>2, <2>2, <2>3
  <2>6. Agrees(p)
    BY <2>2, <2>3, <2>4, <2>5 DEF Agrees, S
  <2>. QED  BY <1>3, <2>6 DEF p
<1>. QED  BY <1>16, <1>17

\* When nothing is left to process, the proposal shows the state of the
\* contracts.
THEOREM ProjectionFollowsContracts == Spec => []ProjectionCurrent
<1>1. IInv => ProjectionCurrent
  <2>. SUFFICES ASSUME IInv, replay.state = "complete", Versions(offset) = {}
                PROVE  Agrees(proposal)
    BY DEF ProjectionCurrent
  <2>1. /\ \A e \in Events \ Undecodable : facts[e] = rows[e]
        /\ \E contents \in BOOLEAN :
              proposal = Reconciled(facts, Surviving(facts, rows), contents)
    BY RebuiltNow
  <2>. QED  BY <2>1, ReconciledAgrees DEF IInv
<1>. QED  BY <1>1, ProjectionInductive, PTL
=============================================================================
