-------------------------------- MODULE Sums --------------------------------
(***************************************************************************)
(* What SumFunctionOnSet computes, for any function into the natural       *)
(* numbers and any finite set.  The operator folds over the set in the     *)
(* order of CHOOSE, by a recursive function over its subsets; the lemmas   *)
(* say that this function exists and that the order does not matter.       *)
(*                                                                         *)
(* They are inductions over finite sets, by a smallest counterexample.     *)
(***************************************************************************)
EXTENDS FiniteSetsExt, FiniteSetTheorems, WellFoundedInduction, TLAPS

\* A set of finite sets that is not empty has a minimal element.
LEMMA MinimalSet ==
    ASSUME NEW S, IsFiniteSet(S), NEW C \in SUBSET SUBSET S, C # {}
    PROVE  \E s \in C : /\ IsFiniteSet(s)
                        /\ \A u \in SUBSET s : u # s => u \notin C
<1>. DEFINE R == StrictSubsetOrdering(S)
<1>1. IsWellFoundedOn(R, SUBSET S)
  BY FS_StrictSubsetOrderingWellFounded, FS_FiniteSubsetsOfFinite
<1>2. PICK s \in C : \A u \in C : ~(<<u, s>> \in R)
  <2>. HIDE DEF R
  <2>. QED  BY <1>1, WFMin
<1>3. IsFiniteSet(s)
  BY FS_Subset
<1>4. ASSUME NEW u \in SUBSET s, u # s, u \in C
      PROVE  FALSE
  <2>1. <<u, s>> \in R
    BY <1>4 DEF StrictSubsetOrdering
  <2>. QED  BY <1>2, <1>4, <2>1
<1>. QED  BY <1>3, <1>4

\* So has a set of natural numbers.
LEMMA NatMin ==
    ASSUME NEW S \in SUBSET Nat, S # {}
    PROVE  Min(S) \in S /\ \A n \in S : Min(S) <= n
<1>. DEFINE R == OpToRel(<, Nat)
<1>1. PICK m \in S : \A n \in S : ~(<<n, m>> \in R)
  <2>1. IsWellFoundedOn(R, Nat)
    BY NatLessThanWellFounded
  <2>. HIDE DEF R
  <2>. QED  BY <2>1, WFMin
<1>2. R = {ss \in Nat \X Nat : ss[1] < ss[2]}
  BY DEF OpToRel
<1>. HIDE DEF R
<1>3. \A n \in S : m <= n
  <2>. SUFFICES ASSUME NEW n \in S, n < m PROVE FALSE
    BY <1>1
  <2>1. <<n, m>> \in R
    BY <1>2
  <2>. QED  BY <1>1, <2>1
<1>. QED  BY <1>3 DEF Min

-----------------------------------------------------------------------------
(* The recursive function *)

First(s) == CHOOSE x \in s : TRUE

\* The value of the sum over s, with g for the smaller sets.
Step(g, f, s) == IF s = {} THEN 0 ELSE f[First(s)] + g[s \ {First(s)}]

\* g adds up f over every subset of S.
AddsUp(g, f, S) == g = [s \in SUBSET S |-> Step(g, f, s)]

LEMMA SumIsChosen ==
    ASSUME NEW f, NEW S
    PROVE  SumFunctionOnSet(f, S) = (CHOOSE g : AddsUp(g, f, S))[S]
BY DEF SumFunctionOnSet, FoldFunctionOnSet, MapThenFoldSet, AddsUp, Step, First

LEMMA FirstIn == ASSUME NEW s, s # {} PROVE First(s) \in s
BY DEF First

\* Two such functions agree where both are defined.
LEMMA SumsAgree ==
    ASSUME NEW f, NEW S, NEW U, IsFiniteSet(S), NEW g, NEW h,
           AddsUp(g, f, S), AddsUp(h, f, U), NEW s \in SUBSET (S \cap U)
    PROVE  g[s] = h[s]
<1>. DEFINE C == {u \in SUBSET (S \cap U) : g[u] # h[u]}
<1>. SUFFICES ASSUME C # {} PROVE FALSE
  OBVIOUS
<1>1. PICK u \in C : \A v \in SUBSET u : v # u => v \notin C
  <2>1. C \in SUBSET SUBSET S
    OBVIOUS
  <2>. HIDE DEF C
  <2>. QED  BY <2>1, MinimalSet
<1>2. g[u] = Step(g, f, u) /\ h[u] = Step(h, f, u)
  BY DEF AddsUp
<1>3. CASE u = {}
  BY <1>2, <1>3 DEF Step
<1>4. CASE u # {}
  <2>1. First(u) \in u
    BY <1>4, FirstIn
  <2>2. g[u \ {First(u)}] = h[u \ {First(u)}]
    BY <1>1, <2>1
  <2>. QED  BY <1>2, <1>4, <2>2 DEF Step
<1>. QED  BY <1>3, <1>4

\* There is one for every finite set: that for the set without its first
\* element, extended to the subsets with that element.
LEMMA SumExists ==
    ASSUME NEW f, NEW S, IsFiniteSet(S)
    PROVE  \E g : AddsUp(g, f, S)
<1>. DEFINE C == {u \in SUBSET S : ~ \E g : AddsUp(g, f, u)}
<1>. SUFFICES ASSUME C # {} PROVE FALSE
  OBVIOUS
<1>1. PICK u \in C : IsFiniteSet(u) /\ \A v \in SUBSET u : v # u => v \notin C
  <2>1. C \in SUBSET SUBSET S
    OBVIOUS
  <2>. HIDE DEF C
  <2>. QED  BY <2>1, MinimalSet
<1>. DEFINE For(v) == CHOOSE g : AddsUp(g, f, v)
            Smaller == {v \in SUBSET u : v # u}
<1>2. \A v \in Smaller : AddsUp(For(v), f, v)
  BY <1>1
<1>. DEFINE g == [v \in SUBSET u |->
                    IF v = {} THEN 0
                    ELSE f[First(v)] + For(v \ {First(v)})[v \ {First(v)}]]
<1>. HIDE DEF For
<1>3. ASSUME NEW v \in SUBSET u
      PROVE  g[v] = Step(g, f, v)
  <2>1. CASE v = {}
    BY <2>1 DEF Step
  <2>2. CASE v # {}
    <3>. DEFINE w == v \ {First(v)}
    <3>1. First(v) \in v /\ w \in Smaller
      BY <2>2, FirstIn
    <3>2. g[v] = f[First(v)] + For(w)[w]
      BY <2>2
    <3>3. g[w] = For(w)[w]
      <4>1. AddsUp(For(w), f, w)
        BY <1>2, <3>1
      <4>2. For(w)[w] = Step(For(w), f, w)
        BY <4>1 DEF AddsUp
      <4>3. CASE w = {}
        BY <4>2, <4>3 DEF Step
      <4>4. CASE w # {}
        <5>. DEFINE x == w \ {First(w)}
        <5>1. First(w) \in w /\ x \in Smaller
          BY <3>1, <4>4, FirstIn
        <5>2. AddsUp(For(x), f, x)
          BY <1>2, <5>1
        <5>3. For(w)[x] = For(x)[x]
          <6>1. IsFiniteSet(w) /\ x \in SUBSET (w \cap x)
            BY <1>1, <3>1, FS_Subset
          <6>. HIDE DEF w, x
          <6>. QED  BY <4>1, <5>2, <6>1, SumsAgree
        <5>4. g[w] = f[First(w)] + For(x)[x]
          BY <4>4, <3>1
        <5>. QED  BY <4>2, <4>4, <5>3, <5>4 DEF Step
      <4>. QED  BY <4>3, <4>4
    <3>. HIDE DEF g
    <3>. QED  BY <2>2, <3>2, <3>3 DEF Step
  <2>. QED  BY <2>1, <2>2
<1>4. AddsUp(g, f, u)
  <2>1. g = [v \in SUBSET u |-> g[v]]
    OBVIOUS
  <2>. HIDE DEF g
  <2>2. [v \in SUBSET u |-> g[v]] = [v \in SUBSET u |-> Step(g, f, v)]
    BY <1>3
  <2>. QED  BY <2>1, <2>2 DEF AddsUp
<1>. QED  BY <1>4

\* The equation that the sum is defined by.
LEMMA SumFirst ==
    ASSUME NEW f, NEW S, IsFiniteSet(S), S # {}
    PROVE  /\ First(S) \in S
           /\ SumFunctionOnSet(f, S) =
                 f[First(S)] + SumFunctionOnSet(f, S \ {First(S)})
<1>. DEFINE g == CHOOSE g : AddsUp(g, f, S)
            T == S \ {First(S)}
            h == CHOOSE h : AddsUp(h, f, T)
<1>1. First(S) \in S /\ IsFiniteSet(T)
  BY FirstIn, FS_Subset
<1>2. AddsUp(g, f, S) /\ AddsUp(h, f, T)
  BY <1>1, SumExists
<1>3. SumFunctionOnSet(f, S) = g[S] /\ SumFunctionOnSet(f, T) = h[T]
  BY SumIsChosen
<1>. HIDE DEF g, h
<1>4. g[S] = f[First(S)] + g[T]
  BY <1>2 DEF AddsUp, Step
<1>5. g[T] = h[T]
  BY <1>1, <1>2, SumsAgree
<1>. QED  BY <1>1, <1>3, <1>4, <1>5

-----------------------------------------------------------------------------
(* What the model's sums are *)

LEMMA SumEmpty == ASSUME NEW f PROVE SumFunctionOnSet(f, {}) = 0
<1>. DEFINE g == CHOOSE g : AddsUp(g, f, {})
<1>1. AddsUp(g, f, {})
  BY SumExists, FS_EmptySet
<1>2. SumFunctionOnSet(f, {}) = g[{}]
  BY SumIsChosen
<1>. HIDE DEF g
<1>. QED  BY <1>1, <1>2 DEF AddsUp, Step

\* Of natural numbers, a natural number.
LEMMA SumType ==
    ASSUME NEW f, NEW S, IsFiniteSet(S), \A x \in S : f[x] \in Nat
    PROVE  SumFunctionOnSet(f, S) \in Nat
<1>. DEFINE C == {u \in SUBSET S : SumFunctionOnSet(f, u) \notin Nat}
<1>. SUFFICES ASSUME C # {} PROVE FALSE
  OBVIOUS
<1>1. PICK u \in C : IsFiniteSet(u) /\ \A v \in SUBSET u : v # u => v \notin C
  <2>1. C \in SUBSET SUBSET S
    OBVIOUS
  <2>. HIDE DEF C
  <2>. QED  BY <2>1, MinimalSet
<1>2. u # {}
  BY SumEmpty
<1>3. /\ First(u) \in u
      /\ SumFunctionOnSet(f, u) =
            f[First(u)] + SumFunctionOnSet(f, u \ {First(u)})
  BY <1>1, <1>2, SumFirst
<1>4. SumFunctionOnSet(f, u \ {First(u)}) \in Nat
  BY <1>1, <1>3
<1>. QED  BY <1>3, <1>4

\* Any element may be taken out first.
LEMMA SumWithout ==
    ASSUME NEW f, NEW S, IsFiniteSet(S), \A x \in S : f[x] \in Nat, NEW x \in S
    PROVE  SumFunctionOnSet(f, S) = f[x] + SumFunctionOnSet(f, S \ {x})
<1>. DEFINE Sum(u) == SumFunctionOnSet(f, u)
            C == {u \in SUBSET S : \E y \in u : Sum(u) # f[y] + Sum(u \ {y})}
<1>0. \A u \in SUBSET S : IsFiniteSet(u) /\ Sum(u) \in Nat
  BY SumType, FS_Subset
<1>1. \A u \in SUBSET S : u # {} =>
         First(u) \in u /\ Sum(u) = f[First(u)] + Sum(u \ {First(u)})
  BY <1>0, SumFirst
<1>. HIDE DEF Sum
<1>. SUFFICES ASSUME C # {} PROVE FALSE
  BY DEF Sum
<1>2. PICK u \in C : \A v \in SUBSET u : v # u => v \notin C
  <2>1. C \in SUBSET SUBSET S
    OBVIOUS
  <2>. HIDE DEF C
  <2>. QED  BY <2>1, MinimalSet
<1>3. PICK y \in u : Sum(u) # f[y] + Sum(u \ {y})
  OBVIOUS
<1>. DEFINE z == First(u)
<1>4. z \in u /\ Sum(u) = f[z] + Sum(u \ {z})
  BY <1>1
<1>. HIDE DEF z
<1>5. y # z
  BY <1>3, <1>4
<1>6. Sum(u \ {z}) = f[y] + Sum((u \ {z}) \ {y})
  BY <1>2, <1>4, <1>5
<1>7. Sum(u \ {y}) = f[z] + Sum((u \ {y}) \ {z})
  BY <1>2, <1>4, <1>5
<1>8. (u \ {z}) \ {y} = (u \ {y}) \ {z}
  OBVIOUS
<1>9. /\ f[y] \in Nat /\ f[z] \in Nat
      /\ Sum((u \ {y}) \ {z}) \in Nat
  BY <1>0, <1>4
<1>. HIDE DEF C
<1>. QED  BY <1>3, <1>4, <1>6, <1>7, <1>8, <1>9

LEMMA SumAdd ==
    ASSUME NEW f, NEW S, IsFiniteSet(S), NEW x, x \notin S,
           \A y \in S \cup {x} : f[y] \in Nat
    PROVE  SumFunctionOnSet(f, S \cup {x}) = f[x] + SumFunctionOnSet(f, S)
<1>1. IsFiniteSet(S \cup {x}) /\ (S \cup {x}) \ {x} = S
  BY FS_AddElement
<1>. QED  BY <1>1, SumWithout

\* Only the values on the set matter.
LEMMA SumSame ==
    ASSUME NEW f, NEW g, NEW S, IsFiniteSet(S), \A x \in S : f[x] = g[x]
    PROVE  SumFunctionOnSet(f, S) = SumFunctionOnSet(g, S)
<1>. DEFINE C == {u \in SUBSET S :
                     SumFunctionOnSet(f, u) # SumFunctionOnSet(g, u)}
<1>. SUFFICES ASSUME C # {} PROVE FALSE
  OBVIOUS
<1>1. PICK u \in C : IsFiniteSet(u) /\ \A v \in SUBSET u : v # u => v \notin C
  <2>1. C \in SUBSET SUBSET S
    OBVIOUS
  <2>. HIDE DEF C
  <2>. QED  BY <2>1, MinimalSet
<1>2. u # {}
  BY SumEmpty
<1>3. /\ First(u) \in u
      /\ \A h \in {f, g} : SumFunctionOnSet(h, u) =
            h[First(u)] + SumFunctionOnSet(h, u \ {First(u)})
  BY <1>1, <1>2, SumFirst
<1>4. SumFunctionOnSet(f, u \ {First(u)}) = SumFunctionOnSet(g, u \ {First(u)})
  BY <1>1, <1>3
<1>. QED  BY <1>3, <1>4

\* One value changes.
LEMMA SumUpdate ==
    ASSUME NEW f, NEW g, NEW S, IsFiniteSet(S), NEW x \in S,
           \A y \in S : f[y] \in Nat /\ g[y] \in Nat,
           \A y \in S : y # x => f[y] = g[y]
    PROVE  SumFunctionOnSet(g, S) = SumFunctionOnSet(f, S) + g[x] - f[x]
<1>. DEFINE T == S \ {x}
<1>1. IsFiniteSet(T)
  BY FS_Subset
<1>2. SumFunctionOnSet(f, T) = SumFunctionOnSet(g, T)
  BY <1>1, SumSame
<1>3. SumFunctionOnSet(f, T) \in Nat
  BY <1>1, SumType
<1>4. /\ SumFunctionOnSet(f, S) = f[x] + SumFunctionOnSet(f, T)
      /\ SumFunctionOnSet(g, S) = g[x] + SumFunctionOnSet(g, T)
  BY SumWithout
<1>. QED  BY <1>2, <1>3, <1>4

\* Two sets without a common element.
LEMMA SumUnion ==
    ASSUME NEW f, NEW S, NEW T, IsFiniteSet(S), IsFiniteSet(T), S \cap T = {},
           \A x \in S \cup T : f[x] \in Nat
    PROVE  SumFunctionOnSet(f, S \cup T)
             = SumFunctionOnSet(f, S) + SumFunctionOnSet(f, T)
<1>. DEFINE Sum(u) == SumFunctionOnSet(f, u)
            C == {u \in SUBSET T : Sum(S \cup u) # Sum(S) + Sum(u)}
<1>0. /\ \A u \in SUBSET T : /\ IsFiniteSet(u) /\ Sum(u) \in Nat
                             /\ IsFiniteSet(S \cup u)
      /\ Sum(S) \in Nat
  BY SumType, FS_Subset, FS_Union
<1>1. Sum({}) = 0
  BY SumEmpty
<1>2. \A u : IsFiniteSet(u) /\ u \subseteq S \cup T =>
         \A x \in u : Sum(u) = f[x] + Sum(u \ {x})
  BY SumWithout
<1>. HIDE DEF Sum
<1>. SUFFICES ASSUME C # {} PROVE FALSE
  BY DEF Sum
<1>3. PICK u \in C : \A v \in SUBSET u : v # u => v \notin C
  <2>1. C \in SUBSET SUBSET T
    OBVIOUS
  <2>. HIDE DEF C
  <2>. QED  BY <2>1, MinimalSet
<1>4. CASE u = {}
  <2>1. S \cup u = S
    BY <1>4
  <2>. QED  BY <1>0, <1>1, <1>4, <2>1
<1>5. CASE u # {}
  <2>1. PICK x \in u : TRUE
    BY <1>5
  <2>2. Sum(S \cup (u \ {x})) = Sum(S) + Sum(u \ {x})
    BY <1>3, <2>1
  <2>3. (S \cup u) \ {x} = S \cup (u \ {x})
    OBVIOUS
  <2>4. Sum(S \cup u) = f[x] + Sum(S \cup (u \ {x}))
    BY <1>0, <1>2, <2>3
  <2>5. Sum(u) = f[x] + Sum(u \ {x})
    BY <1>0, <1>2
  <2>6. f[x] \in Nat /\ Sum(S) \in Nat /\ Sum(u \ {x}) \in Nat
    BY <1>0
  <2>7. Sum(S \cup u) # Sum(S) + Sum(u)
    OBVIOUS
  <2>. HIDE DEF C
  <2>. QED  BY <2>2, <2>4, <2>5, <2>6, <2>7
<1>. QED  BY <1>4, <1>5

\* A part is not more than the whole.
LEMMA SumPart ==
    ASSUME NEW f, NEW S, IsFiniteSet(S), NEW T \in SUBSET S,
           \A x \in S : f[x] \in Nat
    PROVE  SumFunctionOnSet(f, T) <= SumFunctionOnSet(f, S)
<1>1. IsFiniteSet(T) /\ IsFiniteSet(S \ T) /\ S = T \cup (S \ T)
  BY FS_Subset
<1>2. SumFunctionOnSet(f, T) \in Nat /\ SumFunctionOnSet(f, S \ T) \in Nat
  BY <1>1, SumType
<1>3. SumFunctionOnSet(f, S)
        = SumFunctionOnSet(f, T) + SumFunctionOnSet(f, S \ T)
  BY <1>1, SumUnion
<1>. QED  BY <1>2, <1>3

\* The elements of S that a function places in a group of G.
Members(S, group, G) == {x \in S : group[x] \in G}

\* w has the sum of each group of G.
Totals(w, f, S, group, G) ==
    \A k \in G : w[k] = SumFunctionOnSet(f, Members(S, group, {k}))

\* What is added up by groups is added up once.
LEMMA SumByGroups ==
    ASSUME NEW f, NEW S, IsFiniteSet(S), NEW G, IsFiniteSet(G),
           NEW group, \A x \in S : f[x] \in Nat,
           NEW w, Totals(w, f, S, group, G)
    PROVE  SumFunctionOnSet(f, Members(S, group, G)) = SumFunctionOnSet(w, G)
<1>. DEFINE Of(H) == Members(S, group, H)
            Sum(u) == SumFunctionOnSet(f, u)
            All(H) == SumFunctionOnSet(w, H)
            C == {H \in SUBSET G : Sum(Of(H)) # All(H)}
<1>. USE DEF Members, Totals
<1>0. \A u \in SUBSET S : IsFiniteSet(u) /\ Sum(u) \in Nat
  BY SumType, FS_Subset
<1>1. \A k \in G : w[k] \in Nat /\ w[k] = Sum(Of({k}))
  <2>. SUFFICES ASSUME NEW k \in G PROVE w[k] \in Nat /\ w[k] = Sum(Of({k}))
    OBVIOUS
  <2>1. Of({k}) \in SUBSET S
    OBVIOUS
  <2>2. w[k] = Sum(Of({k}))
    BY Zenon
  <2>. HIDE DEF Sum, Of
  <2>. QED  BY <1>0, <2>1, <2>2
<1>2. ASSUME NEW H \in SUBSET G, NEW k \in H
      PROVE  All(H) = w[k] + All(H \ {k})
  <2>1. IsFiniteSet(H) /\ \A x \in H : w[x] \in Nat
    BY <1>1, FS_Subset
  <2>. QED  BY <2>1, SumWithout
<1>3. Sum({}) = 0 /\ All({}) = 0
  BY SumEmpty
<1>4. ASSUME NEW H \in SUBSET G, NEW k \in H
      PROVE  Sum(Of(H)) = Sum(Of({k})) + Sum(Of(H \ {k}))
  <2>1. /\ Of(H) = Of({k}) \cup Of(H \ {k})
        /\ Of({k}) \cap Of(H \ {k}) = {}
        /\ Of(H) \in SUBSET S /\ Of({k}) \in SUBSET S
        /\ Of(H \ {k}) \in SUBSET S
    OBVIOUS
  <2>2. \A x \in Of({k}) \cup Of(H \ {k}) : f[x] \in Nat
    OBVIOUS
  <2>3. IsFiniteSet(Of({k})) /\ IsFiniteSet(Of(H \ {k}))
    BY FS_Subset
  <2>. DEFINE A == Of({k})
              B == Of(H \ {k})
  <2>4. Sum(A \cup B) = Sum(A) + Sum(B)
    <3>1. /\ IsFiniteSet(A) /\ IsFiniteSet(B) /\ A \cap B = {}
          /\ \A x \in A \cup B : f[x] \in Nat
      BY <2>1, <2>2, <2>3
    <3>. HIDE DEF A, B
    <3>. QED  BY <3>1, SumUnion
  <2>. HIDE DEF Of, Sum
  <2>. QED  BY <2>1, <2>4
<1>5. \A H : Of(H) \in SUBSET S
  OBVIOUS
<1>6. Of({}) = {}
  OBVIOUS
<1>. HIDE DEF Sum, All, Of
<1>. SUFFICES ASSUME C # {} PROVE FALSE
  BY DEF Sum, All, Of
<1>7. PICK H \in C : \A v \in SUBSET H : v # H => v \notin C
  <2>1. C \in SUBSET SUBSET G
    OBVIOUS
  <2>. HIDE DEF C
  <2>. QED  BY <2>1, MinimalSet
<1>8. H # {}
  BY <1>3, <1>6
<1>9. PICK k \in H : TRUE
  BY <1>8
<1>10. Sum(Of(H \ {k})) = All(H \ {k})
  BY <1>7, <1>9
<1>11. Sum(Of(H)) # All(H) /\ H \in SUBSET G
  OBVIOUS
<1>. HIDE DEF C
<1>. QED  BY <1>0, <1>1, <1>2, <1>4, <1>5, <1>10, <1>11

LEMMA SumSingleton ==
    ASSUME NEW f, NEW x, f[x] \in Nat
    PROVE  SumFunctionOnSet(f, {x}) = f[x]
<1>1. IsFiniteSet({}) /\ x \notin {} /\ {} \cup {x} = {x}
  BY FS_EmptySet
<1>2. SumFunctionOnSet(f, {} \cup {x}) = f[x] + SumFunctionOnSet(f, {})
  BY <1>1, SumAdd
<1>. QED  BY <1>1, <1>2, SumEmpty

\* g has the values of f under other names.
Renames(name, f, S, g, T) ==
    /\ \A x \in S : name[x] \in T /\ g[name[x]] = f[x]
    /\ \A x, y \in S : name[x] = name[y] => x = y
    /\ \A t \in T : \E x \in S : name[x] = t

LEMMA RenamedFinite ==
    ASSUME NEW f, NEW S, IsFiniteSet(S), NEW g, NEW T, NEW name,
           Renames(name, f, S, g, T)
    PROVE  IsFiniteSet(T)
<1>. DEFINE h == [x \in S |-> name[x]]
<1>1. h \in Surjection(S, T)
  BY DEF Surjection, Renames
<1>. HIDE DEF h
<1>. QED  BY <1>1, FS_Surjection

LEMMA SumRenamed ==
    ASSUME NEW f, NEW S, IsFiniteSet(S), \A x \in S : f[x] \in Nat,
           NEW g, NEW T, NEW name, Renames(name, f, S, g, T)
    PROVE  SumFunctionOnSet(g, T) = SumFunctionOnSet(f, S)
<1>1. IsFiniteSet(T)
  BY RenamedFinite
<1>2. ASSUME NEW t \in T
      PROVE  g[t] = SumFunctionOnSet(f, Members(S, name, {t}))
  <2>1. PICK x \in S : name[x] = t
    BY DEF Renames
  <2>2. Members(S, name, {t}) = {x}
    BY <2>1 DEF Members, Renames
  <2>3. g[t] = f[x]
    BY <2>1 DEF Renames
  <2>. QED  BY <2>2, <2>3, SumSingleton
<1>3. Members(S, name, T) = S
  BY DEF Members, Renames
<1>4. SumFunctionOnSet(f, Members(S, name, T)) = SumFunctionOnSet(g, T)
  <2>1. Totals(g, f, S, name, T)
    BY <1>2 DEF Totals
  <2>. QED  BY <1>1, <2>1, SumByGroups
<1>. QED  BY <1>3, <1>4

\* Elements that count for nothing may be left out.
LEMMA SumSupport ==
    ASSUME NEW f, NEW S, IsFiniteSet(S), \A x \in S : f[x] \in Nat,
           NEW T \in SUBSET S, \A x \in S \ T : f[x] = 0
    PROVE  SumFunctionOnSet(f, S) = SumFunctionOnSet(f, T)
<1>. DEFINE R == S \ T
            C == {u \in SUBSET R : SumFunctionOnSet(f, u) # 0}
<1>1. C = {}
  <2>. SUFFICES ASSUME C # {} PROVE FALSE
    OBVIOUS
  <2>1. IsFiniteSet(R) /\ C \in SUBSET SUBSET R
    BY FS_Subset
  <2>2. PICK u \in C : IsFiniteSet(u) /\ \A v \in SUBSET u : v # u => v \notin C
    <3>. HIDE DEF C, R
    <3>. QED  BY <2>1, MinimalSet
  <2>3. PICK x \in u : TRUE
    BY SumEmpty
  <2>4. SumFunctionOnSet(f, u) = f[x] + SumFunctionOnSet(f, u \ {x})
    BY <2>2, SumWithout
  <2>5. SumFunctionOnSet(f, u \ {x}) = 0 /\ f[x] = 0
    BY <2>2
  <2>. QED  BY <2>4, <2>5
<1>2. SumFunctionOnSet(f, R) = 0
  BY <1>1
<1>3. S = T \cup R /\ T \cap R = {} /\ IsFiniteSet(T) /\ IsFiniteSet(R)
  BY FS_Subset
<1>4. SumFunctionOnSet(f, T) \in Nat
  BY <1>3, SumType
<1>5. SumFunctionOnSet(f, T \cup R) = SumFunctionOnSet(f, T) + SumFunctionOnSet(f, R)
  <2>1. /\ IsFiniteSet(T) /\ IsFiniteSet(R) /\ T \cap R = {}
        /\ \A x \in T \cup R : f[x] \in Nat
    BY <1>3
  <2>. HIDE DEF R
  <2>. QED  BY <2>1, SumUnion
<1>. HIDE DEF R
<1>6. SumFunctionOnSet(f, S) = SumFunctionOnSet(f, T \cup R)
  BY Zenon, <1>3
<1>. QED  BY <1>2, <1>4, <1>5, <1>6
=============================================================================
