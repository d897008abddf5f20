--------------------------- MODULE LibraryProofs ---------------------------
(* Theorems about Library, for any number of files, folders, points, scans  *)
(* and requests, in any order: no operation leaves a forest broken or a     *)
(* point without its instance, what is collected twice is copied once, both *)
(* stores answer a query alike, folders are registered from below, and the  *)
(* driver's links fail only by the mirrors of lost folders.                 *)
EXTENDS Library, FiniteSetTheorems, WellFoundedInduction, TLAPS

-----------------------------------------------------------------------------
(* Recursion.  The model's recursive functions walk forests; each has a      *)
(* value because the forests are finite and a node is not below itself.      *)

LEMMA LeastNumber ==
    ASSUME NEW S, S \subseteq Nat, S # {}
    PROVE  \E n \in S : \A m \in S : n <= m
<1> DEFINE R == {p \in Nat \X Nat : p[1] < p[2]}
<1>1. PICK n \in S : \A m \in S : ~(<<m, n>> \in R)
  <2>1. IsWellFoundedOn(R, Nat)
    BY NatLessThanWellFounded DEF OpToRel
  <2> HIDE DEF R
  <2> QED
    BY <2>1, WFMin
<1>2. ASSUME NEW m \in S PROVE n <= m
  <2>1. m \in Nat /\ n \in Nat
    OBVIOUS
  <2>2. <<m, n>> \in R <=> m < n
    BY <2>1
  <2> HIDE DEF R
  <2> QED
    BY <1>1, <2>1, <2>2
<1> QED
  BY <1>2

LEMMA Counting ==
    ASSUME NEW S, 0 \in S, \A k \in Nat : k \in S => k + 1 \in S
    PROVE  Nat \subseteq S
<1> SUFFICES ASSUME Nat \ S # {} PROVE FALSE
  OBVIOUS
<1>1. PICK k \in Nat \ S : \A m \in Nat \ S : k <= m
  <2>1. Nat \ S \subseteq Nat
    OBVIOUS
  <2> QED
    BY <2>1, LeastNumber
<1>2. k - 1 \in Nat /\ k - 1 \notin Nat \ S
  BY <1>1
<1> QED
  BY <1>1, <1>2

\* A value counted up to from a first one.
LEMMA CountedRecursion ==
    ASSUME NEW X, NEW base \in X, NEW step \in [X -> X]
    PROVE  \E w \in [Nat -> X] : w[0] = base /\ \A k \in Nat : w[k + 1] = step[w[k]]
<1> DEFINE Good(g, k) == g[0] = base /\ \A i \in Nat : i < k => g[i + 1] = step[g[i]]
<1>1. ASSUME NEW k \in Nat PROVE \E g \in [Nat -> X] : Good(g, k)
  <2> DEFINE S == {j \in Nat : \E g \in [Nat -> X] : Good(g, j)}
  <2>1. 0 \in S
    <3>1. Good([i \in Nat |-> base], 0) /\ [i \in Nat |-> base] \in [Nat -> X]
      OBVIOUS
    <3> QED
      BY <3>1
  <2>2. ASSUME NEW j \in S PROVE j + 1 \in S
    <3>1. PICK g \in [Nat -> X] : Good(g, j)
      OBVIOUS
    <3> DEFINE h == [i \in Nat |-> IF i = j + 1 THEN step[g[j]] ELSE g[i]]
    <3>2. h \in [Nat -> X]
      OBVIOUS
    <3>3. h[0] = base /\ h[j + 1] = step[g[j]] /\ h[j] = g[j]
      BY <3>1
    <3>4. ASSUME NEW i \in Nat, i < j + 1 PROVE h[i + 1] = step[h[i]]
      <4>1. CASE i = j
        BY <3>3, <4>1
      <4>2. CASE i < j
        BY <3>1, <4>2
      <4> QED
        BY <3>4, <4>1, <4>2
    <3>5. Good(h, j + 1) /\ j + 1 \in Nat
      BY <3>3, <3>4
    <3> HIDE DEF h, Good
    <3> QED
      BY <3>2, <3>5
  <2> HIDE DEF S
  <2>3. Nat \subseteq S
    BY <2>1, <2>2, Counting
  <2> QED
    BY <2>3 DEF S
<1>2. ASSUME NEW k \in Nat, NEW g \in [Nat -> X], NEW h \in [Nat -> X], Good(g, k), Good(h, k)
      PROVE  g[k] = h[k]
  <2> DEFINE S == {j \in Nat : j <= k => g[j] = h[j]}
  <2>1. 0 \in S
    BY <1>2
  <2>2. ASSUME NEW j \in Nat, j \in S PROVE j + 1 \in S
    BY <1>2, <2>2
  <2> HIDE DEF S
  <2>3. Nat \subseteq S
    BY <2>1, <2>2, Counting
  <2> QED
    BY <2>3 DEF S
<1> DEFINE G == [k \in Nat |-> CHOOSE g \in [Nat -> X] : Good(g, k)]
           w == [k \in Nat |-> G[k][k]]
<1>3. \A k \in Nat : G[k] \in [Nat -> X] /\ Good(G[k], k)
  <2> SUFFICES ASSUME NEW k \in Nat PROVE G[k] \in [Nat -> X] /\ Good(G[k], k)
    OBVIOUS
  <2>1. G[k] = CHOOSE g \in [Nat -> X] : Good(g, k)
    OBVIOUS
  <2> HIDE DEF G, Good
  <2> QED
    BY <1>1, <2>1
<1>4. ASSUME NEW k \in Nat PROVE w[k + 1] = step[w[k]]
  <2>1. G[k + 1] \in [Nat -> X] /\ Good(G[k + 1], k + 1) /\ G[k] \in [Nat -> X] /\ Good(G[k], k)
    <3>1. k + 1 \in Nat
      OBVIOUS
    <3> HIDE DEF G, Good
    <3> QED
      BY <1>3, <3>1
  <2>2. w[k] = G[k][k] /\ w[k + 1] = G[k + 1][k + 1]
    OBVIOUS
  <2> HIDE DEF G, w
  <2>3. Good(G[k + 1], k) /\ G[k + 1][k + 1] = step[G[k + 1][k]]
    BY <2>1
  <2>4. G[k + 1][k] = G[k][k]
    <3> HIDE DEF Good
    <3> QED
      BY <1>2, <2>1, <2>3
  <2> QED
    BY <2>2, <2>3, <2>4
<1>5. w \in [Nat -> X] /\ w[0] = base
  <2>1. \A k \in Nat : G[k][k] \in X
    <3> HIDE DEF G
    <3> QED
      BY <1>3
  <2>2. G[0][0] = base
    <3> HIDE DEF G
    <3> QED
      BY <1>3
  <2> HIDE DEF G
  <2> QED
    BY <2>1, <2>2
<1> HIDE DEF w
<1> QED
  BY <1>4, <1>5

\* A function on a set whose elements have ranks, if its value somewhere asks only
\* for values of a lower rank.
Ranked(D, Y, N, rank, step) ==
    /\ Y # {} /\ N \in Nat /\ rank \in [D -> 0..N]
    /\ step \in [D \X [D -> Y] -> Y]
    /\ \A x \in D : \A g, h \in [D -> Y] :
          (\A y \in D : rank[y] < rank[x] => g[y] = h[y])
          => step[<<x, g>>] = step[<<x, h>>]

LEMMA RankedRecursion ==
    ASSUME NEW D, NEW Y, NEW N, NEW rank, NEW step, Ranked(D, Y, N, rank, step)
    PROVE  \E g \in [D -> Y] : \A x \in D : g[x] = step[<<x, g>>]
<1> USE DEF Ranked
<1> DEFINE Good(g, k) == \A x \in D : rank[x] < k => g[x] = step[<<x, g>>]
           S == {k \in Nat : \E g \in [D -> Y] : Good(g, k)}
<1>1. 0 \in S
  <2>1. PICK y \in Y : TRUE
    OBVIOUS
  <2>2. [x \in D |-> y] \in [D -> Y] /\ Good([x \in D |-> y], 0)
    OBVIOUS
  <2> QED
    BY <2>2
<1>2. ASSUME NEW k \in Nat, k \in S PROVE k + 1 \in S
  <2>1. PICK g \in [D -> Y] : Good(g, k)
    BY <1>2
  <2> DEFINE h == [x \in D |-> IF rank[x] = k THEN step[<<x, g>>] ELSE g[x]]
  <2>2. h \in [D -> Y]
    OBVIOUS
  <2>3. ASSUME NEW x \in D, rank[x] < k + 1 PROVE h[x] = step[<<x, h>>]
    <3>1. \A y \in D : rank[y] < rank[x] => g[y] = h[y]
      BY <2>3
    <3>2. step[<<x, g>>] = step[<<x, h>>]
      <4> HIDE DEF h
      <4> QED
        BY <2>2, <3>1
    <3>3. h[x] = step[<<x, g>>]
      BY <2>1, <2>3
    <3> QED
      BY <3>2, <3>3
  <2> HIDE DEF h
  <2> QED
    BY <2>2, <2>3
<1> HIDE DEF S
<1>3. N + 1 \in S
  BY <1>1, <1>2, Counting
<1>4. PICK g \in [D -> Y] : Good(g, N + 1)
  BY <1>3 DEF S
<1>5. \A x \in D : g[x] = step[<<x, g>>]
  BY <1>4
<1> QED
  BY <1>5

-----------------------------------------------------------------------------
(* What is met from a node: Reach counts its rounds, and as many rounds as   *)
(* there are nodes are enough.                                               *)

\* sets of nodes the children do not leave
Closed(f, S) == \A m \in S \cap DOMAIN f : f[m].kids \cap DOMAIN f \subseteq S

\* the rounds of Reach
Round(f, n, walk, k) ==
    IF k = 0 THEN {n}
    ELSE LET met == walk[k - 1]
         IN  met \cup UNION {f[m].kids : m \in met \cap DOMAIN f}

LEMMA WalkExists ==
    ASSUME NEW f, NEW n
    PROVE  \E walk : walk = [k \in Nat |-> Round(f, n, walk, k)]
<1> DEFINE X == SUBSET ({n} \cup UNION {f[m].kids : m \in DOMAIN f})
           more(met) == met \cup UNION {f[m].kids : m \in met \cap DOMAIN f}
           step == [met \in X |-> more(met)]
<1>1. {n} \in X /\ step \in [X -> X]
  OBVIOUS
<1>2. PICK w \in [Nat -> X] : w[0] = {n} /\ \A k \in Nat : w[k + 1] = step[w[k]]
  <2> HIDE DEF X, step
  <2> QED
    BY <1>1, CountedRecursion
<1>3. ASSUME NEW k \in Nat, k # 0 PROVE w[k] = more(w[k - 1])
  <2>1. k - 1 \in Nat /\ (k - 1) + 1 = k
    BY <1>3
  <2>2. w[k] = step[w[k - 1]] /\ w[k - 1] \in X
    <3> HIDE DEF X, step
    <3> QED
      BY <1>2, <2>1
  <2> QED
    BY <2>2
<1>4. w = [k \in Nat |-> Round(f, n, w, k)]
  <2>1. \A k \in Nat : w[k] = Round(f, n, w, k)
    BY <1>2, <1>3 DEF Round
  <2> HIDE DEF X
  <2> QED
    BY <1>2, <2>1
<1> QED
  BY <1>4

LEMMA ReachFacts ==
    ASSUME NEW f, IsFiniteSet(DOMAIN f), NEW n
    PROVE  /\ Reach(f, n) \subseteq DOMAIN f
           /\ n \in DOMAIN f => n \in Reach(f, n)
           /\ Closed(f, Reach(f, n))
           /\ \A S : n \in S /\ Closed(f, S) => Reach(f, n) \subseteq S
<1> DEFINE w == CHOOSE walk : walk = [k \in Nat |-> Round(f, n, walk, k)]
           N == Cardinality(DOMAIN f)
           A(k) == w[k] \cap DOMAIN f
<1>1. w = [k \in Nat |-> Round(f, n, w, k)]
  BY WalkExists, Zenon
<1>2. Reach(f, n) = A(N)
  BY Zenon DEF Reach, Round
<1>3. N \in Nat
  BY FS_CardinalityType
<1>4. w[0] = {n}
  <2> HIDE DEF w
  <2> QED
    BY <1>1 DEF Round
<1>5. \A k \in Nat : w[k + 1] = w[k] \cup UNION {f[m].kids : m \in w[k] \cap DOMAIN f}
  <2> SUFFICES ASSUME NEW k \in Nat
               PROVE  w[k + 1] = w[k] \cup UNION {f[m].kids : m \in w[k] \cap DOMAIN f}
    OBVIOUS
  <2>1. k + 1 \in Nat /\ k + 1 # 0 /\ (k + 1) - 1 = k
    OBVIOUS
  <2> HIDE DEF w
  <2>2. w[k + 1] = Round(f, n, w, k + 1)
    BY <1>1, <2>1, Zenon
  <2> QED
    BY <2>1, <2>2 DEF Round
<1> HIDE DEF w
\* as long as something is left to meet, every round meets more
<1>6. \A k \in Nat : Closed(f, A(k)) \/ Cardinality(A(k)) >= k + 1 \/ n \notin DOMAIN f
  <2> DEFINE T == {k \in Nat : Closed(f, A(k)) \/ Cardinality(A(k)) >= k + 1 \/ n \notin DOMAIN f}
  <2>1. 0 \in T
    <3>1. n \in DOMAIN f => A(0) = {n}
      BY <1>4
    <3>2. Cardinality({n}) = 1
      BY FS_Singleton
    <3> HIDE DEF A
    <3> QED
      BY <3>1, <3>2
  <2>2. ASSUME NEW k \in Nat, k \in T PROVE k + 1 \in T
    <3>1. A(k) \subseteq A(k + 1) /\ A(k + 1) \subseteq DOMAIN f
      BY <1>5
    <3>2. CASE Closed(f, A(k))
      <4>1. A(k + 1) = A(k)
        BY <1>5, <3>2 DEF Closed
      <4> HIDE DEF A
      <4> QED
        BY <3>2, <4>1
    <3>3. CASE ~Closed(f, A(k)) /\ n \in DOMAIN f
      <4>1. Cardinality(A(k)) >= k + 1
        BY <2>2, <3>3
      <4>2. A(k) # A(k + 1)
        BY <1>5, <3>3 DEF Closed
      <4> HIDE DEF A
      <4>3. IsFiniteSet(A(k + 1)) /\ IsFiniteSet(A(k))
        BY <3>1, FS_Subset
      <4>4. /\ Cardinality(A(k)) < Cardinality(A(k + 1))
            /\ Cardinality(A(k)) \in Nat /\ Cardinality(A(k + 1)) \in Nat
        BY <3>1, <4>2, <4>3, FS_Subset, FS_CardinalityType
      <4>5. Cardinality(A(k + 1)) >= (k + 1) + 1
        BY <4>1, <4>4
      <4> QED
        BY <4>5
    <3>4. CASE n \notin DOMAIN f
      BY <3>4
    <3> QED
      BY <3>2, <3>3, <3>4
  <2> HIDE DEF T
  <2>3. Nat \subseteq T
    BY <2>1, <2>2, Counting
  <2> QED
    BY <2>3 DEF T
<1>7. Closed(f, A(N))
  <2>1. CASE n \in DOMAIN f
    <3>1. Cardinality(A(N)) <= N
      <4>1. A(N) \subseteq DOMAIN f
        OBVIOUS
      <4> HIDE DEF A
      <4> QED
        BY <4>1, FS_Subset
    <3>2. Cardinality(A(N)) \in Nat
      <4>1. A(N) \subseteq DOMAIN f
        OBVIOUS
      <4> HIDE DEF A
      <4> QED
        BY <4>1, FS_Subset, FS_CardinalityType
    <3>3. ~(Cardinality(A(N)) >= N + 1)
      <4> HIDE DEF A, N
      <4> QED
        BY <1>3, <3>1, <3>2
    <3> HIDE DEF A, N
    <3> QED
      BY <1>3, <1>6, <2>1, <3>3
  <2>2. CASE n \notin DOMAIN f
    <3> DEFINE T == {k \in Nat : w[k] = {n}}
    <3>1. 0 \in T
      BY <1>4
    <3>2. \A k \in Nat : k \in T => k + 1 \in T
      BY <1>5, <2>2
    <3> HIDE DEF T
    <3>3. N \in T
      BY <1>3, <3>1, <3>2, Counting
    <3> QED
      BY <2>2, <3>3 DEF T, Closed
  <2> QED
    BY <2>1, <2>2
<1>8. n \in DOMAIN f => n \in A(N)
  <2> DEFINE T == {k \in Nat : n \in w[k]}
  <2>1. 0 \in T
    BY <1>4
  <2>2. \A k \in Nat : k \in T => k + 1 \in T
    BY <1>5
  <2> HIDE DEF T
  <2>3. N \in T
    BY <1>3, <2>1, <2>2, Counting
  <2> QED
    BY <2>3 DEF T
<1>9. ASSUME NEW S, n \in S, Closed(f, S) PROVE A(N) \subseteq S
  <2> DEFINE T == {k \in Nat : A(k) \subseteq S}
  <2>1. 0 \in T
    BY <1>4, <1>9
  <2>2. ASSUME NEW k \in Nat, k \in T PROVE k + 1 \in T
    <3>1. A(k) \subseteq S
      BY <2>2
    <3>2. \A m \in A(k) : f[m].kids \cap DOMAIN f \subseteq S
      BY <1>9, <3>1 DEF Closed
    <3>3. A(k + 1) \subseteq S
      BY <1>5, <3>1, <3>2
    <3> HIDE DEF A
    <3> QED
      BY <3>3
  <2> HIDE DEF T
  <2>3. N \in T
    BY <1>3, <2>1, <2>2, Counting
  <2> QED
    BY <2>3 DEF T
<1>10. A(N) \subseteq DOMAIN f
  OBVIOUS
<1> HIDE DEF A
<1> QED
  BY <1>2, <1>7, <1>8, <1>9, <1>10

-----------------------------------------------------------------------------
(* Forests their validator accepts. *)

Weight(f, n) == Cardinality(Reach(f, n))

\* parents and children name each other
Paired(f) ==
    /\ \A n \in DOMAIN f : \A c \in f[n].kids : c \in DOMAIN f /\ f[c].parent = n
    /\ \A n \in DOMAIN f : f[n].parent # None =>
          f[n].parent \in DOMAIN f /\ n \in f[f[n].parent].kids

LEMMA WholeFacts ==
    ASSUME NEW f, IsFiniteSet(DOMAIN f), Whole(f)
    PROVE  /\ Paired(f)
           /\ \A n \in DOMAIN f : \A c \in f[n].kids :
                 /\ Reach(f, c) \subseteq Reach(f, n) \ {n}
                 /\ Weight(f, c) < Weight(f, n)
           /\ \A n \in DOMAIN f : Weight(f, n) \in 0..Cardinality(DOMAIN f)
<1>1. Paired(f) /\ \A n \in DOMAIN f : \A c \in f[n].kids : n \notin Reach(f, c)
  BY DEF Whole, Broken, Paired
<1>2. ASSUME NEW n \in DOMAIN f PROVE Weight(f, n) \in 0..Cardinality(DOMAIN f)
  <2>1. Reach(f, n) \subseteq DOMAIN f
    BY ReachFacts
  <2> QED
    BY <2>1, FS_Subset, FS_CardinalityType DEF Weight
<1>3. ASSUME NEW n \in DOMAIN f, NEW c \in f[n].kids
      PROVE  Reach(f, c) \subseteq Reach(f, n) \ {n} /\ Weight(f, c) < Weight(f, n)
  <2>1. c \in DOMAIN f /\ n \notin Reach(f, c)
    BY <1>1 DEF Paired
  <2>2. n \in Reach(f, n) /\ Closed(f, Reach(f, n)) /\ Reach(f, n) \subseteq DOMAIN f
    BY ReachFacts
  <2>3. c \in Reach(f, n)
    BY <2>1, <2>2 DEF Closed
  <2>4. Reach(f, c) \subseteq Reach(f, n) \ {n}
    BY <2>1, <2>2, <2>3, ReachFacts
  <2>5. IsFiniteSet(Reach(f, n))
    BY <2>2, FS_Subset
  <2>6. Cardinality(Reach(f, c)) < Cardinality(Reach(f, n))
    <3>1. /\ Reach(f, c) \subseteq Reach(f, n) /\ Reach(f, c) # Reach(f, n)
          /\ IsFiniteSet(Reach(f, c))
      BY <2>2, <2>4, <2>5, FS_Subset
    <3> QED
      BY <2>5, <3>1, FS_Subset, FS_CardinalityType
  <2> QED
    BY <2>4, <2>6 DEF Weight
<1> QED
  BY <1>1, <1>2, <1>3

\* The children of a node have a set the node is not in and they do not leave.
LEMMA WholeIf ==
    ASSUME NEW f, IsFiniteSet(DOMAIN f), Paired(f),
           \A n \in DOMAIN f : \A c \in f[n].kids :
              \E S : c \in S /\ n \notin S /\ Closed(f, S)
    PROVE  Whole(f)
<1> SUFFICES ASSUME NEW n \in DOMAIN f PROVE ~Broken(f, n)
  BY DEF Whole
<1>1. ASSUME NEW c \in f[n].kids PROVE n \notin Reach(f, c)
  <2>1. PICK S : c \in S /\ n \notin S /\ Closed(f, S)
    OBVIOUS
  <2> QED
    BY <2>1, ReachFacts
<1> QED
  BY <1>1 DEF Broken, Paired

LEMMA WholeByDepth ==
    ASSUME NEW f, IsFiniteSet(DOMAIN f), Paired(f), NEW depth,
           \A n \in DOMAIN f : depth[n] \in Nat,
           \A n \in DOMAIN f : \A c \in f[n].kids : depth[n] < depth[c]
    PROVE  Whole(f)
<1> SUFFICES ASSUME NEW n \in DOMAIN f, NEW c \in f[n].kids
             PROVE  \E S : c \in S /\ n \notin S /\ Closed(f, S)
  BY WholeIf
<1> DEFINE S == {m \in DOMAIN f : depth[m] >= depth[c]}
<1>1. c \in S /\ n \notin S
  BY DEF Paired
<1>2. Closed(f, S)
  <2> SUFFICES ASSUME NEW m \in S, NEW k \in f[m].kids \cap DOMAIN f PROVE k \in S
    BY DEF Closed
  <2>1. depth[m] < depth[k] /\ depth[m] >= depth[c]
    OBVIOUS
  <2>2. depth[m] \in Nat /\ depth[k] \in Nat /\ depth[c] \in Nat
    BY <1>1
  <2> QED
    BY <2>1, <2>2
<1> HIDE DEF S
<1> QED
  BY <1>1, <1>2

\* A node without children is put below another one, or beside all.
Put(f, x, row) == With(Adopt(f, row.parent, x), x, row)

HasParent(f, row) ==
    row.parent # None =>
        row.parent \in DOMAIN f /\ {"kids", "parent"} \subseteq DOMAIN f[row.parent]

LEMMA LeafPut ==
    ASSUME NEW f, IsFiniteSet(DOMAIN f), Whole(f),
           NEW x, x \notin DOMAIN f, NEW row, row.kids = {}, HasParent(f, row)
    PROVE  Whole(Put(f, x, row)) /\ DOMAIN Put(f, x, row) = DOMAIN f \cup {x}
<1> DEFINE up == row.parent
           g == Put(f, x, row)
<1>1. /\ DOMAIN g = DOMAIN f \cup {x} /\ g[x] = row
      /\ \A m \in DOMAIN f : /\ g[m].parent = f[m].parent
                             /\ g[m].kids = f[m].kids \cup (IF m = up /\ up # None THEN {x} ELSE {})
  <2>1. CASE up = None
    BY <2>1 DEF With, Adopt, Put
  <2>2. CASE up # None
    BY <2>2 DEF With, Adopt, Put, HasParent
  <2> QED
    BY <2>1, <2>2
<1> HIDE DEF g
<1>2. IsFiniteSet(DOMAIN g)
  BY <1>1, FS_AddElement
<1>3. Paired(f)
  BY WholeFacts
<1>4. Paired(g)
  <2>1. ASSUME NEW n \in DOMAIN g, NEW c \in g[n].kids PROVE c \in DOMAIN g /\ g[c].parent = n
    <3>1. n \in DOMAIN f
      BY <1>1
    <3>2. CASE c \in f[n].kids
      BY <1>1, <1>3, <3>1, <3>2 DEF Paired
    <3>3. CASE c = x /\ n = up
      BY <1>1, <3>3
    <3> QED
      BY <1>1, <3>1, <3>2, <3>3
  <2>2. ASSUME NEW n \in DOMAIN g, g[n].parent # None
        PROVE  g[n].parent \in DOMAIN g /\ n \in g[g[n].parent].kids
    <3>1. CASE n = x
      BY <1>1, <2>2, <3>1 DEF HasParent
    <3>2. CASE n \in DOMAIN f
      BY <1>1, <1>3, <2>2, <3>2 DEF Paired
    <3> QED
      BY <1>1, <3>1, <3>2
  <2> QED
    BY <2>1, <2>2 DEF Paired
<1>5. ASSUME NEW n \in DOMAIN g, NEW c \in g[n].kids
      PROVE  \E S : c \in S /\ n \notin S /\ Closed(g, S)
  <2>1. n \in DOMAIN f
    BY <1>1
  <2>2. CASE c = x
    <3>1. Closed(g, {x})
      BY <1>1 DEF Closed
    <3> QED
      BY <2>1, <2>2, <3>1
  <2>3. CASE c \in f[n].kids
    <3> DEFINE S == Reach(f, c) \cup {x}
    <3>1. n \notin Reach(f, c) /\ c \in DOMAIN f
      BY <2>1, <2>3, <1>3, WholeFacts DEF Paired
    <3>2. c \in Reach(f, c) /\ Closed(f, Reach(f, c)) /\ Reach(f, c) \subseteq DOMAIN f
      BY <3>1, ReachFacts
    <3>3. Closed(g, S)
      BY <1>1, <3>2 DEF Closed
    <3>4. c \in S /\ n \notin S
      BY <2>1, <3>1, <3>2
    <3> QED
      BY <3>3, <3>4
  <2> QED
    BY <1>1, <2>1, <2>2, <2>3
<1>6. Whole(g)
  BY <1>2, <1>4, <1>5, WholeIf
<1> QED
  BY <1>1, <1>6 DEF g

(***************************************************************************)
(* The invariant.                                                          *)
(***************************************************************************)

PointRow == [active : BOOLEAN, anchor : DOMAIN inst, from : Sources \cup {None}]
InstanceRow == {"path", "present"}
NodeFields == {"leaf", "inst", "parent", "kids"}

\* Tombstones are anchored too.
PointsOk == points \in [DOMAIN points -> PointRow]

\* Only the syncing of a course loses an instance.
KeepsMaterials ==
    type # "COURSE" =>
        /\ \A i \in DOMAIN inst : inst[i].present
        /\ \A n \in DOMAIN nodes : nodes[n].leaf => nodes[n].inst \in DOMAIN inst

FieldsOk ==
    /\ \A i \in DOMAIN inst : DOMAIN inst[i] = InstanceRow
    /\ \A n \in DOMAIN nodes : DOMAIN nodes[n] = NodeFields

ReadingOk ==
    /\ DOMAIN reading = Threads
    /\ origin \subseteq Sources
    /\ \A t \in Threads : reading[t] # None =>
          reading[t] \in Sources /\ type = "MISTAKE_BOOK"

IInv == PointsOk /\ KeepsMaterials /\ FieldsOk /\ ReadingOk /\ CollectedOnce

-----------------------------------------------------------------------------
(* Operators of the model. *)

LEMMA WithFacts ==
    ASSUME NEW f, NEW x, NEW value
    PROVE  /\ DOMAIN With(f, x, value) = DOMAIN f \cup {x}
           /\ With(f, x, value)[x] = value
           /\ \A y \in DOMAIN f \ {x} : With(f, x, value)[y] = f[y]
BY DEF With

\* Points that stay where they are keep their instance as long as it is there.
LEMMA PointsKept ==
    ASSUME PointsOk, UNCHANGED points, DOMAIN inst \subseteq DOMAIN inst'
    PROVE  PointsOk'
BY DEF PointsOk, PointRow

LEMMA CollectedKept ==
    ASSUME CollectedOnce, UNCHANGED points
    PROVE  CollectedOnce'
BY DEF CollectedOnce

LEMMA ReadingKept ==
    ASSUME ReadingOk, UNCHANGED <<reading, origin, type>>
    PROVE  ReadingOk'
BY DEF ReadingOk

\* Steps that leave the materials alone.
LEMMA MaterialsKept ==
    ASSUME KeepsMaterials, FieldsOk, UNCHANGED <<type, inst, nodes>>
    PROVE  KeepsMaterials' /\ FieldsOk'
BY DEF KeepsMaterials, FieldsOk

\* A new leaf or folder beside the others.
LEMMA LeafAdded ==
    ASSUME NEW f, NEW n, NEW i, NEW up, NEW g, g = With(f, n, ObjLeaf(i, up)),
           \A m \in DOMAIN f : DOMAIN f[m] = NodeFields
    PROVE  \A m \in DOMAIN g : /\ DOMAIN g[m] = NodeFields
                               /\ \/ m = n /\ g[m].inst = i
                                  \/ m \in DOMAIN f /\ g[m] = f[m]
BY DEF With, ObjLeaf, NodeFields

LEMMA FolderAdded ==
    ASSUME NEW f, NEW n, NEW up, NEW kids, NEW g, g = With(f, n, ObjFolder(up, kids)),
           \A m \in DOMAIN f : DOMAIN f[m] = NodeFields
    PROVE  \A m \in DOMAIN g : /\ DOMAIN g[m] = NodeFields
                               /\ \/ m = n /\ ~g[m].leaf
                                  \/ m \in DOMAIN f /\ g[m] = f[m]
BY DEF With, ObjFolder, NodeFields

LEMMA AdoptFacts ==
    ASSUME NEW f, NEW up, NEW c, \A m \in DOMAIN f : DOMAIN f[m] = NodeFields
    PROVE  /\ DOMAIN Adopt(f, up, c) = DOMAIN f
           /\ \A m \in DOMAIN f : /\ DOMAIN Adopt(f, up, c)[m] = NodeFields
                                  /\ Adopt(f, up, c)[m].leaf = f[m].leaf
                                  /\ Adopt(f, up, c)[m].inst = f[m].inst
BY DEF Adopt, NodeFields

LEMMA InstanceAdded ==
    ASSUME FieldsOk, NEW i, NEW path, inst' = With(inst, i, [path |-> path, present |-> TRUE])
    PROVE  /\ DOMAIN inst' = DOMAIN inst \cup {i}
           /\ \A j \in DOMAIN inst' : DOMAIN inst'[j] = InstanceRow
           /\ \A j \in DOMAIN inst' : inst'[j].present \/ (j \in DOMAIN inst /\ inst'[j] = inst[j])
BY DEF With, FieldsOk, InstanceRow

-----------------------------------------------------------------------------
(* The recall points. *)

\* learning_task_submit: the new point copies nothing, or a point that has no
\* ACTIVE copy.
LEMMA SubmittedKeeps ==
    ASSUME PointsOk, CollectedOnce, NEW p, NEW i \in DOMAIN inst', NEW from \in Sources \cup {None},
           Submitted(p, i, from), DOMAIN inst \subseteq DOMAIN inst',
           from = None \/ ~Collected(from)
    PROVE  PointsOk' /\ CollectedOnce'
<1> DEFINE row == [active |-> TRUE, anchor |-> i, from |-> from]
<1>1. p \notin DOMAIN points /\ points' = With(points, p, row)
  BY DEF Submitted
<1>2. row \in PointRow' /\ row.active /\ row.from = from
  BY DEF PointRow
<1> HIDE DEF row
<1>3. /\ DOMAIN points' = DOMAIN points \cup {p} /\ points'[p] = row
      /\ \A q \in DOMAIN points : points'[q] = points[q]
  BY <1>1 DEF With
<1>4. PointsOk'
  <2>1. \A q \in DOMAIN points : points[q] \in PointRow'
    BY DEF PointsOk, PointRow
  <2>2. points' = [q \in DOMAIN points' |-> points'[q]]
    BY <1>1 DEF With
  <2> QED
    BY <1>2, <1>3, <2>1, <2>2 DEF PointsOk
<1>5. CollectedOnce'
  BY <1>2, <1>3 DEF CollectedOnce, Collected
<1> QED
  BY <1>4, <1>5

LEMMA SubmitKeeps ==
    ASSUME IInv, NEW p, NEW i, SubmitLearningTask(p, i)
    PROVE  IInv'
<1>1. UNCHANGED <<type, inst, nodes, reading, origin>>
  BY DEF SubmitLearningTask, library, other
<1>2. i \in DOMAIN inst' /\ Submitted(p, i, None)
  BY <1>1 DEF SubmitLearningTask, AnchorOk
<1> QED
  BY <1>1, <1>2, SubmittedKeeps, ReadingKept, MaterialsKept DEF IInv

LEMMA DeleteKeeps ==
    ASSUME IInv, NEW p, DeleteRecallPoint(p)
    PROVE  IInv'
<1>1. UNCHANGED <<type, inst, nodes, reading, origin>>
  BY DEF DeleteRecallPoint, library, other
<1>2. points' = [points EXCEPT ![p].active = FALSE] /\ p \in DOMAIN points
  BY DEF DeleteRecallPoint
<1>3. PointsOk'
  BY <1>1, <1>2 DEF IInv, PointsOk, PointRow
<1>4. /\ DOMAIN points' = DOMAIN points
      /\ \A q \in DOMAIN points : /\ points'[q].active => points[q].active
                                  /\ points'[q].from = points[q].from
  BY <1>2 DEF IInv, PointsOk, PointRow
<1>5. CollectedOnce'
  BY <1>4 DEF IInv, CollectedOnce
<1> QED
  BY <1>1, <1>3, <1>5, ReadingKept, MaterialsKept DEF IInv

LEMMA EditKeeps ==
    ASSUME IInv, NEW p, NEW i, EditRecallPoint(p, i)
    PROVE  IInv'
<1>1. UNCHANGED <<type, inst, nodes, reading, origin>>
  BY DEF EditRecallPoint, library, other
<1>2. points' = [points EXCEPT ![p].anchor = i] /\ p \in DOMAIN points /\ i \in DOMAIN inst
  BY DEF EditRecallPoint, AnchorOk
<1>3. PointsOk'
  BY <1>1, <1>2 DEF IInv, PointsOk, PointRow
<1>4. /\ DOMAIN points' = DOMAIN points
      /\ \A q \in DOMAIN points : /\ points'[q].active = points[q].active
                                  /\ points'[q].from = points[q].from
  BY <1>2 DEF IInv, PointsOk, PointRow
<1>5. CollectedOnce'
  BY <1>4 DEF IInv, CollectedOnce
<1> QED
  BY <1>1, <1>3, <1>5, ReadingKept, MaterialsKept DEF IInv

\* InstanceRepository.delete looks at tombstones as well.
LEMMA RemapKeeps ==
    ASSUME IInv, NEW from, NEW to, NEW moved, Remap(from, to, moved)
    PROVE  IInv'
<1> DEFINE ps == [p \in DOMAIN points |->
                    IF p \in moved THEN [points[p] EXCEPT !.anchor = to] ELSE points[p]]
<1>1. UNCHANGED <<type, nodes, reading, origin>> /\ {from, to} \subseteq DOMAIN inst
  BY DEF Remap, other
<1>2. /\ points' = ps
      /\ \/ inst' = inst
         \/ /\ ~inst[from].present /\ Prunable(from, ps)
            /\ inst' = [i \in DOMAIN inst \ {from} |-> inst[i]]
  BY DEF Remap
<1>3. /\ DOMAIN ps = DOMAIN points
      /\ \A p \in DOMAIN points : /\ ps[p].active = points[p].active
                                  /\ ps[p].from = points[p].from
      /\ ps \in [DOMAIN points -> PointRow]
  BY <1>1 DEF IInv, PointsOk, PointRow
<1> HIDE DEF ps
<1>4. PointsOk'
  <2>1. CASE inst' = inst
    BY <1>2, <1>3, <2>1 DEF PointsOk, PointRow
  <2>2. CASE Prunable(from, ps) /\ inst' = [i \in DOMAIN inst \ {from} |-> inst[i]]
    <3>1. \A p \in DOMAIN points : ps[p] \in PointRow /\ ps[p].anchor # from
      BY <1>3, <2>2 DEF Prunable
    <3>2. \A p \in DOMAIN points : ps[p] \in PointRow'
      BY <2>2, <3>1 DEF PointRow
    <3> QED
      BY <1>2, <1>3, <3>2 DEF PointsOk
  <2> QED
    BY <1>2, <2>1, <2>2
<1>5. CollectedOnce'
  BY <1>2, <1>3 DEF IInv, CollectedOnce
<1>6. KeepsMaterials' /\ FieldsOk'
  <2>1. CASE inst' = inst
    BY <1>1, <2>1, MaterialsKept DEF IInv
  <2>2. CASE ~inst[from].present /\ inst' = [i \in DOMAIN inst \ {from} |-> inst[i]]
    BY <1>1, <2>2 DEF IInv, KeepsMaterials, FieldsOk
  <2> QED
    BY <1>2, <2>1, <2>2
<1> QED
  BY <1>1, <1>4, <1>5, <1>6, ReadingKept DEF IInv

-----------------------------------------------------------------------------
(* The materials. *)

\* What a step on the materials has to show.
LEMMA MaterialStep ==
    ASSUME IInv, UNCHANGED <<type, points, reading, origin>>,
           DOMAIN inst \subseteq DOMAIN inst', KeepsMaterials', FieldsOk'
    PROVE  IInv'
BY PointsKept, CollectedKept, ReadingKept DEF IInv

LEMMA ScanKeeps ==
    ASSUME IInv, NEW files, NEW dirs, Replace(files, dirs), type = "COURSE"
    PROVE  IInv'
<1>1. /\ UNCHANGED <<type, points, reading, origin>>
      /\ inst' = Scanned(files) /\ nodes' = ForestOf(files, dirs)
  BY DEF Replace, study, other
<1>2. DOMAIN inst \subseteq DOMAIN inst'
  BY <1>1 DEF Scanned
<1>3. \A i \in DOMAIN inst' : DOMAIN inst'[i] = InstanceRow
  BY <1>1 DEF Scanned, IInv, FieldsOk, InstanceRow
<1>4. \A n \in DOMAIN nodes' : DOMAIN nodes'[n] = NodeFields
  BY <1>1 DEF ForestOf, ObjLeaf, ObjFolder, NodeFields
<1>5. KeepsMaterials'
  BY <1>1 DEF KeepsMaterials
<1> QED
  BY <1>1, <1>2, <1>3, <1>4, <1>5, MaterialStep DEF FieldsOk

LEMMA NetdiskKeeps ==
    ASSUME IInv, NEW v, ImportNetdisk(v)
    PROVE  IInv'
<1>1. /\ type = "COURSE" /\ UNCHANGED <<type, points, reading, origin>>
      /\ inst' = With(inst, v, [path |-> v, present |-> TRUE])
      /\ \/ nodes' = nodes
         \/ nodes' = With(With(nodes, fresh', ObjFolder(None, {v})), v, ObjLeaf(v, fresh'))
  BY DEF ImportNetdisk, study, other
<1>2. DOMAIN inst \subseteq DOMAIN inst' /\ \A j \in DOMAIN inst' : DOMAIN inst'[j] = InstanceRow
  BY <1>1, InstanceAdded DEF IInv
<1>3. \A n \in DOMAIN nodes' : DOMAIN nodes'[n] = NodeFields
  <2>1. CASE nodes' = nodes
    BY <2>1 DEF IInv, FieldsOk
  <2>2. CASE nodes' = With(With(nodes, fresh', ObjFolder(None, {v})), v, ObjLeaf(v, fresh'))
    <3> DEFINE f == With(nodes, fresh', ObjFolder(None, {v}))
    <3>1. /\ f = With(nodes, fresh', ObjFolder(None, {v}))
          /\ nodes' = With(f, v, ObjLeaf(v, fresh'))
      BY <2>2
    <3> HIDE DEF f
    <3>2. \A n \in DOMAIN f : DOMAIN f[n] = NodeFields
      BY <3>1, FolderAdded DEF IInv, FieldsOk
    <3> QED
      BY <3>1, <3>2, LeafAdded
  <2> QED
    BY <1>1, <2>1, <2>2
<1>4. KeepsMaterials'
  BY <1>1 DEF KeepsMaterials
<1> QED
  BY <1>1, <1>2, <1>3, <1>4, MaterialStep DEF FieldsOk

LEMMA InstanceKeeps ==
    ASSUME IInv, NEW path, AddInstance(path)
    PROVE  IInv'
<1>1. /\ UNCHANGED <<type, nodes, points, reading, origin>>
      /\ inst' = With(inst, fresh', [path |-> path, present |-> TRUE])
  BY DEF AddInstance, study, other
<1>2. /\ DOMAIN inst' = DOMAIN inst \cup {fresh'}
      /\ \A j \in DOMAIN inst' : DOMAIN inst'[j] = InstanceRow
      /\ \A j \in DOMAIN inst' : inst'[j].present \/ (j \in DOMAIN inst /\ inst'[j] = inst[j])
  BY <1>1, InstanceAdded DEF IInv
<1>3. KeepsMaterials' /\ FieldsOk'
  BY <1>1, <1>2 DEF IInv, KeepsMaterials, FieldsOk
<1> QED
  BY <1>1, <1>2, <1>3, MaterialStep

LEMMA LeafKeeps ==
    ASSUME IInv, NEW i, NEW up, AddLeaf(i, up)
    PROVE  IInv'
<1> DEFINE f == Adopt(nodes, up, fresh')
<1>1. /\ UNCHANGED <<type, inst, points, reading, origin>> /\ i \in DOMAIN inst
      /\ nodes' = With(f, fresh', ObjLeaf(i, up))
  BY DEF AddLeaf, study, other
<1>2. /\ DOMAIN f = DOMAIN nodes
      /\ \A m \in DOMAIN nodes : /\ DOMAIN f[m] = NodeFields
                                 /\ f[m].leaf = nodes[m].leaf /\ f[m].inst = nodes[m].inst
  BY AdoptFacts DEF IInv, FieldsOk
<1> HIDE DEF f
<1>3. \A m \in DOMAIN nodes' :
         /\ DOMAIN nodes'[m] = NodeFields
         /\ \/ m = fresh' /\ nodes'[m].inst = i
            \/ m \in DOMAIN f /\ nodes'[m] = f[m]
  BY <1>1, <1>2, LeafAdded
<1>4. KeepsMaterials' /\ FieldsOk'
  BY <1>1, <1>2, <1>3 DEF IInv, KeepsMaterials, FieldsOk
<1> QED
  BY <1>1, <1>4, MaterialStep

LEMMA ContainerKeeps ==
    ASSUME IInv, NEW up, NEW kids, AddContainer(up, kids)
    PROVE  IInv'
<1> DEFINE moved == [n \in DOMAIN nodes |->
                       IF n \in kids THEN [nodes[n] EXCEPT !.parent = fresh']
                       ELSE [nodes[n] EXCEPT !.kids = @ \ kids]]
           f == Adopt(moved, up, fresh')
<1>1. /\ UNCHANGED <<type, inst, points, reading, origin>>
      /\ nodes' = With(f, fresh', ObjFolder(up, kids))
  BY DEF AddContainer, Gather, study, other
<1>2. /\ DOMAIN moved = DOMAIN nodes
      /\ \A m \in DOMAIN nodes : /\ DOMAIN moved[m] = NodeFields
                                 /\ moved[m].leaf = nodes[m].leaf
                                 /\ moved[m].inst = nodes[m].inst
  BY DEF IInv, FieldsOk, NodeFields
<1> HIDE DEF moved
<1>3. /\ DOMAIN f = DOMAIN nodes
      /\ \A m \in DOMAIN nodes : /\ DOMAIN f[m] = NodeFields
                                 /\ f[m].leaf = nodes[m].leaf /\ f[m].inst = nodes[m].inst
  BY <1>2, AdoptFacts
<1> HIDE DEF f
<1>4. \A m \in DOMAIN nodes' :
         /\ DOMAIN nodes'[m] = NodeFields
         /\ \/ m = fresh' /\ ~nodes'[m].leaf
            \/ m \in DOMAIN f /\ nodes'[m] = f[m]
  BY <1>1, <1>3, FolderAdded
<1>5. KeepsMaterials' /\ FieldsOk'
  BY <1>1, <1>3, <1>4 DEF IInv, KeepsMaterials, FieldsOk
<1> QED
  BY <1>1, <1>5, MaterialStep

\* An outline becomes the materials of a project that has none.
LEMMA BookKeeps ==
    ASSUME IInv, NEW d, InitializeBook(d)
    PROVE  IInv'
<1>1. /\ UNCHANGED <<type, points, reading, origin>> /\ inst = <<>>
      /\ nodes' = OutlineForest(d)
      /\ inst' = [i \in {nodes'[n].inst : n \in DOMAIN nodes'} \ {None} |->
                    [path |-> i, present |-> TRUE]]
  BY DEF InitializeBook, study, other
<1>2. DOMAIN d \subseteq Nat
  BY DEF InitializeBook, Outlines
<1>3. /\ \A n \in DOMAIN nodes' : DOMAIN nodes'[n] = NodeFields
      /\ \A n \in DOMAIN nodes' : nodes'[n].leaf => nodes'[n].inst # None
  <2> SUFFICES ASSUME NEW n \in DOMAIN nodes'
               PROVE  DOMAIN nodes'[n] = NodeFields /\ (nodes'[n].leaf => nodes'[n].inst # None)
    OBVIOUS
  <2> DEFINE k == (n + 1) \div 2
  <2>1. PICK j \in DOMAIN d : n = 2 * j - 1
    BY <1>1 DEF OutlineForest
  <2>2. k \in Nat
    BY <1>2, <2>1
  <2> HIDE DEF k
  <2>3. \/ \E up, kids : nodes'[n] = ObjFolder(up, kids)
        \/ \E up : nodes'[n] = ObjLeaf(2 * k, up)
    BY <1>1, Zenon DEF OutlineForest, k
  <2>4. 2 * k \in Nat
    BY <2>2
  <2> QED
    BY <2>3, <2>4, LibraryAssumption DEF ObjFolder, ObjLeaf, NodeFields
<1>4. DOMAIN inst \subseteq DOMAIN inst'
  BY <1>1
<1>5. KeepsMaterials' /\ FieldsOk'
  BY <1>1, <1>3 DEF KeepsMaterials, FieldsOk, InstanceRow
<1> QED
  BY <1>1, <1>4, <1>5, MaterialStep

\* _ensure_mistake_inbox_leaf_in_session: the leaf is added with its instance.
LEMMA InboxKeeps ==
    ASSUME IInv, Inbox
    PROVE  /\ UNCHANGED type /\ DOMAIN inst \subseteq DOMAIN inst'
           /\ KeepsMaterials' /\ FieldsOk'
<1>1. /\ UNCHANGED type
      /\ inst' = With(inst, fresh + 1, [path |-> fresh + 1, present |-> TRUE])
      /\ nodes' = With(nodes, fresh + 2, ObjLeaf(fresh + 1, None))
  BY DEF Inbox
<1>2. /\ DOMAIN inst' = DOMAIN inst \cup {fresh + 1}
      /\ \A j \in DOMAIN inst' : DOMAIN inst'[j] = InstanceRow
      /\ \A j \in DOMAIN inst' : inst'[j].present \/ (j \in DOMAIN inst /\ inst'[j] = inst[j])
  BY <1>1, InstanceAdded DEF IInv
<1>3. \A m \in DOMAIN nodes' : /\ DOMAIN nodes'[m] = NodeFields
                               /\ \/ m = fresh + 2 /\ nodes'[m].inst = fresh + 1
                                  \/ m \in DOMAIN nodes /\ nodes'[m] = nodes[m]
  BY <1>1, LeafAdded DEF IInv, FieldsOk
<1> QED
  BY <1>1, <1>2, <1>3 DEF IInv, KeepsMaterials, FieldsOk

LEMMA WithInboxKeeps ==
    ASSUME IInv, WithInbox
    PROVE  /\ UNCHANGED type /\ DOMAIN inst \subseteq DOMAIN inst'
           /\ KeepsMaterials' /\ FieldsOk'
<1>1. CASE UNCHANGED library
  <2>1. UNCHANGED <<type, inst, nodes>>
    BY <1>1 DEF library
  <2> QED
    BY <2>1, MaterialsKept DEF IInv
<1> QED
  BY <1>1, InboxKeeps DEF WithInbox

LEMMA EnsureInboxKeeps ==
    ASSUME IInv, EnsureInbox
    PROVE  IInv'
<1>1. Inbox /\ UNCHANGED <<points, reading, origin>>
  BY DEF EnsureInbox, study, other
<1> QED
  BY <1>1, InboxKeeps, MaterialStep

-----------------------------------------------------------------------------
(* Collecting. *)

\* Between its two sessions a request holds a point of the other project; only a
\* mistake book collects, and its leaves show instances it has.
LEMMA CollectKeeps ==
    ASSUME IInv, NEW t \in Threads, NEW p, Collect(t, p)
    PROVE  IInv'
<1>1. /\ reading[t] # None /\ ~Collected(reading[t]) /\ WithInbox
      /\ reading' = [reading EXCEPT ![t] = None] /\ UNCHANGED origin
  BY DEF Collect
<1>2. reading[t] \in Sources /\ type = "MISTAKE_BOOK"
  BY <1>1 DEF IInv, ReadingOk
<1>3. /\ UNCHANGED type /\ DOMAIN inst \subseteq DOMAIN inst'
      /\ KeepsMaterials' /\ FieldsOk'
  BY <1>1, WithInboxKeeps
<1>4. PICK n \in DOMAIN nodes' : nodes'[n].leaf /\ Submitted(p, nodes'[n].inst, reading[t])
  BY DEF Collect
<1>5. nodes'[n].inst \in DOMAIN inst'
  BY <1>2, <1>3, <1>4 DEF KeepsMaterials
<1>6. PointsOk' /\ CollectedOnce'
  BY <1>1, <1>2, <1>3, <1>4, <1>5, SubmittedKeeps DEF IInv
<1>7. ReadingOk'
  BY <1>1, <1>3 DEF IInv, ReadingOk
<1> QED
  BY <1>3, <1>6, <1>7 DEF IInv

LEMMA ReadKeeps ==
    ASSUME IInv, NEW t \in Threads,
           GiveUp(t) \/ \E s \in Sources : ReadOrigin(t, s)
    PROVE  IInv'
<1>1. UNCHANGED <<type, inst, nodes, points>>
  BY DEF GiveUp, ReadOrigin, library, study
<1>2. ReadingOk'
  BY DEF IInv, ReadingOk, GiveUp, ReadOrigin, library
<1> QED
  BY <1>1, <1>2, PointsKept, CollectedKept, MaterialsKept DEF IInv

LEMMA OriginKeeps ==
    ASSUME IInv, NEW s \in Sources, OriginDeletes(s)
    PROVE  IInv'
<1>1. UNCHANGED <<type, inst, nodes, points, reading>> /\ origin' = origin \ {s}
  BY DEF OriginDeletes, library, study
<1>2. ReadingOk'
  BY <1>1 DEF IInv, ReadingOk
<1> QED
  BY <1>1, <1>2, PointsKept, CollectedKept, MaterialsKept DEF IInv

-----------------------------------------------------------------------------
(* The theorems. *)

LEMMA InitIInv == Init => IInv
<1> SUFFICES ASSUME Init PROVE IInv
  OBVIOUS
<1>1. /\ DOMAIN inst = {} /\ DOMAIN nodes = {} /\ DOMAIN points = {} /\ points = <<>>
      /\ origin = Sources /\ reading = [t \in Threads |-> None]
  BY DEF Init
<1>2. points \in [DOMAIN points -> PointRow]
  BY <1>1
<1> QED
  BY <1>1, <1>2
     DEF IInv, PointsOk, KeepsMaterials, FieldsOk, ReadingOk, CollectedOnce

LEMMA StepIInv == IInv /\ [Next]_vars => IInv'
<1> SUFFICES ASSUME IInv, [Next]_vars PROVE IInv'
  OBVIOUS
<1>1. ASSUME UNCHANGED <<type, inst, nodes, points, reading, origin>>
      PROVE  IInv'
  BY <1>1, PointsKept, CollectedKept, MaterialsKept, ReadingKept DEF IInv
<1>2. CASE \E found \in OnDisk : SyncFromFs(found)
  BY <1>2, ScanKeeps DEF SyncFromFs
<1>3. CASE \E files \in SUBSET Files : ImportBrowserScan(files)
  BY <1>3, ScanKeeps DEF ImportBrowserScan
<1>4. CASE \E v \in Remote : ImportNetdisk(v)
  BY <1>4, NetdiskKeeps
<1>5. CASE \E kind \in {"SERVER_FS", "MANUAL"} : SetSourceBinding(kind)
  BY <1>1, <1>5 DEF SetSourceBinding, study, other
<1>6. CASE \E path \in Files \cup {fresh + 1} : AddInstance(path)
  BY <1>6, InstanceKeeps
<1>7. CASE \E i \in DOMAIN inst, up \in DOMAIN nodes \cup {None} : AddLeaf(i, up)
  BY <1>7, LeafKeeps
<1>8. CASE \E up \in Folders \cup {None}, kids \in SUBSET DOMAIN nodes : AddContainer(up, kids)
  BY <1>8, ContainerKeeps
<1>9. CASE \E d : InitializeBook(d)
  BY <1>9, BookKeeps
<1>10. CASE EnsureInbox
  BY <1>10, EnsureInboxKeeps
<1>11. CASE \E t \in Threads, p \in Points : Collect(t, p)
  BY <1>11, CollectKeeps
<1>12. CASE \E t \in Threads : GiveUp(t) \/ \E s \in Sources : ReadOrigin(t, s)
  BY <1>12, ReadKeeps
<1>13. CASE \E s \in Sources : OriginDeletes(s)
  BY <1>13, OriginKeeps
<1>14. CASE \E p \in Points, i \in DOMAIN inst : SubmitLearningTask(p, i)
  BY <1>14, SubmitKeeps
<1>15. CASE \E p \in Points : DeleteRecallPoint(p) \/ \E i \in DOMAIN inst : EditRecallPoint(p, i)
  BY <1>15, DeleteKeeps, EditKeeps
<1>16. CASE \E from, to \in DOMAIN inst : \E moved \in SUBSET ActiveAt(from) :
               Remap(from, to, moved)
  BY <1>16, RemapKeeps
<1>17. CASE RegisterFolder \/ TickAfterScan
  BY <1>1, <1>17 DEF RegisterFolder, TickAfterScan, library, other
<1>18. CASE UNCHANGED vars
  BY <1>1, <1>18 DEF vars
<1>19. CASE \E forest \in Materials : InitializeBookFromMaterial(forest)
  BY <1>9, <1>19 DEF InitializeBookFromMaterial
<1> QED
  BY <1>2, <1>3, <1>4, <1>5, <1>6, <1>7, <1>8, <1>9, <1>10, <1>11, <1>12, <1>13, <1>14,
     <1>15, <1>16, <1>17, <1>18, <1>19 DEF Next

LEMMA SpecIInv == Spec => []IInv
<1> QED
  BY InitIInv, StepIInv, PTL DEF Spec

\* A point is copied once: whatever requests collect it at the same time, and although
\* it is read in one session and copied in another, a mistake book never holds two
\* ACTIVE copies of a point (collect_recall_point_to_mistake_book).
THEOREM CopiesAreUnique == Spec => []CollectedOnce
<1> QED
  BY SpecIInv, PTL DEF IInv

(***************************************************************************)
(* The forests.                                                            *)
(***************************************************************************)

CountersOk == type \in DOMAIN MaxFresh /\ fresh \in 0..MaxFresh[type]

\* identifiers given from outside and those generated, up to k
Given(set, k) == set \cup 1..k

InstancesOk ==
    /\ DOMAIN inst \subseteq Given(Files \cup Remote, fresh)
    /\ \A i \in DOMAIN inst \cap (Files \cup Remote) : inst[i].path = i

NodeOk(f, n, k) ==
    /\ DOMAIN f[n] = NodeFields
    /\ f[n].leaf \in BOOLEAN
    /\ f[n].leaf => f[n].inst \in Given(Files \cup Remote, k) /\ f[n].kids = {}
    /\ ~f[n].leaf => f[n].inst = None /\ n \notin Files
    /\ n \in Dirs => ~f[n].leaf
    /\ n \in Remote => f[n].leaf /\ f[n].inst = n

ShownOnce(f) == \A m, n \in DOMAIN f : f[m].leaf /\ f[m].inst = f[n].inst => m = n

\* the forest of a project that has generated k identifiers
ForestOk(f, k) ==
    /\ IsFiniteSet(DOMAIN f) /\ DOMAIN f \subseteq Given(Files \cup Dirs \cup Remote, k)
    /\ Whole(f)
    /\ \A n \in DOMAIN f : NodeOk(f, n, k)
    /\ ShownOnce(f)

TaskFields == {"leaf", "parent", "kids", "orphan"}

TaskOk(n) ==
    /\ DOMAIN tree[n] = TaskFields
    /\ tree[n].leaf \in BOOLEAN
    /\ tree[n].leaf => n \in DOMAIN points /\ tree[n].parent = None /\ tree[n].kids = {}
    /\ ~tree[n].leaf => n \in Given(Dirs, fresh) /\ (n \in DOMAIN nodes => ~nodes[n].leaf)

\* A mirror has the identifier of its folder, a leaf that of its point.
TreeOk ==
    /\ IsFiniteSet(DOMAIN tree) /\ Whole(tree)
    /\ DOMAIN points \subseteq Points
    /\ \A n \in DOMAIN tree : TaskOk(n)

FInv == CountersOk /\ InstancesOk /\ ForestOk(nodes, fresh) /\ TreeOk

-----------------------------------------------------------------------------
(* Putting a node into a forest. *)

LEMMA ForestKept ==
    ASSUME NEW f, NEW k \in Nat, NEW j \in Nat, k <= j, ForestOk(f, k)
    PROVE  ForestOk(f, j)
<1>1. 1..k \subseteq 1..j
  OBVIOUS
<1> QED
  BY <1>1 DEF ForestOk, NodeOk, Given

\* A leaf that shows an instance no other leaf shows.
LEMMA LeafStands ==
    ASSUME NEW f, NEW k \in Nat, NEW j \in Nat, k <= j, ForestOk(f, k),
           NEW x, x \notin DOMAIN f, x \in Given(Remote, j),
           NEW i, i \in Given(Files \cup Remote, j), x \in Remote => i = x,
           \A n \in DOMAIN f : f[n].inst # i,
           NEW up, up # None => up \in DOMAIN f /\ ~f[up].leaf
    PROVE  ForestOk(Put(f, x, ObjLeaf(i, up)), j)
<1>1. ForestOk(f, j)
  BY ForestKept
<1> DEFINE row == ObjLeaf(i, up)
           g == Put(f, x, row)
<1>2. /\ DOMAIN row = NodeFields /\ row.leaf = TRUE /\ row.inst = i
      /\ row.parent = up /\ row.kids = {}
  BY DEF ObjLeaf, NodeFields
<1> HIDE DEF row
<1>3. Whole(g) /\ DOMAIN g = DOMAIN f \cup {x}
  <2>1. HasParent(f, row)
    BY <1>2 DEF HasParent, ForestOk, NodeOk, NodeFields
  <2>2. IsFiniteSet(DOMAIN f) /\ Whole(f)
    BY DEF ForestOk
  <2> QED
    BY <1>2, <2>1, <2>2, LeafPut
<1>4. \A n \in DOMAIN f : /\ DOMAIN g[n] = NodeFields
                          /\ g[n].leaf = f[n].leaf /\ g[n].inst = f[n].inst
                          /\ f[n].leaf => g[n].kids = f[n].kids
  <2>1. \A n \in DOMAIN f : DOMAIN f[n] = NodeFields
    BY DEF ForestOk, NodeOk
  <2>2. CASE up = None
    BY <1>2, <2>1, <2>2 DEF With, Adopt, Put
  <2>3. CASE up # None
    BY <1>2, <2>1, <2>3 DEF With, Adopt, NodeFields, Put
  <2> QED
    BY <2>2, <2>3
<1>5. g[x] = row
  BY <1>3 DEF With, Put
<1> HIDE DEF g
<1>6. IsFiniteSet(DOMAIN g)
  BY <1>3, FS_AddElement DEF ForestOk
<1>7. DOMAIN g \subseteq Given(Files \cup Dirs \cup Remote, j)
  BY <1>1, <1>3 DEF ForestOk, Given
<1>8. ASSUME NEW n \in DOMAIN g PROVE NodeOk(g, n, j)
  <2>1. CASE n \in DOMAIN f
    <3>1. NodeOk(f, n, j)
      BY <1>1, <2>1 DEF ForestOk
    <3> QED
      BY <1>4, <2>1, <3>1 DEF NodeOk
  <2>2. CASE n = x
    <3>1. x \notin Dirs
      BY LibraryAssumption DEF Given
    <3> QED
      BY <1>2, <1>5, <2>2, <3>1 DEF NodeOk
  <2> QED
    BY <1>3, <2>1, <2>2
<1>9. ShownOnce(g)
  BY <1>2, <1>3, <1>4, <1>5 DEF ForestOk, ShownOnce
<1>10. ForestOk(g, j)
  BY <1>3, <1>6, <1>7, <1>8, <1>9 DEF ForestOk
<1> QED
  BY <1>10 DEF g, row

\* An empty folder beside the others.
LEMMA FolderStands ==
    ASSUME NEW f, NEW k \in Nat, NEW j \in Nat, k <= j, ForestOk(f, k),
           NEW x \in 1..j, x \notin DOMAIN f
    PROVE  /\ ForestOk(Put(f, x, ObjFolder(None, {})), j)
           /\ DOMAIN Put(f, x, ObjFolder(None, {})) = DOMAIN f \cup {x}
<1>1. ForestOk(f, j)
  BY ForestKept
<1> DEFINE row == ObjFolder(None, {})
           g == Put(f, x, row)
<1>2. /\ DOMAIN row = NodeFields /\ row.leaf = FALSE /\ row.inst = None
      /\ row.parent = None /\ row.kids = {}
  BY DEF ObjFolder, NodeFields
<1> HIDE DEF row
<1>3. Whole(g) /\ DOMAIN g = DOMAIN f \cup {x}
  <2>1. HasParent(f, row)
    BY <1>2 DEF HasParent
  <2>2. IsFiniteSet(DOMAIN f) /\ Whole(f)
    BY DEF ForestOk
  <2> QED
    BY <1>2, <2>1, <2>2, LeafPut
<1>4. g[x] = row /\ \A n \in DOMAIN f : g[n] = f[n]
  BY <1>2 DEF With, Adopt, Put
<1> HIDE DEF g
<1>5. IsFiniteSet(DOMAIN g)
  BY <1>3, FS_AddElement DEF ForestOk
<1>6. DOMAIN g \subseteq Given(Files \cup Dirs \cup Remote, j)
  BY <1>1, <1>3 DEF ForestOk, Given
<1>7. ASSUME NEW n \in DOMAIN g PROVE NodeOk(g, n, j)
  <2>1. CASE n \in DOMAIN f
    <3>1. NodeOk(f, n, j)
      BY <1>1, <2>1 DEF ForestOk
    <3> QED
      BY <1>4, <2>1, <3>1 DEF NodeOk
  <2>2. CASE n = x
    <3>1. x \notin Files \cup Remote
      BY LibraryAssumption
    <3> QED
      BY <1>2, <1>4, <2>2, <3>1 DEF NodeOk
  <2> QED
    BY <1>3, <2>1, <2>2
<1>8. ShownOnce(g)
  <2>1. \A n \in DOMAIN f : f[n].leaf => f[n].inst # None
    BY LibraryAssumption DEF ForestOk, NodeOk, Given
  <2> QED
    BY <1>2, <1>3, <1>4, <2>1 DEF ForestOk, ShownOnce
<1>9. ForestOk(g, j)
  BY <1>3, <1>5, <1>6, <1>7, <1>8 DEF ForestOk
<1> QED
  BY <1>3, <1>9 DEF g, row

-----------------------------------------------------------------------------
(* The task tree. *)

\* no folder that has a mirror has become a leaf
MirrorsStay ==
    \A n \in DOMAIN nodes' : n \in Given(Dirs, fresh) /\ nodes'[n].leaf
                             => n \in DOMAIN nodes /\ nodes[n].leaf

LEMMA TreeKept ==
    ASSUME TreeOk, fresh \in Nat, fresh' \in Nat, fresh <= fresh', UNCHANGED <<tree, points>>,
           MirrorsStay
    PROVE  TreeOk'
<1>1. 1..fresh \subseteq 1..fresh'
  OBVIOUS
<1> SUFFICES ASSUME NEW n \in DOMAIN tree PROVE TaskOk(n)'
  BY DEF TreeOk
<1>2. TaskOk(n)
  BY DEF TreeOk
<1> QED
  BY <1>1, <1>2 DEF TaskOk, Given, MirrorsStay

\* points change, but none is lost
LEMMA PointTreeKept ==
    ASSUME TreeOk, UNCHANGED <<tree, fresh, nodes>>, DOMAIN points' = DOMAIN points
    PROVE  TreeOk'
BY DEF TreeOk, TaskOk, Given

LEMMA SubmittedTree ==
    ASSUME TreeOk, fresh \in Nat, fresh' \in Nat, fresh <= fresh', MirrorsStay,
           NEW p, NEW i, NEW from, Submitted(p, i, from)
    PROVE  TreeOk'
<1> DEFINE row == [leaf |-> TRUE, parent |-> None, kids |-> {}, orphan |-> FALSE]
<1>1. /\ p \in Points \ DOMAIN points /\ tree' = With(tree, p, row)
      /\ DOMAIN points' = DOMAIN points \cup {p}
  BY DEF Submitted, With
<1>2. p \notin DOMAIN tree
  <2> SUFFICES ASSUME p \in DOMAIN tree PROVE FALSE
    OBVIOUS
  <2>1. TaskOk(p)
    BY DEF TreeOk
  <2>2. p \notin Given(Dirs, fresh)
    BY <1>1, LibraryAssumption DEF Given
  <2> QED
    BY <1>1, <2>1, <2>2 DEF TaskOk
<1>3. row.leaf = TRUE /\ row.parent = None /\ row.kids = {} /\ DOMAIN row = TaskFields
  BY DEF TaskFields
<1>4. tree'[p] = row /\ \A n \in DOMAIN tree : tree'[n] = tree[n]
  BY <1>1, <1>2 DEF With
<1> HIDE DEF row
<1>5. Whole(tree') /\ DOMAIN tree' = DOMAIN tree \cup {p}
  <2>1. HasParent(tree, row) /\ tree' = Put(tree, p, row)
    BY <1>1, <1>3 DEF HasParent, Put, Adopt
  <2>2. IsFiniteSet(DOMAIN tree) /\ Whole(tree)
    BY DEF TreeOk
  <2> QED
    BY <1>2, <1>3, <2>1, <2>2, LeafPut
<1>6. IsFiniteSet(DOMAIN tree')
  BY <1>5, FS_AddElement DEF TreeOk
<1>7. ASSUME NEW n \in DOMAIN tree' PROVE TaskOk(n)'
  <2>1. CASE n = p
    BY <1>1, <1>3, <1>4, <2>1 DEF TaskOk
  <2>2. CASE n \in DOMAIN tree
    <3>1. TaskOk(n) /\ 1..fresh \subseteq 1..fresh'
      BY <2>2 DEF TreeOk
    <3>2. tree'[n] = tree[n]
      BY <1>4, <2>2
    <3> QED
      BY <1>1, <3>1, <3>2 DEF TaskOk, Given, MirrorsStay
  <2> QED
    BY <1>5, <2>1, <2>2
<1>8. DOMAIN points' \subseteq Points
  BY <1>1 DEF TreeOk
<1> QED
  BY <1>5, <1>6, <1>7, <1>8 DEF TreeOk

-----------------------------------------------------------------------------
(* Scans. *)

\* a path ends at the root
PathDepth(depth) ==
    /\ \A x \in Files \cup Dirs : depth[x] \in 0..Cardinality(Dirs)
    /\ \A x \in (Files \cup Dirs) \ {Root} : Up[x] \in Dirs /\ depth[Up[x]] < depth[x]

LEMMA PathsEnd == \E depth : PathDepth(depth)
BY LibraryAssumption DEF PathDepth

AboveStep(above, x) == IF x = Root THEN {} ELSE {Up[x]} \cup above[Up[x]]

LEMMA AncestorsFacts ==
    ASSUME NEW f \in Files
    PROVE  /\ Ancestors(f) \subseteq Dirs /\ Root \in Ancestors(f) /\ Up[f] \in Ancestors(f)
           /\ \A x \in Ancestors(f) \ {Root} : Up[x] \in Ancestors(f)
<1> DEFINE D == DOMAIN Up \cup {Root}
<1>1. D = Files \cup Dirs /\ f \in D /\ f # Root /\ Root \in Dirs
  BY LibraryAssumption
<1>2. Cardinality(Dirs) \in Nat
  BY LibraryAssumption, FS_Union, FS_Subset, FS_CardinalityType
<1>3. PICK depth : PathDepth(depth)
  BY PathsEnd
<1> HIDE DEF D
<1>4. \E above : above = [x \in D |-> AboveStep(above, x)]
  <2> DEFINE Y == SUBSET Dirs
             rank == [x \in D |-> depth[x]]
             step == [p \in D \X [D -> Y] |-> AboveStep(p[2], p[1])]
  <2>1. Y # {} /\ rank \in [D -> 0..Cardinality(Dirs)]
    BY <1>1, <1>3 DEF PathDepth
  <2>2. ASSUME NEW x \in D, NEW g \in [D -> Y] PROVE AboveStep(g, x) \in Y
    BY <1>1, <1>3 DEF PathDepth, AboveStep
  <2>3. step \in [D \X [D -> Y] -> Y]
    <3> HIDE DEF Y
    <3> QED
      BY <2>2
  <2>4. ASSUME NEW x \in D, NEW g \in [D -> Y], NEW h \in [D -> Y],
               \A y \in D : rank[y] < rank[x] => g[y] = h[y]
        PROVE  step[<<x, g>>] = step[<<x, h>>]
    <3>1. x # Root => Up[x] \in D /\ rank[Up[x]] < rank[x]
      BY <1>1, <1>3 DEF PathDepth
    <3>2. AboveStep(g, x) = AboveStep(h, x)
      BY <2>4, <3>1 DEF AboveStep
    <3> HIDE DEF Y
    <3> QED
      BY <3>2
  <2> HIDE DEF Y, rank
  <2>5. Ranked(D, Y, Cardinality(Dirs), rank, step)
    <3> HIDE DEF step
    <3> QED
      BY <1>2, <2>1, <2>3, <2>4 DEF Ranked
  <2>6. PICK g \in [D -> Y] : \A x \in D : g[x] = step[<<x, g>>]
    <3> HIDE DEF step
    <3> QED
      BY <2>5, RankedRecursion
  <2>7. g = [x \in D |-> AboveStep(g, x)]
    BY <2>6
  <2> QED
    BY <2>7
<1> DEFINE above == CHOOSE above : above = [x \in D |-> AboveStep(above, x)]
<1>5. above = [x \in D |-> AboveStep(above, x)]
  BY <1>4, Zenon
<1>6. Ancestors(f) = above[f]
  BY Zenon DEF Ancestors, D, AboveStep
<1> HIDE DEF above
<1> DEFINE Good(x) == /\ above[x] \subseteq Dirs
                      /\ x # Root => Root \in above[x] /\ Up[x] \in above[x]
                      /\ \A y \in above[x] \ {Root} : Up[y] \in above[x]
           S == {k \in Nat : \A x \in D : depth[x] <= k => Good(x)}
<1>7. \A x \in D : x # Root => /\ Up[x] \in D /\ depth[Up[x]] < depth[x]
                               /\ above[x] = {Up[x]} \cup above[Up[x]]
  BY <1>1, <1>3, <1>5 DEF PathDepth, AboveStep
<1>8. above[Root] = {}
  BY <1>1, <1>5 DEF AboveStep
<1>9. \A x \in D : depth[x] \in Nat
  BY <1>1, <1>2, <1>3 DEF PathDepth
<1>10. ASSUME NEW x \in D, x # Root => Good(Up[x]) PROVE Good(x)
  <2>1. CASE x = Root
    BY <1>8, <2>1
  <2>2. CASE x # Root
    <3>1. above[x] = {Up[x]} \cup above[Up[x]] /\ Up[x] \in Dirs
      BY <1>1, <1>3, <1>7, <2>2 DEF PathDepth
    <3>2. Root \in above[x]
      BY <1>10, <2>2, <3>1
    <3>3. ASSUME NEW y \in above[x] \ {Root} PROVE Up[y] \in above[x]
      <4>1. CASE y = Up[x]
        BY <1>10, <2>2, <3>1, <4>1
      <4>2. CASE y \in above[Up[x]]
        BY <1>10, <2>2, <3>1, <4>2
      <4> QED
        BY <3>1, <4>1, <4>2
    <3> QED
      BY <1>10, <2>2, <3>1, <3>2, <3>3
  <2> QED
    BY <2>1, <2>2
<1> HIDE DEF Good
<1>11. 0 \in S
  <2>1. ASSUME NEW x \in D, depth[x] <= 0 PROVE Good(x)
    BY <1>7, <1>9, <1>10, <2>1
  <2> QED
    BY <2>1
<1>12. ASSUME NEW k \in Nat, k \in S PROVE k + 1 \in S
  <2>1. ASSUME NEW x \in D, depth[x] <= k + 1 PROVE Good(x)
    BY <1>7, <1>9, <1>10, <1>12, <2>1
  <2> QED
    BY <2>1
<1> HIDE DEF S
<1>13. depth[f] \in S
  BY <1>1, <1>9, <1>11, <1>12, Counting
<1>14. Good(f)
  BY <1>1, <1>9, <1>13 DEF S
<1> QED
  BY <1>1, <1>6, <1>14 DEF Good

\* what a scan reports: the folders of its files and folders too
ScanOf(files, dirs) ==
    /\ files \subseteq Files /\ dirs \subseteq Dirs /\ Root \in dirs
    /\ \A x \in (files \cup dirs) \ {Root} : Up[x] \in dirs

LEMMA BrowserScan ==
    ASSUME NEW files \in SUBSET Files, files # {}
    PROVE  ScanOf(files, UNION {Ancestors(f) : f \in files})
<1> DEFINE dirs == UNION {Ancestors(f) : f \in files}
<1>1. dirs \subseteq Dirs /\ Root \in dirs
  BY AncestorsFacts
<1>2. ASSUME NEW x \in dirs \ {Root} PROVE Up[x] \in dirs
  <2>1. PICK f \in files : x \in Ancestors(f)
    OBVIOUS
  <2> QED
    BY <2>1, AncestorsFacts
<1>3. \A x \in files : Up[x] \in dirs
  BY AncestorsFacts
<1> QED
  BY <1>1, <1>2, <1>3 DEF ScanOf

\* Two files never get one instance: it is the one named after the file, or one
\* with the path of the file.
LEMMA InstanceFacts ==
    ASSUME CountersOk, InstancesOk, type = "COURSE", NEW f \in Files
    PROVE  /\ InstanceOf(f) \in Given(Files, fresh)
           /\ \/ InstanceOf(f) \in DOMAIN inst /\ inst[InstanceOf(f)].path = f
              \/ InstanceOf(f) = f /\ \A i \in DOMAIN inst : inst[i].path # f
<1> DEFINE known == {i \in DOMAIN inst : inst[i].path = f}
<1>1. CASE known = {}
  BY <1>1 DEF InstanceOf, Given
<1>2. CASE known # {}
  <2>1. known \subseteq Given(Files, fresh)
    BY LibraryAssumption DEF InstancesOk, Given
  <2>2. \A i \in known : Older[i] \in Nat
    <3>1. fresh \in Nat /\ fresh <= MaxFresh["COURSE"] /\ MaxFresh["COURSE"] \in Nat
      BY LibraryAssumption DEF CountersOk
    <3>2. Given(Files, fresh) \subseteq Files \cup 1..MaxFresh["COURSE"]
      BY <3>1 DEF Given
    <3> HIDE DEF known
    <3> QED
      BY <2>1, <3>2, LibraryAssumption
  <2>3. \E i \in known : \A j \in known : Older[i] <= Older[j]
    <3> DEFINE S == {Older[i] : i \in known}
    <3>1. S \subseteq Nat /\ S # {}
      BY <1>2, <2>2
    <3>2. PICK k \in S : \A m \in S : k <= m
      <4> HIDE DEF S
      <4> QED
        BY <3>1, LeastNumber
    <3>3. PICK i \in known : Older[i] = k
      BY <3>2
    <3> QED
      BY <3>2, <3>3
  <2>4. InstanceOf(f) = CHOOSE i \in known : \A j \in known : Older[i] <= Older[j]
    BY <1>2 DEF InstanceOf
  <2>5. InstanceOf(f) \in known
    <3> HIDE DEF known
    <3> QED
      BY <2>3, <2>4
  <2> QED
    BY <2>1, <2>5
<1> QED
  BY <1>1, <1>2

LEMMA InstancesDiffer ==
    ASSUME CountersOk, InstancesOk, type = "COURSE",
           NEW f \in Files, NEW g \in Files, InstanceOf(f) = InstanceOf(g)
    PROVE  f = g
<1>1. InstanceOf(f) \in Files /\ InstanceOf(f) \in DOMAIN inst
      => inst[InstanceOf(f)].path = InstanceOf(f)
  BY DEF InstancesOk
<1> QED
  BY <1>1, InstanceFacts

LEMMA ScannedInstances ==
    ASSUME CountersOk, InstancesOk, type = "COURSE", NEW files \in SUBSET Files,
           inst' = Scanned(files), UNCHANGED fresh
    PROVE  InstancesOk'
<1> DEFINE owner == [f \in files |-> InstanceOf(f)]
           seen == {InstanceOf(f) : f \in files}
<1>1. Range(owner) = seen
  BY DEF Range
<1>2. /\ DOMAIN inst' = DOMAIN inst \cup seen
      /\ \A i \in seen : inst'[i].path = CHOOSE f \in files : owner[f] = i
      /\ \A i \in DOMAIN inst \ seen : inst'[i] = [inst[i] EXCEPT !.present = FALSE]
  BY <1>1 DEF Scanned
<1>3. ASSUME NEW i \in seen PROVE i \in Given(Files, fresh) /\ (i \in Files => inst'[i].path = i)
  <2>1. PICK f \in files : i = InstanceOf(f)
    OBVIOUS
  <2>2. (CHOOSE g \in files : owner[g] = i) \in files
        /\ owner[CHOOSE g \in files : owner[g] = i] = i
    BY <2>1
  <2>3. inst'[i].path \in files /\ InstanceOf(inst'[i].path) = i
    BY <1>2, <2>2
  <2>4. inst'[i].path = f
    BY <2>1, <2>3, InstancesDiffer
  <2>5. i \in Files => i = f
    BY <2>1, InstanceFacts DEF InstancesOk
  <2> QED
    BY <2>1, <2>4, <2>5, InstanceFacts
<1>4. ASSUME NEW i \in DOMAIN inst' \cap (Files \cup Remote) PROVE inst'[i].path = i
  <2>1. CASE i \in seen
    <3>1. i \notin Remote
      BY <1>3, <2>1, LibraryAssumption DEF Given
    <3> QED
      BY <1>3, <2>1, <3>1
  <2>2. CASE i \notin seen
    <3>1. i \in DOMAIN inst /\ inst'[i] = [inst[i] EXCEPT !.present = FALSE]
      BY <1>2, <2>2
    <3>2. inst'[i].path = inst[i].path
      BY <3>1
    <3> QED
      BY <3>1, <3>2 DEF InstancesOk
  <2> QED
    BY <2>1, <2>2
<1>5. DOMAIN inst' \subseteq Given(Files \cup Remote, fresh)
  BY <1>2, <1>3 DEF InstancesOk, Given
<1> QED
  BY <1>4, <1>5 DEF InstancesOk

LEMMA ScannedForest ==
    ASSUME CountersOk, InstancesOk, type = "COURSE", NEW files, NEW dirs, ScanOf(files, dirs)
    PROVE  ForestOk(ForestOf(files, dirs), fresh)
<1> DEFINE f == ForestOf(files, dirs)
           up(x) == IF x = Root THEN None ELSE Up[x]
           below(x) == {c \in (files \cup dirs) \ {Root} : Up[c] = x}
<1>1. /\ DOMAIN f = files \cup dirs
      /\ \A x \in files : f[x] = ObjLeaf(InstanceOf(x), up(x))
      /\ \A x \in dirs : f[x] = ObjFolder(up(x), below(x))
  BY LibraryAssumption DEF ForestOf, ScanOf
<1>2. /\ \A x \in files : /\ DOMAIN f[x] = NodeFields /\ f[x].leaf = TRUE /\ f[x].kids = {}
                          /\ f[x].inst = InstanceOf(x) /\ f[x].parent = up(x)
      /\ \A x \in dirs : /\ DOMAIN f[x] = NodeFields /\ f[x].leaf = FALSE /\ f[x].kids = below(x)
                         /\ f[x].inst = None /\ f[x].parent = up(x)
  BY <1>1 DEF ObjLeaf, ObjFolder, NodeFields
<1> HIDE DEF f
<1>3. IsFiniteSet(DOMAIN f) /\ DOMAIN f \subseteq Files \cup Dirs
  BY <1>1, LibraryAssumption, FS_Subset DEF ScanOf
<1>4. Paired(f)
  <2>1. ASSUME NEW n \in DOMAIN f, NEW c \in f[n].kids PROVE c \in DOMAIN f /\ f[c].parent = n
    BY <1>1, <1>2
  <2>2. ASSUME NEW n \in DOMAIN f, f[n].parent # None
        PROVE  f[n].parent \in DOMAIN f /\ n \in f[f[n].parent].kids
    BY <1>1, <1>2, <2>2 DEF ScanOf
  <2> QED
    BY <2>1, <2>2 DEF Paired
<1>5. Whole(f)
  <2>1. PICK depth : PathDepth(depth)
    BY PathsEnd
  <2>2. Cardinality(Dirs) \in Nat
    BY LibraryAssumption, FS_Union, FS_Subset, FS_CardinalityType
  <2>3. \A n \in DOMAIN f : depth[n] \in Nat
    BY <1>3, <2>1, <2>2 DEF PathDepth
  <2>4. ASSUME NEW n \in DOMAIN f, NEW c \in f[n].kids PROVE depth[n] < depth[c]
    BY <1>1, <1>2, <1>3, <2>1 DEF PathDepth
  <2> QED
    BY <1>3, <1>4, <2>3, <2>4, WholeByDepth
<1>6. ASSUME NEW n \in DOMAIN f PROVE NodeOk(f, n, fresh)
  <2>1. CASE n \in files
    <3>1. n \in Files /\ n \notin Dirs /\ n \notin Remote
      BY <2>1, LibraryAssumption DEF ScanOf
    <3>2. InstanceOf(n) \in Given(Files \cup Remote, fresh)
      BY <3>1, InstanceFacts DEF Given
    <3> QED
      BY <1>2, <2>1, <3>1, <3>2 DEF NodeOk
  <2>2. CASE n \in dirs
    <3>1. n \in Dirs /\ n \notin Files /\ n \notin Remote
      BY <2>2, LibraryAssumption DEF ScanOf
    <3> QED
      BY <1>2, <2>2, <3>1 DEF NodeOk
  <2> QED
    BY <1>1, <2>1, <2>2
<1>7. ShownOnce(f)
  <2> SUFFICES ASSUME NEW m \in DOMAIN f, NEW n \in DOMAIN f, f[m].leaf, f[m].inst = f[n].inst
               PROVE  m = n
    BY DEF ShownOnce
  <2>1. m \in files /\ f[m].inst = InstanceOf(m) /\ m \in Files
    BY <1>1, <1>2 DEF ScanOf
  <2>2. f[m].inst # None
    BY <2>1, InstanceFacts, LibraryAssumption DEF Given
  <2>3. n \in files /\ f[n].inst = InstanceOf(n) /\ n \in Files
    BY <1>1, <1>2, <2>2 DEF ScanOf
  <2> QED
    BY <2>1, <2>3, InstancesDiffer
<1>8. ForestOk(f, fresh)
  BY <1>3, <1>5, <1>6, <1>7 DEF ForestOk, Given
<1> QED
  BY <1>8 DEF f

-----------------------------------------------------------------------------
(* Outlines. *)

LEMMA GreatestNumber ==
    ASSUME NEW n \in Nat, NEW S \in SUBSET (0..n), S # {}
    PROVE  /\ Max(S) \in S
           /\ \A m \in S : m <= Max(S)
<1> DEFINE T == {n - m : m \in S}
<1>1. T \subseteq Nat /\ T # {}
  <2>1. \A m \in S : m \in 0..n
    OBVIOUS
  <2>2. \A m \in S : n - m \in Nat
    BY <2>1
  <2> QED
    BY <2>2
<1>2. PICK t \in T : \A u \in T : t <= u
  <2> HIDE DEF T
  <2> QED
    BY <1>1, LeastNumber
<1>3. PICK m \in S : t = n - m
  BY <1>2
<1>4. ASSUME NEW k \in S PROVE m >= k
  <2>1. n - k \in T /\ k \in 0..n /\ m \in 0..n
    OBVIOUS
  <2>2. t <= n - k
    <3> HIDE DEF T
    <3> QED
      BY <1>2, <2>1
  <2> QED
    BY <1>3, <2>1, <2>2
<1>5. \E x \in S : \A y \in S : x >= y
  BY <1>4
<1>6. Max(S) \in S /\ \A y \in S : Max(S) >= y
  BY <1>5 DEF Max
<1> QED
  BY <1>6

ItemAbove(d, k) == Max({j \in DOMAIN d : j < k /\ d[j] = d[k] - 1})

Chapter(d, k) == k + 1 \in DOMAIN d /\ d[k + 1] > d[k]

LEMMA OutlineFacts ==
    ASSUME NEW n \in Nat, NEW d \in Outlines(n), NEW k \in DOMAIN d, d[k] # 0
    PROVE  /\ ItemAbove(d, k) \in DOMAIN d /\ ItemAbove(d, k) < k
           /\ d[ItemAbove(d, k)] = d[k] - 1
           /\ Chapter(d, ItemAbove(d, k))
<1>1. /\ DOMAIN d = 1..n /\ \A j \in 1..n : d[j] \in Nat
      /\ d[1] = 0 /\ \A j \in 2..n : d[j] <= d[j - 1] + 1
  BY DEF Outlines
<1> DEFINE S == {j \in DOMAIN d : j < k /\ d[j] = d[k] - 1}
           T == {j \in DOMAIN d : j < k /\ d[j] < d[k]}
<1>2. S # {}
  <2>1. 1 \in T
    BY <1>1
  <2>2. T \in SUBSET (0..n)
    BY <1>1
  <2>3. PICK m \in T : \A j \in T : j <= m
    <3> HIDE DEF T
    <3> QED
      BY <2>1, <2>2, GreatestNumber
  <2>4. m \in 1..n /\ m < k /\ d[m] < d[k] /\ k \in 1..n
    BY <1>1
  <2>5. m + 1 \in 2..n /\ (m + 1) - 1 = m
    BY <2>4
  <2>6. d[m + 1] <= d[m] + 1
    BY <1>1, <2>5
  <2>7. d[m + 1] >= d[k]
    <3>1. CASE m + 1 = k
      BY <1>1, <2>4, <3>1
    <3>2. CASE m + 1 < k
      <4>1. m + 1 \notin T
        <5> HIDE DEF T
        <5> QED
          BY <2>3, <2>4
      <4> QED
        BY <1>1, <2>4, <2>5, <3>2, <4>1
    <3> QED
      BY <2>4, <3>1, <3>2
  <2>8. d[m] = d[k] - 1
    <3>1. d[m] \in Nat /\ d[m + 1] \in Nat /\ d[k] \in Nat
      BY <1>1, <2>4, <2>5
    <3> QED
      BY <2>4, <2>6, <2>7, <3>1
  <2> QED
    BY <1>1, <2>4, <2>8
<1>3. S \in SUBSET (0..n)
  BY <1>1
<1> DEFINE a == ItemAbove(d, k)
<1>4. a \in S /\ \A j \in S : j <= a
  <2>1. a = Max(S)
    BY DEF ItemAbove
  <2> HIDE DEF S, a
  <2> QED
    BY <1>2, <1>3, <2>1, GreatestNumber
<1> HIDE DEF a
<1>5. a \in 1..n /\ a < k /\ d[a] = d[k] - 1 /\ k \in 1..n
  BY <1>1, <1>4
<1>6. Chapter(d, a)
  <2> SUFFICES ASSUME d[a + 1] <= d[a] PROVE FALSE
    BY <1>1, <1>5 DEF Chapter
  <2> DEFINE U == {i \in 1..n : a < i /\ i < k /\ d[i] <= d[a]}
  <2>1. a + 1 # k /\ a + 1 \in 1..n
    BY <1>1, <1>5
  <2>2. a + 1 \in U /\ U \in SUBSET (0..n)
    BY <1>5, <2>1
  <2>3. PICK m \in U : \A j \in U : j <= m
    <3> HIDE DEF U
    <3> QED
      BY <2>2, GreatestNumber
  <2>4. m \in 1..n /\ a < m /\ m < k /\ d[m] <= d[a]
    OBVIOUS
  <2>5. m + 1 \in 2..n /\ (m + 1) - 1 = m
    BY <1>5, <2>4
  <2>6. d[m + 1] <= d[m] + 1
    BY <1>1, <2>5
  <2>10. d[m] \in Nat /\ d[m + 1] \in Nat /\ d[k] \in Nat /\ d[a] \in Nat
    <3>1. m + 1 \in 1..n
      BY <2>5
    <3> QED
      BY <1>1, <1>5, <2>4, <3>1
  <2>7. d[m + 1] >= d[k]
    <3>1. CASE m + 1 = k
      BY <2>10, <3>1
    <3>2. CASE m + 1 < k
      <4>1. m + 1 \notin U
        <5> HIDE DEF U
        <5> QED
          BY <2>3, <2>4
      <4>2. m + 1 \in 1..n /\ a < m + 1
        BY <1>5, <2>4, <2>5
      <4>3. ~(d[m + 1] <= d[a])
        BY <3>2, <4>1, <4>2
      <4> QED
        BY <1>5, <2>10, <4>3
    <3> QED
      BY <1>5, <2>4, <3>1, <3>2
  <2>8. d[m] = d[k] - 1
    BY <1>5, <2>4, <2>6, <2>7, <2>10
  <2>9. m \in S
    BY <1>1, <2>4, <2>8
  <2> HIDE DEF S
  <2> QED
    BY <1>4, <1>5, <2>4, <2>9
<1> QED
  BY <1>1, <1>5, <1>6 DEF a

LEMMA OutlineForestOk ==
    ASSUME NEW n \in Nat, NEW d \in Outlines(n)
    PROVE  /\ ForestOk(OutlineForest(d), 2 * n)
           /\ DOMAIN OutlineForest(d) \subseteq Nat
<1>1. DOMAIN d = 1..n /\ \A j \in 1..n : d[j] \in Nat
  BY DEF Outlines
<1> DEFINE f == OutlineForest(d)
           node(k) == 2 * k - 1
           above(k) == IF d[k] = 0 THEN None ELSE ItemAbove(d, k)
           up(k) == IF d[k] = 0 THEN None ELSE node(above(k))
           kids(k) == {node(j) : j \in {x \in DOMAIN d : above(x) = k}}
<1>2. /\ DOMAIN f = {node(k) : k \in 1..n}
      /\ \A k \in 1..n : f[node(k)] = IF Chapter(d, k) THEN ObjFolder(up(k), kids(k))
                                      ELSE ObjLeaf(2 * k, up(k))
  <2>1. DOMAIN f = {node(k) : k \in 1..n}
    BY <1>1 DEF OutlineForest
  <2>2. ASSUME NEW k \in 1..n
        PROVE  f[node(k)] = IF Chapter(d, k) THEN ObjFolder(up(k), kids(k))
                            ELSE ObjLeaf(2 * k, up(k))
    <3>1. (node(k) + 1) \div 2 = k /\ node(k) \in {node(i) : i \in DOMAIN d}
      <4>1. k \in Nat /\ node(k) + 1 = 2 * k
        OBVIOUS
      <4>2. (2 * k) \div 2 = k
        BY <4>1
      <4> QED
        BY <1>1, <4>1, <4>2
    <3> HIDE DEF node
    <3> QED
      BY <3>1, Zenon DEF OutlineForest, Chapter, ItemAbove, node
  <2> QED
    BY <2>1, <2>2
<1> HIDE DEF f
<1>3. \A k \in 1..n :
         /\ DOMAIN f[node(k)] = NodeFields /\ f[node(k)].parent = up(k)
         /\ Chapter(d, k) => /\ f[node(k)].leaf = FALSE /\ f[node(k)].inst = None
                             /\ f[node(k)].kids = kids(k)
         /\ ~Chapter(d, k) => /\ f[node(k)].leaf = TRUE /\ f[node(k)].inst = 2 * k
                              /\ f[node(k)].kids = {}
  <2> HIDE DEF node, up, kids
  <2> SUFFICES ASSUME NEW k \in 1..n
               PROVE  /\ DOMAIN f[node(k)] = NodeFields /\ f[node(k)].parent = up(k)
                      /\ Chapter(d, k) => /\ f[node(k)].leaf = FALSE /\ f[node(k)].inst = None
                                          /\ f[node(k)].kids = kids(k)
                      /\ ~Chapter(d, k) => /\ f[node(k)].leaf = TRUE /\ f[node(k)].inst = 2 * k
                                           /\ f[node(k)].kids = {}
    OBVIOUS
  <2>1. CASE Chapter(d, k)
    <3>1. f[node(k)] = ObjFolder(up(k), kids(k))
      BY <1>2, <2>1
    <3> QED
      BY <2>1, <3>1 DEF ObjFolder, NodeFields
  <2>2. CASE ~Chapter(d, k)
    <3>1. f[node(k)] = ObjLeaf(2 * k, up(k))
      BY <1>2, <2>2
    <3> QED
      BY <2>2, <3>1 DEF ObjLeaf, NodeFields
  <2> QED
    BY <2>1, <2>2
<1>4. \A k \in 1..n : node(k) \in 1..(2 * n)
  OBVIOUS
<1>5. DOMAIN f \subseteq 1..(2 * n) /\ IsFiniteSet(DOMAIN f)
  <2>1. DOMAIN f \subseteq 1..(2 * n)
    BY <1>2, <1>4
  <2>2. IsFiniteSet(1..(2 * n))
    <3>1. 1 \in Int /\ 2 * n \in Int
      OBVIOUS
    <3> QED
      BY <3>1, FS_Interval
  <2> QED
    BY <2>1, <2>2, FS_Subset
<1>6. \A k \in 1..n : d[k] # 0 =>
         above(k) \in 1..n /\ above(k) < k /\ Chapter(d, above(k))
  BY <1>1, OutlineFacts
<1>7. \A x, k \in 1..n : above(x) = k => d[x] # 0
  BY LibraryAssumption
<1> HIDE DEF above
<1>8. Paired(f)
  <2>1. ASSUME NEW m \in DOMAIN f, NEW c \in f[m].kids PROVE c \in DOMAIN f /\ f[c].parent = m
    <3>1. PICK k \in 1..n : m = node(k)
      BY <1>2
    <3>2. c \in kids(k)
      BY <1>3, <3>1
    <3>3. PICK x \in 1..n : above(x) = k /\ c = node(x)
      BY <1>1, <3>2
    <3>4. up(x) = m
      BY <1>7, <3>1, <3>3
    <3> QED
      BY <1>2, <1>3, <3>3, <3>4
  <2>2. ASSUME NEW m \in DOMAIN f, f[m].parent # None
        PROVE  f[m].parent \in DOMAIN f /\ m \in f[f[m].parent].kids
    <3>1. PICK k \in 1..n : m = node(k)
      BY <1>2
    <3>2. d[k] # 0 /\ f[m].parent = node(above(k))
      BY <1>3, <2>2, <3>1
    <3>3. above(k) \in 1..n /\ Chapter(d, above(k))
      BY <1>6, <3>2
    <3>4. f[node(above(k))].kids = kids(above(k))
      BY <1>3, <3>3
    <3>5. m \in kids(above(k))
      BY <1>1, <3>1
    <3> QED
      BY <1>2, <3>2, <3>3, <3>4, <3>5
  <2> QED
    BY <2>1, <2>2 DEF Paired
<1>9. Whole(f)
  <2> DEFINE depth == [m \in DOMAIN f |-> m]
  <2>1. \A m \in DOMAIN f : depth[m] \in Nat
    BY <1>5
  <2>2. ASSUME NEW m \in DOMAIN f, NEW c \in f[m].kids PROVE depth[m] < depth[c]
    <3>1. PICK k \in 1..n : m = node(k)
      BY <1>2
    <3>2. c \in kids(k)
      BY <1>3, <3>1
    <3>3. PICK x \in 1..n : above(x) = k /\ c = node(x)
      BY <1>1, <3>2
    <3>4. k < x
      BY <1>6, <1>7, <3>3
    <3>5. node(k) < node(x) /\ c \in DOMAIN f
      BY <1>8, <3>4 DEF Paired
    <3> QED
      BY <3>1, <3>3, <3>5
  <2> HIDE DEF depth
  <2> QED
    BY <1>5, <1>8, <2>1, <2>2, WholeByDepth
<1>10. ASSUME NEW m \in DOMAIN f PROVE NodeOk(f, m, 2 * n)
  <2>1. PICK k \in 1..n : m = node(k)
    BY <1>2
  <2>2. m \in Nat
    BY <1>5
  <2>3. m \notin Files \cup Dirs \cup Remote
    BY <2>2, LibraryAssumption
  <2>4. 2 * k \in 1..(2 * n)
    OBVIOUS
  <2> HIDE DEF node
  <2> QED
    BY <1>3, <2>1, <2>3, <2>4 DEF NodeOk, Given
<1>11. ShownOnce(f)
  <2> SUFFICES ASSUME NEW l \in DOMAIN f, NEW m \in DOMAIN f, f[l].leaf, f[l].inst = f[m].inst
               PROVE  l = m
    BY DEF ShownOnce
  <2>1. PICK i \in 1..n, k \in 1..n : l = node(i) /\ m = node(k)
    BY <1>2
  <2>2. f[l].inst = 2 * i
    BY <1>3, <2>1
  <2>3. f[m].inst = None \/ f[m].inst = 2 * k
    BY <1>3, <2>1
  <2>4. 2 * i # None
    <3>1. 2 * i \in Nat
      OBVIOUS
    <3> QED
      BY <3>1, LibraryAssumption
  <2>5. i = k
    BY <2>2, <2>3, <2>4
  <2> QED
    BY <2>1, <2>5
<1>12. DOMAIN f \subseteq Given(Files \cup Dirs \cup Remote, 2 * n)
  BY <1>5 DEF Given
<1>13. ForestOk(f, 2 * n)
  BY <1>5, <1>9, <1>10, <1>11, <1>12 DEF ForestOk
<1>14. DOMAIN f \subseteq Nat
  BY <1>5
<1> QED
  BY <1>13, <1>14 DEF f

-----------------------------------------------------------------------------
(* The steps keep the forests. *)

LEMMA MirrorsStayIf ==
    ASSUME ForestOk(nodes', fresh'),
           \A n \in DOMAIN nodes' : n \in 1..fresh /\ nodes'[n].leaf
                                    => n \in DOMAIN nodes /\ nodes[n].leaf
    PROVE  MirrorsStay
BY DEF MirrorsStay, ForestOk, NodeOk, Given

LEMMA FreshIsNat ==
    ASSUME CountersOk
    PROVE  fresh \in Nat /\ MaxFresh[type] \in Nat /\ fresh <= MaxFresh[type]
BY LibraryAssumption DEF CountersOk

\* What a step that leaves points and tasks alone has to show.
LEMMA MaterialForest ==
    ASSUME FInv, UNCHANGED <<type, points, tree>>, fresh' \in Nat, fresh <= fresh',
           fresh' <= MaxFresh[type], InstancesOk', ForestOk(nodes', fresh'), MirrorsStay
    PROVE  FInv'
<1>1. CountersOk' /\ fresh \in Nat
  BY FreshIsNat DEF FInv, CountersOk
<1>2. TreeOk'
  BY <1>1, TreeKept DEF FInv
<1> QED
  BY <1>1, <1>2 DEF FInv

LEMMA ForestUnchanged ==
    ASSUME FInv, UNCHANGED <<type, fresh, inst, nodes>>
    PROVE  CountersOk' /\ InstancesOk' /\ ForestOk(nodes', fresh') /\ MirrorsStay
BY DEF FInv, CountersOk, InstancesOk, MirrorsStay, ForestOk

LEMMA ScanForest ==
    ASSUME FInv, NEW files, NEW dirs, Replace(files, dirs), ScanOf(files, dirs), type = "COURSE",
           UNCHANGED type
    PROVE  FInv'
<1>1. /\ UNCHANGED <<fresh, points, tree>>
      /\ inst' = Scanned(files) /\ nodes' = ForestOf(files, dirs)
  BY DEF Replace, study
<1>2. CountersOk /\ InstancesOk /\ files \in SUBSET Files
  BY DEF FInv, ScanOf
<1>3. InstancesOk' /\ ForestOk(nodes', fresh')
  BY <1>1, <1>2, ScannedInstances, ScannedForest
<1>4. MirrorsStay
  <2>1. DOMAIN nodes' \subseteq Files \cup Dirs
    BY <1>1 DEF ForestOf, ScanOf
  <2>2. \A n \in DOMAIN nodes' : n \notin 1..fresh
    BY <2>1, LibraryAssumption
  <2> QED
    BY <1>3, <2>2, MirrorsStayIf
<1> QED
  BY <1>1, <1>2, <1>3, <1>4, FreshIsNat, MaterialForest

\* an instance with a new name, or the one of a video
LEMMA InstancePut ==
    ASSUME InstancesOk, fresh \in Nat, fresh' \in Nat, fresh <= fresh', NEW i, NEW path,
           \/ i \in 1..fresh'
           \/ i \in Remote /\ path = i,
           inst' = With(inst, i, [path |-> path, present |-> TRUE])
    PROVE  InstancesOk'
<1>1. /\ DOMAIN inst' = DOMAIN inst \cup {i} /\ inst'[i].path = path
      /\ \A j \in DOMAIN inst \ {i} : inst'[j] = inst[j]
  BY DEF With
<1>2. 1..fresh \subseteq 1..fresh'
  OBVIOUS
<1>3. i \in 1..fresh' => i \notin Files \cup Remote
  BY LibraryAssumption
<1> QED
  BY <1>1, <1>2, <1>3 DEF InstancesOk, Given

LEMMA NetdiskForest ==
    ASSUME FInv, NEW v \in Remote, ImportNetdisk(v)
    PROVE  FInv'
<1>1. /\ UNCHANGED <<type, points, tree>>
      /\ inst' = With(inst, v, [path |-> v, present |-> TRUE])
      /\ fresh' <= MaxFresh[type]
  BY DEF ImportNetdisk, study
<1>2. fresh \in Nat
  BY FreshIsNat DEF FInv
<1>3. CASE fresh' = fresh /\ nodes' = nodes
  <2>1. ForestOk(nodes', fresh') /\ MirrorsStay
    BY <1>3 DEF FInv, MirrorsStay
  <2>2. InstancesOk'
    BY <1>1, <1>2, <1>3, InstancePut DEF FInv
  <2> QED
    BY <1>1, <1>2, <1>3, <2>1, <2>2, MaterialForest
<1>4. CASE /\ \A n \in DOMAIN nodes : nodes[n].inst # v
           /\ fresh' = fresh + 1
           /\ nodes' = With(With(nodes, fresh', ObjFolder(None, {v})), v, ObjLeaf(v, fresh'))
  <2> DEFINE F == fresh'
             g == Put(nodes, F, ObjFolder(None, {}))
  <2>1. F \in Nat /\ F \in 1..F /\ fresh <= F /\ F \notin DOMAIN nodes /\ F # None
    <3>1. F \in Nat /\ F \in 1..F /\ fresh <= F /\ F \notin 1..fresh
      BY <1>2, <1>4
    <3> QED
      BY <3>1, LibraryAssumption DEF FInv, ForestOk, Given
  <2>2. v \notin DOMAIN nodes /\ v # F
    <3>1. v \notin Nat
      BY LibraryAssumption
    <3> QED
      BY <1>4, <2>1, <3>1 DEF FInv, ForestOk, NodeOk
  <2>3. ForestOk(g, F) /\ DOMAIN g = DOMAIN nodes \cup {F}
    <3> HIDE DEF F
    <3> QED
      BY <1>2, <2>1, FolderStands DEF FInv
  <2>4. /\ \A n \in DOMAIN nodes : g[n] = nodes[n]
        /\ g[F] = ObjFolder(None, {}) /\ g = [n \in DOMAIN g |-> g[n]]
    <3> HIDE DEF F
    <3> QED
      BY <2>1 DEF Put, With, Adopt, ObjFolder
  <2> HIDE DEF g, F
  <2>5. ObjFolder(None, {}).leaf = FALSE /\ ObjFolder(None, {}).inst = None
    BY DEF ObjFolder
  <2>6. ForestOk(Put(g, v, ObjLeaf(v, F)), F)
    <3>1. \A n \in DOMAIN g : g[n].inst # v
      BY <1>4, <2>3, <2>4, <2>5, LibraryAssumption
    <3>2. v \notin DOMAIN g /\ F \in DOMAIN g /\ ~g[F].leaf
      BY <2>2, <2>3, <2>4, <2>5
    <3>3. v \in Given(Remote, F) /\ v \in Given(Files \cup Remote, F)
      BY DEF Given
    <3>4. F \in Nat /\ F <= F
      BY <2>1
    <3> QED
      BY <2>3, <3>1, <3>2, <3>3, <3>4, LeafStands
  <2>7. Put(g, v, ObjLeaf(v, F)) = nodes'
    <3>1. Put(g, v, ObjLeaf(v, F)) = With(Adopt(g, F, v), v, ObjLeaf(v, F))
      BY DEF Put, ObjLeaf
    <3>2. Adopt(g, F, v) = [g EXCEPT ![F].kids = @ \cup {v}]
      BY <2>1 DEF Adopt
    <3>3. [ObjFolder(None, {}) EXCEPT !.kids = @ \cup {v}] = ObjFolder(None, {v})
      <4>1. ObjFolder(None, {}).kids \cup {v} = {v}
        BY DEF ObjFolder
      <4>2. [ObjFolder(None, {}) EXCEPT !.kids = {v}] = ObjFolder(None, {v})
        <5> DEFINE r == [ObjFolder(None, {}) EXCEPT !.kids = {v}]
                   s == ObjFolder(None, {v})
        <5>1. r = [k \in NodeFields |-> r[k]] /\ s = [k \in NodeFields |-> s[k]]
          BY DEF ObjFolder, NodeFields
        <5>2. r.leaf = s.leaf /\ r.inst = s.inst /\ r.parent = s.parent /\ r.kids = s.kids
          BY DEF ObjFolder
        <5> HIDE DEF r, s
        <5>3. \A k \in NodeFields : r[k] = s[k]
          BY <5>2 DEF NodeFields
        <5>4. r = s
          BY <5>1, <5>3
        <5> QED
          BY <5>4 DEF r, s
      <4> QED
        BY <4>1, <4>2
    <3>4. [g EXCEPT ![F].kids = @ \cup {v}] = [g EXCEPT ![F] = ObjFolder(None, {v})]
      BY <2>4, <3>3
    <3>5. [g EXCEPT ![F] = ObjFolder(None, {v})] = With(nodes, F, ObjFolder(None, {v}))
      BY <2>1, <2>3, <2>4 DEF With
    <3> QED
      BY <1>4, <3>1, <3>2, <3>4, <3>5 DEF F
  <2>8. MirrorsStay
    <3>1. \A n \in DOMAIN nodes' : n \in 1..fresh => n \in DOMAIN nodes /\ nodes'[n] = nodes[n]
      <4>1. v \notin 1..fresh
        BY LibraryAssumption
      <4>2. F \notin 1..fresh
        BY <1>2, <1>4 DEF F
      <4> QED
        BY <1>4, <4>1, <4>2 DEF With, F
    <3>2. ForestOk(nodes', fresh')
      BY <2>6, <2>7 DEF F
    <3> QED
      BY <3>1, <3>2, MirrorsStayIf
  <2>9. InstancesOk'
    BY <1>1, <1>2, <2>1, InstancePut DEF FInv, F
  <2> QED
    BY <1>1, <2>1, <2>6, <2>7, <2>8, <2>9, MaterialForest DEF F
<1> QED
  BY <1>3, <1>4 DEF ImportNetdisk

LEMMA InstanceForest ==
    ASSUME FInv, NEW path, AddInstance(path)
    PROVE  FInv'
<1>1. /\ UNCHANGED <<type, points, tree, nodes>> /\ fresh' = fresh + 1 /\ fresh < MaxFresh[type]
      /\ inst' = With(inst, fresh', [path |-> path, present |-> TRUE])
  BY DEF AddInstance, study
<1>2. fresh \in Nat /\ fresh' \in Nat /\ fresh <= fresh' /\ fresh' \in 1..fresh'
      /\ fresh' <= MaxFresh[type]
  BY <1>1, FreshIsNat DEF FInv
<1>3. InstancesOk'
  BY <1>1, <1>2, InstancePut DEF FInv
<1>4. ForestOk(nodes', fresh') /\ MirrorsStay
  BY <1>1, <1>2, ForestKept DEF FInv, MirrorsStay
<1> QED
  BY <1>1, <1>2, <1>3, <1>4, MaterialForest

\* fewer instances, or the same: a remap only prunes
LEMMA InstancesKept ==
    ASSUME InstancesOk, fresh \in Nat, fresh' \in Nat, fresh <= fresh',
           DOMAIN inst' \subseteq DOMAIN inst, \A i \in DOMAIN inst' : inst'[i] = inst[i]
    PROVE  InstancesOk'
<1>1. 1..fresh \subseteq 1..fresh'
  OBVIOUS
<1> QED
  BY <1>1 DEF InstancesOk, Given

LEMMA LeafForest ==
    ASSUME FInv, NEW i, NEW up, AddLeaf(i, up)
    PROVE  FInv'
<1>1. /\ UNCHANGED <<type, points, tree, inst>> /\ fresh' = fresh + 1 /\ fresh < MaxFresh[type]
      /\ i \in DOMAIN inst /\ \A n \in DOMAIN nodes : nodes[n].inst # i
      /\ up \in Folders \cup {None}
      /\ nodes' = With(Adopt(nodes, up, fresh'), fresh', ObjLeaf(i, up))
  BY DEF AddLeaf, study
<1>2. fresh \in Nat /\ fresh' \in Nat /\ fresh <= fresh' /\ fresh' \in 1..fresh'
      /\ fresh' <= MaxFresh[type] /\ 1..fresh \subseteq 1..fresh' /\ fresh' \notin 1..fresh
  BY <1>1, FreshIsNat DEF FInv
<1>3. InstancesOk'
  BY <1>1, <1>2, InstancesKept DEF FInv
<1> DEFINE F == fresh'
<1>4. F \notin DOMAIN nodes /\ F \notin Remote
  BY <1>2, LibraryAssumption DEF FInv, ForestOk, Given
<1>5. i \in Given(Files \cup Remote, F) /\ F \in Given(Remote, F)
  BY <1>1, <1>2 DEF FInv, InstancesOk, Given
<1>6. up # None => up \in DOMAIN nodes /\ ~nodes[up].leaf
  BY <1>1 DEF Folders
<1>7. ForestOk(Put(nodes, F, ObjLeaf(i, up)), F)
  <2>1. ForestOk(nodes, fresh) /\ F \in Nat /\ fresh <= F
    BY <1>2 DEF FInv
  <2> HIDE DEF F
  <2> QED
    BY <1>1, <1>2, <1>4, <1>5, <1>6, <2>1, LeafStands
<1>8. Put(nodes, F, ObjLeaf(i, up)) = nodes'
  BY <1>1 DEF Put, ObjLeaf
<1>9. MirrorsStay
  <2>1. DOMAIN nodes' = DOMAIN nodes \cup {F}
    BY <1>1 DEF With, Adopt
  <2>2. \A n \in DOMAIN nodes : nodes'[n].leaf = nodes[n].leaf
    <3>1. \A n \in DOMAIN nodes : DOMAIN nodes[n] = NodeFields
      BY DEF FInv, ForestOk, NodeOk
    <3>2. \A n \in DOMAIN nodes : nodes'[n] = Adopt(nodes, up, F)[n]
      BY <1>1, <1>4, <2>1 DEF With
    <3> QED
      BY <3>1, <3>2, AdoptFacts
  <2> QED
    BY <1>2, <1>7, <1>8, <2>1, <2>2, MirrorsStayIf
<1> QED
  BY <1>1, <1>2, <1>3, <1>7, <1>8, <1>9, MaterialForest

LEMMA ContainerForest ==
    ASSUME FInv, NEW up, NEW kids, AddContainer(up, kids)
    PROVE  FInv'
<1> DEFINE F == fresh'
           moved == [n \in DOMAIN nodes |->
                       IF n \in kids THEN [nodes[n] EXCEPT !.parent = F]
                       ELSE [nodes[n] EXCEPT !.kids = @ \ kids]]
           f == Adopt(moved, up, F)
<1>1. /\ UNCHANGED <<type, points, tree, inst>> /\ fresh' = fresh + 1 /\ fresh < MaxFresh[type]
      /\ up \in Folders \cup {None} /\ Whole(nodes')
      /\ nodes' = With(f, F, ObjFolder(up, kids))
  BY DEF AddContainer, Gather, study
<1>2. fresh \in Nat /\ fresh' \in Nat /\ fresh <= fresh' /\ fresh' \in 1..fresh'
      /\ fresh' <= MaxFresh[type] /\ 1..fresh \subseteq 1..fresh' /\ fresh' \notin 1..fresh
  BY <1>1, FreshIsNat DEF FInv
<1>3. InstancesOk'
  BY <1>1, <1>2, InstancesKept DEF FInv
<1>4. F \notin DOMAIN nodes /\ F \notin Remote \cup Files \cup Dirs
  BY <1>2, LibraryAssumption DEF FInv, ForestOk, Given
<1>5. ForestOk(nodes, F)
  BY <1>2, ForestKept DEF FInv
<1>6. /\ DOMAIN moved = DOMAIN nodes
      /\ \A m \in DOMAIN nodes : /\ DOMAIN moved[m] = NodeFields
                                 /\ moved[m].leaf = nodes[m].leaf
                                 /\ moved[m].inst = nodes[m].inst
                                 /\ nodes[m].kids = {} => moved[m].kids = {}
  BY <1>5 DEF ForestOk, NodeOk, NodeFields
<1> HIDE DEF moved
<1>7. /\ DOMAIN f = DOMAIN nodes
      /\ \A m \in DOMAIN nodes : /\ DOMAIN f[m] = NodeFields
                                 /\ f[m].leaf = nodes[m].leaf /\ f[m].inst = nodes[m].inst
                                 /\ nodes[m].leaf => f[m].kids = {}
  <2>1. /\ DOMAIN f = DOMAIN nodes
        /\ \A m \in DOMAIN nodes : /\ DOMAIN f[m] = NodeFields
                                   /\ f[m].leaf = nodes[m].leaf /\ f[m].inst = nodes[m].inst
    BY <1>6, AdoptFacts
  <2>2. ASSUME NEW m \in DOMAIN nodes, nodes[m].leaf PROVE f[m].kids = {}
    <3>1. moved[m].kids = {}
      BY <1>5, <1>6, <2>2 DEF ForestOk, NodeOk
    <3>2. up = None \/ m # up
      BY <1>1, <2>2 DEF Folders
    <3>3. f[m] = moved[m]
      BY <1>6, <3>2 DEF Adopt
    <3> QED
      BY <3>1, <3>3
  <2> QED
    BY <2>1, <2>2
<1> HIDE DEF f
<1>8. /\ DOMAIN nodes' = DOMAIN nodes \cup {F} /\ nodes'[F] = ObjFolder(up, kids)
      /\ \A m \in DOMAIN nodes : nodes'[m] = f[m]
  BY <1>1, <1>4, <1>7 DEF With
<1>9. DOMAIN nodes'[F] = NodeFields /\ nodes'[F].leaf = FALSE /\ nodes'[F].inst = None
  BY <1>8 DEF ObjFolder, NodeFields
<1>10. ForestOk(nodes', F)
  <2>1. IsFiniteSet(DOMAIN nodes')
    BY <1>5, <1>8, FS_AddElement DEF ForestOk
  <2>2. DOMAIN nodes' \subseteq Given(Files \cup Dirs \cup Remote, F)
    BY <1>2, <1>5, <1>8 DEF ForestOk, Given
  <2>3. ASSUME NEW n \in DOMAIN nodes' PROVE NodeOk(nodes', n, F)
    <3>1. CASE n \in DOMAIN nodes
      <4>1. NodeOk(nodes, n, F)
        BY <1>5, <3>1 DEF ForestOk
      <4> QED
        BY <1>7, <1>8, <3>1, <4>1 DEF NodeOk
    <3>2. CASE n = F
      BY <1>4, <1>9, <3>2 DEF NodeOk
    <3> QED
      BY <1>8, <3>1, <3>2
  <2>4. ShownOnce(nodes')
    <3>1. \A n \in DOMAIN nodes : nodes[n].leaf => nodes[n].inst # None
      BY <1>5, LibraryAssumption DEF ForestOk, NodeOk, Given
    <3> QED
      BY <1>5, <1>7, <1>8, <1>9, <3>1 DEF ForestOk, ShownOnce
  <2> QED
    BY <1>1, <2>1, <2>2, <2>3, <2>4 DEF ForestOk
<1>11. MirrorsStay
  BY <1>2, <1>7, <1>8, <1>10, MirrorsStayIf
<1> QED
  BY <1>1, <1>2, <1>3, <1>10, <1>11, MaterialForest

LEMMA BookForest ==
    ASSUME FInv, NEW d, InitializeBook(d)
    PROVE  FInv'
<1>1. /\ UNCHANGED <<type, points, tree>> /\ fresh = 0 /\ fresh' = 2 * Len(d)
      /\ nodes' = OutlineForest(d)
      /\ inst' = [i \in {nodes'[n].inst : n \in DOMAIN nodes'} \ {None} |->
                    [path |-> i, present |-> TRUE]]
  BY DEF InitializeBook, study
<1>2. PICK n \in 1..(MaxFresh[type] \div 2) : d \in Outlines(n)
  BY DEF InitializeBook
<1>3. MaxFresh[type] \in Nat /\ n \in Nat /\ 2 * n <= MaxFresh[type] /\ fresh \in Nat
  BY FreshIsNat DEF FInv
<1>4. Len(d) = n
  <2>1. d \in [1..n -> 0..(n - 1)]
    BY <1>2 DEF Outlines
  <2>2. d \in Seq(0..(n - 1)) /\ DOMAIN d = 1..n
    BY <1>3, <2>1
  <2> QED
    BY <1>3, <2>2
<1>5. fresh' = 2 * n /\ fresh' \in Nat /\ fresh <= fresh' /\ fresh' <= MaxFresh[type]
  BY <1>1, <1>3, <1>4
<1>6. ForestOk(nodes', fresh') /\ DOMAIN nodes' \subseteq Nat
  BY <1>1, <1>2, <1>3, <1>5, OutlineForestOk
<1>7. MirrorsStay
  <2>1. 1..fresh = {}
    BY <1>1
  <2> QED
    BY <1>6, <2>1, MirrorsStayIf
<1>8. InstancesOk'
  <2>1. DOMAIN inst' \subseteq Given(Files \cup Remote, fresh')
    <3>1. \A m \in DOMAIN nodes' : nodes'[m].inst # None
                                   => nodes'[m].inst \in Given(Files \cup Remote, fresh')
      BY <1>6 DEF ForestOk, NodeOk
    <3> QED
      BY <1>1, <3>1
  <2> QED
    BY <1>1, <2>1 DEF InstancesOk
<1> QED
  BY <1>1, <1>5, <1>6, <1>7, <1>8, MaterialForest

LEMMA InboxForest ==
    ASSUME FInv, Inbox
    PROVE  /\ fresh \in Nat /\ fresh' \in Nat /\ fresh <= fresh'
           /\ CountersOk' /\ InstancesOk' /\ ForestOk(nodes', fresh') /\ MirrorsStay
<1>1. fresh \in Nat
  BY FreshIsNat DEF FInv
<1>2. /\ fresh + 2 <= MaxFresh[type] /\ fresh' = fresh + 2 /\ UNCHANGED type
      /\ inst' = With(inst, fresh + 1, [path |-> fresh + 1, present |-> TRUE])
      /\ nodes' = With(nodes, fresh + 2, ObjLeaf(fresh + 1, None))
  BY DEF Inbox
<1> DEFINE F == fresh + 2
           i == fresh + 1
<1>4. F \in Nat /\ i \in Nat /\ fresh <= F /\ F \in 1..F /\ i \in 1..F /\ F \notin 1..fresh
  BY <1>1
<1>5. CountersOk'
  BY <1>2, <1>4, FreshIsNat DEF FInv, CountersOk
<1>6. InstancesOk'
  BY <1>1, <1>2, <1>4, InstancePut DEF FInv
<1>7. F \notin DOMAIN nodes /\ F \notin Remote
  BY <1>4, LibraryAssumption DEF FInv, ForestOk, Given
<1>8. \A n \in DOMAIN nodes : nodes[n].inst # i
  <2>1. i # None /\ i \notin Files \cup Remote
    BY <1>4, LibraryAssumption
  <2>2. i \notin 1..fresh
    BY <1>1
  <2>3. i \notin Given(Files \cup Remote, fresh)
    BY <2>1, <2>2 DEF Given
  <2> HIDE DEF i
  <2> QED
    BY <2>1, <2>3 DEF FInv, ForestOk, NodeOk
<1>9. i \in Given(Files \cup Remote, F) /\ F \in Given(Remote, F) /\ ForestOk(nodes, fresh)
  BY <1>4 DEF Given, FInv
<1>10. nodes' = Put(nodes, F, ObjLeaf(i, None))
  BY <1>2 DEF Put, ObjLeaf, Adopt
<1>11. ForestOk(nodes', F)
  <2> HIDE DEF F, i
  <2> QED
    BY <1>1, <1>4, <1>7, <1>8, <1>9, <1>10, LeafStands
<1>12. MirrorsStay
  <2>1. ForestOk(nodes', fresh')
    BY <1>2, <1>11
  <2>2. \A n \in DOMAIN nodes' : n \in 1..fresh => n \in DOMAIN nodes /\ nodes'[n] = nodes[n]
    BY <1>2, <1>4 DEF With
  <2> QED
    BY <2>1, <2>2, MirrorsStayIf
<1> QED
  BY <1>1, <1>2, <1>4, <1>5, <1>6, <1>11, <1>12

LEMMA WithInboxForest ==
    ASSUME FInv, WithInbox
    PROVE  /\ fresh \in Nat /\ fresh' \in Nat /\ fresh <= fresh'
           /\ CountersOk' /\ InstancesOk' /\ ForestOk(nodes', fresh') /\ MirrorsStay
<1>1. CASE UNCHANGED library
  <2>1. UNCHANGED <<type, fresh, inst, nodes>>
    BY <1>1 DEF library
  <2>2. fresh \in Nat
    BY FreshIsNat DEF FInv
  <2> QED
    BY <2>1, <2>2, ForestUnchanged
<1> QED
  BY <1>1, InboxForest DEF WithInbox

-----------------------------------------------------------------------------
(* The links of the task tree. *)

LEMMA MadeFacts ==
    ASSUME FInv
    PROVE  /\ DOMAIN MirrorsMade = DOMAIN tree \cup {m \in DOMAIN nodes : Eligible(m)}
           /\ \A n \in DOMAIN MirrorsMade :
                 /\ DOMAIN MirrorsMade[n] = TaskFields
                 /\ MirrorsMade[n].leaf \in BOOLEAN
                 /\ MirrorsMade[n].leaf => n \in DOMAIN tree /\ MirrorsMade[n] = tree[n]
                 /\ ~MirrorsMade[n].leaf =>
                       /\ n \in Given(Dirs, fresh) /\ (n \in DOMAIN nodes => ~nodes[n].leaf)
                       /\ n \in DOMAIN nodes \/ n \in Mirrors
                       /\ n \in Mirrors => /\ MirrorsMade[n].parent = tree[n].parent
                                           /\ MirrorsMade[n].kids = tree[n].kids
<1>1. DOMAIN MirrorsMade = DOMAIN tree \cup {m \in DOMAIN nodes : Eligible(m)}
  BY DEF MirrorsMade
<1> SUFFICES ASSUME NEW n \in DOMAIN MirrorsMade
             PROVE  /\ DOMAIN MirrorsMade[n] = TaskFields
                    /\ MirrorsMade[n].leaf \in BOOLEAN
                    /\ MirrorsMade[n].leaf => n \in DOMAIN tree /\ MirrorsMade[n] = tree[n]
                    /\ ~MirrorsMade[n].leaf =>
                          /\ n \in Given(Dirs, fresh) /\ (n \in DOMAIN nodes => ~nodes[n].leaf)
                          /\ n \in DOMAIN nodes \/ n \in Mirrors
                          /\ n \in Mirrors => /\ MirrorsMade[n].parent = tree[n].parent
                                              /\ MirrorsMade[n].kids = tree[n].kids
  BY <1>1
<1>2. CASE n \notin DOMAIN tree
  <2>1. n \in DOMAIN nodes /\ ~nodes[n].leaf
    BY <1>1, <1>2 DEF Eligible
  <2>2. n \in Given(Dirs, fresh)
    BY <2>1 DEF FInv, ForestOk, NodeOk, Given
  <2>3. MirrorsMade[n] = [leaf |-> FALSE, parent |-> None, kids |-> {}, orphan |-> FALSE]
    BY <1>2 DEF MirrorsMade
  <2>4. MirrorsMade[n].leaf = FALSE /\ DOMAIN MirrorsMade[n] = TaskFields
    BY <2>3 DEF TaskFields
  <2> QED
    BY <1>2, <2>1, <2>2, <2>4 DEF Mirrors
<1>3. CASE n \in DOMAIN tree
  <2>1. TaskOk(n)
    BY <1>3 DEF FInv, TreeOk
  <2>2. CASE tree[n].leaf
    <3>1. MirrorsMade[n] = tree[n]
      BY <1>3, <2>2 DEF MirrorsMade
    <3> QED
      BY <1>3, <2>1, <2>2, <3>1 DEF TaskOk
  <2>3. CASE ~tree[n].leaf
    <3>1. MirrorsMade[n] = [tree[n] EXCEPT !.orphan = n \notin DOMAIN nodes]
      BY <1>3, <2>3 DEF MirrorsMade
    <3>2. /\ DOMAIN MirrorsMade[n] = TaskFields /\ MirrorsMade[n].leaf = tree[n].leaf
          /\ MirrorsMade[n].parent = tree[n].parent /\ MirrorsMade[n].kids = tree[n].kids
      BY <2>1, <3>1 DEF TaskOk, TaskFields
    <3> QED
      BY <1>3, <2>1, <2>3, <3>2 DEF TaskOk, Mirrors
  <2> QED
    BY <2>2, <2>3
<1> QED
  BY <1>2, <1>3

\* the mirrors whose folder is there
ShownMirrors == {n \in DOMAIN MirrorsMade \cap DOMAIN nodes : ~MirrorsMade[n].leaf}

LEMMA LinkedFields ==
    ASSUME FInv
    PROVE  /\ DOMAIN Linked = DOMAIN MirrorsMade
           /\ \A n \in DOMAIN Linked :
                 /\ DOMAIN Linked[n] = TaskFields
                 /\ Linked[n].leaf = MirrorsMade[n].leaf
                 /\ n \notin ShownMirrors => Linked[n] = MirrorsMade[n]
<1>1. DOMAIN Linked = DOMAIN MirrorsMade
  BY DEF Linked
<1>2. ASSUME NEW n \in DOMAIN Linked, n \notin ShownMirrors PROVE Linked[n] = MirrorsMade[n]
  BY <1>1, <1>2 DEF Linked, ShownMirrors
<1>3. ASSUME NEW n \in DOMAIN Linked, n \in ShownMirrors
      PROVE  \E p, s : Linked[n] = [MirrorsMade[n] EXCEPT !.parent = p, !.kids = s]
  BY <1>1, <1>3, Zenon DEF Linked, ShownMirrors
<1>4. ASSUME NEW n \in DOMAIN Linked
      PROVE  DOMAIN Linked[n] = TaskFields /\ Linked[n].leaf = MirrorsMade[n].leaf
  <2>1. DOMAIN MirrorsMade[n] = TaskFields
    BY <1>1, MadeFacts
  <2>2. CASE n \in ShownMirrors
    <3>1. PICK p, s : Linked[n] = [MirrorsMade[n] EXCEPT !.parent = p, !.kids = s]
      BY <1>3, <2>2
    <3> QED
      BY <2>1, <3>1 DEF TaskFields
  <2>3. CASE n \notin ShownMirrors
    BY <1>2, <2>1, <2>3
  <2> QED
    BY <2>2, <2>3
<1> QED
  BY <1>1, <1>2, <1>4

LEMMA LinksForest ==
    ASSUME FInv, tree' = Linked, Whole(tree'), UNCHANGED <<type, fresh, inst, nodes, points>>
    PROVE  FInv'
<1>1. CountersOk' /\ InstancesOk' /\ ForestOk(nodes', fresh')
  BY ForestUnchanged
<1>2. IsFiniteSet(DOMAIN tree')
  <2>1. IsFiniteSet({m \in DOMAIN nodes : Eligible(m)})
    BY FS_Subset DEF FInv, ForestOk
  <2>2. IsFiniteSet(DOMAIN tree)
    BY DEF FInv, TreeOk
  <2>3. DOMAIN tree' = DOMAIN tree \cup {m \in DOMAIN nodes : Eligible(m)}
    BY LinkedFields, MadeFacts
  <2> QED
    BY <2>1, <2>2, <2>3, FS_Union
<1>3. ASSUME NEW n \in DOMAIN tree' PROVE TaskOk(n)'
  <2>1. n \in DOMAIN MirrorsMade /\ DOMAIN tree'[n] = TaskFields
        /\ tree'[n].leaf = MirrorsMade[n].leaf /\ tree'[n].leaf \in BOOLEAN
    BY LinkedFields, MadeFacts
  <2>2. CASE MirrorsMade[n].leaf
    <3>1. n \in DOMAIN tree /\ MirrorsMade[n] = tree[n]
      BY <2>1, <2>2, MadeFacts
    <3>2. n \notin ShownMirrors
      BY <2>2 DEF ShownMirrors
    <3>3. tree'[n] = tree[n]
      BY <2>1, <3>1, <3>2, LinkedFields
    <3>4. TaskOk(n)
      BY <3>1 DEF FInv, TreeOk
    <3> QED
      BY <2>1, <2>2, <3>1, <3>3, <3>4 DEF TaskOk
  <2>3. CASE ~MirrorsMade[n].leaf
    <3>1. n \in Given(Dirs, fresh) /\ (n \in DOMAIN nodes => ~nodes[n].leaf)
      BY <2>1, <2>3, MadeFacts
    <3> QED
      BY <2>1, <2>3, <3>1 DEF TaskOk, Given
  <2> QED
    BY <2>2, <2>3
<1>4. TreeOk'
  BY <1>2, <1>3 DEF FInv, TreeOk
<1> QED
  BY <1>1, <1>4 DEF FInv

\* a mirror has mirrors below it
LEMMA KidsAreMirrors ==
    ASSUME TreeOk, None \notin DOMAIN tree, NEW n \in DOMAIN tree, NEW c \in tree[n].kids
    PROVE  c \in Mirrors
<1>1. Paired(tree)
  BY WholeFacts DEF TreeOk
<1>2. c \in DOMAIN tree /\ tree[c].parent = n /\ n # None
  BY <1>1 DEF Paired
<1> QED
  BY <1>2 DEF TreeOk, TaskOk, Mirrors

-----------------------------------------------------------------------------
LEMMA InitFInv == Init => FInv
<1> SUFFICES ASSUME Init PROVE FInv
  OBVIOUS
<1>1. /\ DOMAIN inst = {} /\ DOMAIN nodes = {} /\ DOMAIN points = {} /\ DOMAIN tree = {}
      /\ fresh = 0 /\ type \in DOMAIN MaxFresh
  BY DEF Init
<1>2. MaxFresh[type] \in Nat
  BY <1>1, LibraryAssumption
<1> QED
  BY <1>1, <1>2, FS_EmptySet
     DEF FInv, CountersOk, InstancesOk, ForestOk, ShownOnce, TreeOk, Whole

LEMMA StepFInv == FInv /\ [Next]_vars => FInv'
<1> SUFFICES ASSUME FInv, [Next]_vars PROVE FInv'
  OBVIOUS
<1> USE DEF study, library, other
<1>1. ASSUME UNCHANGED <<type, fresh, inst, nodes, tree>>, DOMAIN points' = DOMAIN points
      PROVE  FInv'
  BY <1>1, ForestUnchanged, PointTreeKept DEF FInv
<1>2. CASE \E found \in OnDisk : SyncFromFs(found)
  <2>1. PICK found \in OnDisk : SyncFromFs(found)
    BY <1>2
  <2>2. /\ type = "COURSE" /\ Replace(found \cap Files, found \cap Dirs)
    BY <2>1 DEF SyncFromFs
  <2>3. ScanOf(found \cap Files, found \cap Dirs)
    BY LibraryAssumption DEF ScanOf, OnDisk
  <2>4. UNCHANGED type
    BY <2>2 DEF Replace
  <2> QED
    BY <2>2, <2>3, <2>4, ScanForest
<1>3. CASE \E files \in SUBSET Files : ImportBrowserScan(files)
  <2>1. PICK files \in SUBSET Files : ImportBrowserScan(files)
    BY <1>3
  <2>2. /\ type = "COURSE" /\ files # {}
        /\ Replace(files, UNION {Ancestors(f) : f \in files})
    BY <2>1 DEF ImportBrowserScan
  <2>3. UNCHANGED type
    BY <2>2 DEF Replace
  <2> QED
    BY <2>2, <2>3, BrowserScan, ScanForest
<1>4. CASE \E v \in Remote : ImportNetdisk(v)
  BY <1>4, NetdiskForest
<1>5. CASE \E kind \in {"SERVER_FS", "MANUAL"} : SetSourceBinding(kind)
  BY <1>1, <1>5 DEF SetSourceBinding
<1>6. CASE \E path \in Files \cup {fresh + 1} : AddInstance(path)
  BY <1>6, InstanceForest
<1>7. CASE \E i \in DOMAIN inst, up \in DOMAIN nodes \cup {None} : AddLeaf(i, up)
  BY <1>7, LeafForest
<1>8. CASE \E up \in Folders \cup {None}, kids \in SUBSET DOMAIN nodes : AddContainer(up, kids)
  BY <1>8, ContainerForest
<1>9. CASE \E d : InitializeBook(d)
  BY <1>9, BookForest
<1>10. CASE EnsureInbox
  <2>1. Inbox /\ UNCHANGED <<points, tree>>
    BY <1>10 DEF EnsureInbox
  <2>2. TreeOk'
    BY <2>1, InboxForest, TreeKept DEF FInv
  <2> QED
    BY <2>1, <2>2, InboxForest DEF FInv
<1>11. CASE \E t \in Threads, p \in Points : Collect(t, p)
  <2>1. PICK t \in Threads, p \in Points : Collect(t, p)
    BY <1>11
  <2>2. WithInbox
    BY <2>1 DEF Collect
  <2>3. PICK n \in DOMAIN nodes' : Submitted(p, nodes'[n].inst, reading[t])
    BY <2>1 DEF Collect
  <2>4. TreeOk'
    BY <2>2, <2>3, WithInboxForest, SubmittedTree DEF FInv
  <2> QED
    BY <2>2, <2>4, WithInboxForest DEF FInv
<1>12. CASE \E t \in Threads : GiveUp(t) \/ \E s \in Sources : ReadOrigin(t, s)
  BY <1>1, <1>12 DEF GiveUp, ReadOrigin
<1>13. CASE \E s \in Sources : OriginDeletes(s)
  BY <1>1, <1>13 DEF OriginDeletes
<1>14. CASE \E p \in Points, i \in DOMAIN inst : SubmitLearningTask(p, i)
  <2>1. PICK p \in Points, i \in DOMAIN inst : SubmitLearningTask(p, i)
    BY <1>14
  <2>2. UNCHANGED <<type, fresh, inst, nodes>> /\ Submitted(p, i, None)
    BY <2>1 DEF SubmitLearningTask
  <2>3. fresh \in Nat /\ fresh' \in Nat /\ fresh <= fresh'
    BY <2>2, FreshIsNat DEF FInv
  <2>4. TreeOk'
    BY <2>2, <2>3, ForestUnchanged, SubmittedTree DEF FInv
  <2> QED
    BY <2>2, <2>4, ForestUnchanged DEF FInv
<1>15. CASE \E p \in Points : DeleteRecallPoint(p) \/ \E i \in DOMAIN inst : EditRecallPoint(p, i)
  BY <1>1, <1>15 DEF DeleteRecallPoint, EditRecallPoint
<1>16. CASE \E from, to \in DOMAIN inst : \E moved \in SUBSET ActiveAt(from) :
               Remap(from, to, moved)
  <2>1. PICK from \in DOMAIN inst, to \in DOMAIN inst : \E moved \in SUBSET ActiveAt(from) :
               Remap(from, to, moved)
    BY <1>16
  <2>2. PICK moved \in SUBSET ActiveAt(from) : Remap(from, to, moved)
    BY <2>1
  <2>3. /\ UNCHANGED <<type, fresh, nodes, tree>>
        /\ DOMAIN points' = DOMAIN points
        /\ DOMAIN inst' \subseteq DOMAIN inst /\ \A i \in DOMAIN inst' : inst'[i] = inst[i]
    BY <2>2 DEF Remap
  <2>4. fresh \in Nat /\ fresh' \in Nat /\ fresh <= fresh'
    BY <2>3, FreshIsNat DEF FInv
  <2>5. InstancesOk'
    BY <2>3, <2>4, InstancesKept DEF FInv
  <2>6. TreeOk'
    BY <2>3, PointTreeKept DEF FInv
  <2> QED
    BY <2>3, <2>5, <2>6 DEF FInv, CountersOk
<1>17. CASE RegisterFolder \/ TickAfterScan
  BY <1>17, LinksForest DEF RegisterFolder, TickAfterScan
<1>18. CASE UNCHANGED vars
  BY <1>1, <1>18 DEF vars
<1>19. CASE \E forest \in Materials : InitializeBookFromMaterial(forest)
  BY <1>9, <1>19 DEF InitializeBookFromMaterial
<1> QED
  BY <1>2, <1>3, <1>4, <1>5, <1>6, <1>7, <1>8, <1>9, <1>10, <1>11, <1>12, <1>13, <1>14,
     <1>15, <1>16, <1>17, <1>18, <1>19 DEF Next

LEMMA SpecFInv == Spec => []FInv
<1> QED
  BY InitFInv, StepFInv, PTL DEF Spec

LEMMA NoneIsNoNode ==
    ASSUME FInv
    PROVE  None \notin DOMAIN nodes /\ None \notin DOMAIN tree
<1>1. None \notin DOMAIN nodes
  BY LibraryAssumption DEF FInv, ForestOk, Given
<1>2. None \notin DOMAIN tree
  BY LibraryAssumption DEF FInv, TreeOk, TaskOk, Given
<1> QED
  BY <1>1, <1>2

\* No scan, import, outline, entry by hand, collection or roll-up leaves a forest its
\* validator would refuse, a file shown twice or a point without its instance
\* (_validate_learning_object_tree_consistency).
THEOREM ForestsStayWhole == Spec => []ProjectIsWhole
<1>1. ASSUME PointsOk, FInv PROVE ProjectIsWhole
  <2>1. PointsAreAnchored
    BY <1>1 DEF PointsOk, PointRow, PointsAreAnchored
  <2>2. Whole(nodes) /\ Whole(tree) /\ ShownOnce(nodes)
    BY <1>1 DEF FInv, ForestOk, TreeOk
  <2>3. OneKind
    <3>1. \A n \in DOMAIN tree : \A c \in tree[n].kids : c \in Mirrors
      BY <1>1, KidsAreMirrors, NoneIsNoNode DEF FInv
    <3>2. \A c \in Mirrors : tree[c].leaf = FALSE
      BY <1>1 DEF FInv, TreeOk, TaskOk, Mirrors
    <3> QED
      BY <3>1, <3>2 DEF OneKind
  <2> QED
    BY <2>1, <2>2, <2>3 DEF ProjectIsWhole, ShownOnce
<1> QED
  BY <1>1, SpecIInv, SpecFInv, PTL DEF IInv

-----------------------------------------------------------------------------
(* Walking a whole forest up and down. *)

WholeForest(f) == IsFiniteSet(DOMAIN f) /\ Whole(f)

\* What holds of a node if it holds of its children holds of all.
LEMMA BottomUp ==
    ASSUME NEW f, WholeForest(f), NEW S,
           \A n \in DOMAIN f : (\A c \in f[n].kids : c \in S) => n \in S
    PROVE  DOMAIN f \subseteq S
<1>1. /\ \A n \in DOMAIN f : Weight(f, n) \in Nat
      /\ \A n \in DOMAIN f : \A c \in f[n].kids : c \in DOMAIN f /\ Weight(f, c) < Weight(f, n)
  <2>1. Cardinality(DOMAIN f) \in Nat
    BY FS_CardinalityType DEF WholeForest
  <2> QED
    BY <2>1, WholeFacts DEF WholeForest, Paired
<1> DEFINE T == {k \in Nat : \A n \in DOMAIN f : Weight(f, n) < k => n \in S}
<1>2. 0 \in T
  BY <1>1
<1>3. ASSUME NEW k \in Nat, k \in T PROVE k + 1 \in T
  <2>1. ASSUME NEW n \in DOMAIN f, Weight(f, n) < k + 1 PROVE n \in S
    <3>1. \A c \in f[n].kids : c \in DOMAIN f /\ Weight(f, c) < k
      BY <1>1, <2>1
    <3> QED
      BY <1>3, <3>1
  <2> QED
    BY <2>1
<1>4. Nat \subseteq T
  <2> HIDE DEF T
  <2> QED
    BY <1>2, <1>3, Counting
<1>5. ASSUME NEW n \in DOMAIN f PROVE n \in S
  <2>1. Weight(f, n) + 1 \in T /\ Weight(f, n) < Weight(f, n) + 1
    BY <1>1, <1>4
  <2> QED
    BY <2>1
<1> QED
  BY <1>5

\* What holds of a node if it holds of its parent holds of all.
LEMMA TopDown ==
    ASSUME NEW f, WholeForest(f), NEW S,
           \A n \in DOMAIN f : (f[n].parent # None => f[n].parent \in S) => n \in S
    PROVE  DOMAIN f \subseteq S
<1> DEFINE N == Cardinality(DOMAIN f)
<1>1. /\ N \in Nat
      /\ \A n \in DOMAIN f : Weight(f, n) \in 0..N
      /\ \A n \in DOMAIN f : f[n].parent # None =>
            f[n].parent \in DOMAIN f /\ Weight(f, n) < Weight(f, f[n].parent)
  <2>1. N \in Nat
    BY FS_CardinalityType DEF WholeForest
  <2> QED
    BY <2>1, WholeFacts DEF WholeForest, Paired
<1> HIDE DEF N
<1> DEFINE T == {k \in Nat : \A n \in DOMAIN f : N - Weight(f, n) < k => n \in S}
<1>2. 0 \in T
  BY <1>1
<1>3. ASSUME NEW k \in Nat, k \in T PROVE k + 1 \in T
  <2>1. ASSUME NEW n \in DOMAIN f, N - Weight(f, n) < k + 1 PROVE n \in S
    <3>1. CASE f[n].parent # None
      <4>1. /\ f[n].parent \in DOMAIN f /\ Weight(f, n) < Weight(f, f[n].parent)
            /\ Weight(f, n) \in 0..N /\ Weight(f, f[n].parent) \in 0..N
        BY <1>1, <3>1
      <4>2. N - Weight(f, f[n].parent) < k
        BY <1>1, <2>1, <4>1
      <4> QED
        BY <1>3, <4>1, <4>2
    <3>2. CASE f[n].parent = None
      BY <3>2
    <3> QED
      BY <3>1, <3>2
  <2> QED
    BY <2>1
<1>4. Nat \subseteq T
  <2> HIDE DEF T
  <2> QED
    BY <1>2, <1>3, Counting
<1>5. ASSUME NEW n \in DOMAIN f PROVE n \in S
  <2>1. Weight(f, n) \in 0..N
    BY <1>1
  <2>2. N + 1 \in T /\ N - Weight(f, n) < N + 1
    BY <1>1, <1>4, <2>1
  <2> QED
    BY <2>2
<1> QED
  BY <1>5

\* Functions of a node that ask for their value at its children, or its parent.
FromChildren(f, D, Y, step) ==
    /\ Y # {} /\ step \in [D \X [D -> Y] -> Y]
    /\ \A n \in D : \A g, h \in [D -> Y] :
          (\A c \in f[n].kids : g[c] = h[c]) => step[<<n, g>>] = step[<<n, h>>]

LEMMA BottomUpRecursion ==
    ASSUME NEW f, WholeForest(f), NEW D, D = DOMAIN f,
           NEW Y, NEW step, FromChildren(f, D, Y, step)
    PROVE  \E g \in [D -> Y] : \A n \in D : g[n] = step[<<n, g>>]
<1> DEFINE N == Cardinality(D)
           rank == [n \in D |-> Weight(f, n)]
<1>1. N \in Nat /\ rank \in [D -> 0..N]
  <2>1. N \in Nat
    BY FS_CardinalityType DEF WholeForest
  <2> QED
    BY <2>1, WholeFacts DEF WholeForest
<1>2. \A n \in D : \A c \in f[n].kids : c \in D /\ rank[c] < rank[n]
  BY WholeFacts DEF WholeForest, Paired
<1> HIDE DEF N, rank
<1>3. ASSUME NEW n \in D, NEW g \in [D -> Y], NEW h \in [D -> Y],
             \A y \in D : rank[y] < rank[n] => g[y] = h[y]
      PROVE  step[<<n, g>>] = step[<<n, h>>]
  <2>1. \A c \in f[n].kids : g[c] = h[c]
    BY <1>2, <1>3
  <2> QED
    BY <2>1 DEF FromChildren
<1>4. Ranked(D, Y, N, rank, step)
  BY <1>1, <1>3 DEF FromChildren, Ranked
<1> QED
  BY <1>4, RankedRecursion

FromParent(f, D, Y, step) ==
    /\ Y # {} /\ step \in [D \X [D -> Y] -> Y]
    /\ \A n \in D : \A g, h \in [D -> Y] :
          (f[n].parent # None => g[f[n].parent] = h[f[n].parent])
          => step[<<n, g>>] = step[<<n, h>>]

LEMMA TopDownRecursion ==
    ASSUME NEW f, WholeForest(f), NEW D, D = DOMAIN f,
           NEW Y, NEW step, FromParent(f, D, Y, step)
    PROVE  \E g \in [D -> Y] : \A n \in D : g[n] = step[<<n, g>>]
<1> DEFINE N == Cardinality(D)
           rank == [n \in D |-> N - Weight(f, n)]
<1>1. N \in Nat
  BY FS_CardinalityType DEF WholeForest
<1>2. \A n \in D : Weight(f, n) \in 0..N
  BY WholeFacts DEF WholeForest
<1>3. rank \in [D -> 0..N]
  <2>1. \A n \in D : N - Weight(f, n) \in 0..N
    <3> HIDE DEF N
    <3> QED
      BY <1>1, <1>2
  <2> QED
    BY <2>1
<1>4. ASSUME NEW n \in D, f[n].parent # None
      PROVE  f[n].parent \in D /\ rank[f[n].parent] < rank[n]
  <2>1. f[n].parent \in D /\ Weight(f, n) < Weight(f, f[n].parent)
    BY <1>4, WholeFacts DEF WholeForest, Paired
  <2>2. Weight(f, n) \in 0..N /\ Weight(f, f[n].parent) \in 0..N
    BY <1>2, <2>1
  <2> HIDE DEF N
  <2> QED
    BY <1>1, <2>1, <2>2
<1> HIDE DEF N, rank
<1>5. ASSUME NEW n \in D, NEW g \in [D -> Y], NEW h \in [D -> Y],
             \A y \in D : rank[y] < rank[n] => g[y] = h[y]
      PROVE  step[<<n, g>>] = step[<<n, h>>]
  <2>1. f[n].parent # None => g[f[n].parent] = h[f[n].parent]
    BY <1>4, <1>5
  <2> QED
    BY <2>1 DEF FromParent
<1>6. Ranked(D, Y, N, rank, step)
  BY <1>1, <1>3, <1>5 DEF FromParent, Ranked
<1> QED
  BY <1>6, RankedRecursion

LEMMA ReachUnfold ==
    ASSUME NEW f, WholeForest(f), NEW n \in DOMAIN f
    PROVE  /\ Reach(f, n) = {n} \cup UNION {Reach(f, c) : c \in f[n].kids}
           /\ Reach(f, n) \subseteq DOMAIN f
           /\ f[n].kids \subseteq DOMAIN f
<1> DEFINE S == {n} \cup UNION {Reach(f, c) : c \in f[n].kids}
<1>1. IsFiniteSet(DOMAIN f) /\ Paired(f)
  BY WholeFacts DEF WholeForest
<1>2. /\ n \in Reach(f, n) /\ Reach(f, n) \subseteq DOMAIN f
      /\ \A c \in f[n].kids : /\ c \in DOMAIN f /\ c \in Reach(f, c)
                              /\ Closed(f, Reach(f, c)) /\ Reach(f, c) \subseteq Reach(f, n)
  BY <1>1, WholeFacts, ReachFacts DEF WholeForest, Paired
<1>3. Closed(f, S)
  BY <1>2 DEF Closed
<1>4. Reach(f, n) \subseteq S
  <2>1. n \in S
    OBVIOUS
  <2> HIDE DEF S
  <2> QED
    BY <1>1, <1>3, <2>1, ReachFacts
<1> QED
  BY <1>2, <1>4

-----------------------------------------------------------------------------
(* What a folder covers. *)

LeavesAreEnds(f) == \A n \in DOMAIN f : f[n].leaf => f[n].kids = {}

CoverStep(f, cover, m) ==
    IF f[m].leaf THEN {f[m].inst} ELSE UNION {cover[c] : c \in f[m].kids}

LeavesBelow(f, n) == {m \in Reach(f, n) : f[m].leaf}

LEMMA CoverExists ==
    ASSUME NEW f, WholeForest(f)
    PROVE  \E cover : cover = [m \in DOMAIN f |-> CoverStep(f, cover, m)]
<1>1. PICK D : D = DOMAIN f
  OBVIOUS
<1> DEFINE Y == SUBSET {f[m].inst : m \in D}
           step == [p \in D \X [D -> Y] |-> CoverStep(f, p[2], p[1])]
<1>2. ASSUME NEW m \in D, NEW g \in [D -> Y] PROVE CoverStep(f, g, m) \in Y
  <2>1. f[m].kids \subseteq D
    BY <1>1, ReachUnfold
  <2>2. \A c \in f[m].kids : g[c] \in Y
    BY <2>1
  <2> QED
    BY <2>2 DEF CoverStep
<1>3. Y # {}
  OBVIOUS
<1>4. ASSUME NEW n \in D, NEW g \in [D -> Y], NEW h \in [D -> Y],
             \A c \in f[n].kids : g[c] = h[c]
      PROVE  CoverStep(f, g, n) = CoverStep(f, h, n)
  <2>1. UNION {g[c] : c \in f[n].kids} = UNION {h[c] : c \in f[n].kids}
    BY <1>4
  <2> QED
    BY <2>1 DEF CoverStep
<1> HIDE DEF Y
<1>5. FromChildren(f, D, Y, step)
  <2>1. step \in [D \X [D -> Y] -> Y]
    BY <1>2
  <2>2. \A n \in D : \A g, h \in [D -> Y] :
           (\A c \in f[n].kids : g[c] = h[c]) => step[<<n, g>>] = step[<<n, h>>]
    BY <1>4
  <2> HIDE DEF step
  <2> QED
    BY <1>3, <2>1, <2>2 DEF FromChildren
<1>6. PICK g \in [D -> Y] : \A n \in D : g[n] = step[<<n, g>>]
  <2> HIDE DEF step
  <2> QED
    BY <1>1, <1>5, BottomUpRecursion
<1>7. g = [m \in DOMAIN f |-> CoverStep(f, g, m)]
  <2>1. \A m \in D : g[m] = CoverStep(f, g, m)
    BY <1>6
  <2> QED
    BY <1>1, <1>6, <2>1
<1> QED
  BY <1>7

\* The walk of the memory store and that of the SQL store meet the same leaves.
LEMMA CoveredFacts ==
    ASSUME NEW f, WholeForest(f), LeavesAreEnds(f), NEW n \in DOMAIN f
    PROVE  Covered(f, n) = {f[m].inst : m \in LeavesBelow(f, n)}
<1> DEFINE cover == CHOOSE cover : cover = [m \in DOMAIN f |-> CoverStep(f, cover, m)]
<1>1. cover = [m \in DOMAIN f |-> CoverStep(f, cover, m)]
  BY CoverExists, Zenon
<1>2. Covered(f, n) = cover[n]
  BY Zenon DEF Covered, CoverStep
<1> HIDE DEF cover
<1> DEFINE S == {m \in DOMAIN f : cover[m] = {f[k].inst : k \in LeavesBelow(f, m)}}
<1>3. ASSUME NEW m \in DOMAIN f, \A c \in f[m].kids : c \in S PROVE m \in S
  <2>1. Reach(f, m) = {m} \cup UNION {Reach(f, c) : c \in f[m].kids}
    BY ReachUnfold
  <2>2. cover[m] = CoverStep(f, cover, m)
    BY <1>1, Zenon
  <2>3. CASE f[m].leaf
    <3>1. LeavesBelow(f, m) = {m}
      BY <2>1, <2>3 DEF LeavesAreEnds, LeavesBelow
    <3> QED
      BY <2>2, <2>3, <3>1 DEF CoverStep
  <2>4. CASE ~f[m].leaf
    <3>1. LeavesBelow(f, m) = UNION {LeavesBelow(f, c) : c \in f[m].kids}
      BY <2>1, <2>4 DEF LeavesBelow
    <3>2. cover[m] = UNION {cover[c] : c \in f[m].kids}
      BY <2>2, <2>4 DEF CoverStep
    <3>3. \A c \in f[m].kids : cover[c] = {f[k].inst : k \in LeavesBelow(f, c)}
      BY <1>3
    <3>4. cover[m] = {f[k].inst : k \in LeavesBelow(f, m)}
      BY <3>1, <3>2, <3>3
    <3> QED
      BY <3>4
  <2> QED
    BY <2>3, <2>4
<1>4. n \in S
  <2> HIDE DEF S
  <2> QED
    BY <1>3, BottomUp
<1> QED
  BY <1>2, <1>4

-----------------------------------------------------------------------------
(* The two stores answer the same points. *)

LEMMA NodesForest ==
    ASSUME FInv
    PROVE  WholeForest(nodes) /\ LeavesAreEnds(nodes) /\ WholeForest(tree)
BY DEF FInv, ForestOk, NodeOk, TreeOk, WholeForest, LeavesAreEnds

LEMMA ObjectsAgree ==
    ASSUME FInv, NEW n \in DOMAIN nodes
    PROVE  ObjectPoints(n) = SqlObjectPoints(n)
<1> DEFINE leaves == {m \in Reach(nodes, n) : nodes[m].leaf}
<1>1. Covered(nodes, n) = {nodes[m].inst : m \in leaves}
  BY NodesForest, CoveredFacts DEF LeavesBelow
<1>2. ObjectPoints(n) = UNION {ActiveAt(i) : i \in {nodes[m].inst : m \in leaves}}
  BY <1>1 DEF ObjectPoints
<1>3. SqlObjectPoints(n) = UNION {ActiveAt(nodes[m].inst) : m \in leaves}
  BY DEF SqlObjectPoints
<1> HIDE DEF leaves
<1> QED
  BY <1>2, <1>3

\* what TaskPoints asks of a node
BelowStep(below, m) ==
    IF tree[m].leaf THEN {p \in {m} : points[p].active}
    ELSE IF m \in DOMAIN nodes THEN ObjectPoints(m)
    ELSE UNION {below[c] : c \in tree[m].kids}

LEMMA BelowExists ==
    ASSUME FInv
    PROVE  \E below : below = [m \in DOMAIN tree |-> BelowStep(below, m)]
<1>1. PICK D : D = DOMAIN tree
  OBVIOUS
<1>2. WholeForest(tree)
  BY NodesForest
<1> DEFINE Y == SUBSET DOMAIN points
           step == [p \in D \X [D -> Y] |-> BelowStep(p[2], p[1])]
<1>3. ASSUME NEW m \in D, NEW g \in [D -> Y] PROVE BelowStep(g, m) \in Y
  <2>1. tree[m].leaf => m \in DOMAIN points
    BY <1>1 DEF FInv, TreeOk, TaskOk
  <2>2. ObjectPoints(m) \in Y
    BY DEF ObjectPoints, ActiveAt
  <2>3. tree[m].kids \subseteq D
    BY <1>1, <1>2, ReachUnfold
  <2>4. \A c \in tree[m].kids : g[c] \in Y
    BY <2>3
  <2> QED
    BY <2>1, <2>2, <2>4 DEF BelowStep
<1>4. Y # {}
  OBVIOUS
<1>5. ASSUME NEW n \in D, NEW g \in [D -> Y], NEW h \in [D -> Y],
             \A c \in tree[n].kids : g[c] = h[c]
      PROVE  BelowStep(g, n) = BelowStep(h, n)
  <2>1. UNION {g[c] : c \in tree[n].kids} = UNION {h[c] : c \in tree[n].kids}
    BY <1>5
  <2> QED
    BY <2>1 DEF BelowStep
<1> HIDE DEF Y
<1>6. FromChildren(tree, D, Y, step)
  <2>1. step \in [D \X [D -> Y] -> Y]
    BY <1>3
  <2>2. \A n \in D : \A g, h \in [D -> Y] :
           (\A c \in tree[n].kids : g[c] = h[c]) => step[<<n, g>>] = step[<<n, h>>]
    BY <1>5
  <2> HIDE DEF step
  <2> QED
    BY <1>4, <2>1, <2>2 DEF FromChildren
<1>7. PICK g \in [D -> Y] : \A n \in D : g[n] = step[<<n, g>>]
  <2> HIDE DEF step
  <2> QED
    BY <1>1, <1>2, <1>6, BottomUpRecursion
<1>8. g = [m \in DOMAIN tree |-> BelowStep(g, m)]
  <2>1. \A m \in D : g[m] = BelowStep(g, m)
    BY <1>7
  <2> QED
    BY <1>1, <1>7, <2>1
<1> QED
  BY <1>8

LEMMA TasksAgree ==
    ASSUME FInv, NEW n \in DOMAIN tree, n \in DOMAIN nodes \/ Reach(tree, n) \cap DOMAIN nodes = {}
    PROVE  TaskPoints(n) = SqlTaskPoints(n)
<1> DEFINE below == CHOOSE below : below = [m \in DOMAIN tree |-> BelowStep(below, m)]
<1>1. below = [m \in DOMAIN tree |-> BelowStep(below, m)]
  BY BelowExists, Zenon
<1>2. TaskPoints(n) = below[n]
  BY Zenon DEF TaskPoints, BelowStep
<1> HIDE DEF below
<1>3. \A m \in DOMAIN tree : below[m] = BelowStep(below, m)
  BY <1>1, Zenon
<1>4. CASE tree[n].leaf
  BY <1>2, <1>3, <1>4 DEF BelowStep, SqlTaskPoints
<1>5. CASE ~tree[n].leaf /\ n \in DOMAIN nodes
  BY <1>2, <1>3, <1>5, ObjectsAgree DEF BelowStep, SqlTaskPoints
<1>6. CASE ~tree[n].leaf /\ Reach(tree, n) \cap DOMAIN nodes = {}
  <2> DEFINE S == {m \in DOMAIN tree :
                      ~tree[m].leaf /\ Reach(tree, m) \cap DOMAIN nodes = {} => below[m] = {}}
  <2>1. ASSUME NEW m \in DOMAIN tree, \A c \in tree[m].kids : c \in S PROVE m \in S
    <3>1. SUFFICES ASSUME ~tree[m].leaf, Reach(tree, m) \cap DOMAIN nodes = {}
                   PROVE  below[m] = {}
      OBVIOUS
    <3>2. Reach(tree, m) = {m} \cup UNION {Reach(tree, c) : c \in tree[m].kids}
      BY NodesForest, ReachUnfold
    <3>3. \A c \in tree[m].kids : c \in DOMAIN tree /\ ~tree[c].leaf
      BY KidsAreMirrors, NoneIsNoNode DEF FInv, TreeOk, TaskOk, Mirrors
    <3>4. \A c \in tree[m].kids : below[c] = {}
      BY <2>1, <3>1, <3>2, <3>3
    <3>5. m \notin DOMAIN nodes
      BY <3>1, <3>2
    <3>6. below[m] = UNION {below[c] : c \in tree[m].kids}
      BY <1>3, <3>1, <3>5 DEF BelowStep
    <3> QED
      BY <3>4, <3>6
  <2>2. n \in S
    <3> HIDE DEF S
    <3> QED
      BY <2>1, NodesForest, BottomUp
  <2>3. n \in Reach(tree, n)
    BY NodesForest, ReachUnfold
  <2> QED
    BY <1>2, <1>6, <2>2, <2>3 DEF SqlTaskPoints
<1> QED
  BY <1>4, <1>5, <1>6

\* Whichever store answers, the points below an object node and below a task node are
\* the same, but for the mirror of a lost folder that kept one whose folder is there
\* (list_recall_points_by_learning_object_node,
\* list_recall_points_by_learning_task_node).
THEOREM StoresAgree == Spec => []QueriesAgree
<1>1. ASSUME FInv PROVE QueriesAgree
  BY <1>1, ObjectsAgree, TasksAgree DEF QueriesAgree
<1> QED
  BY <1>1, SpecFInv, PTL

-----------------------------------------------------------------------------
(* The links between mirrors follow the forest, past the folders that have   *)
(* none.                                                                     *)

UpStep(up, n) ==
    LET p == nodes[n].parent
    IN  IF p = None \/ p \in ShownMirrors THEN p ELSE up[p]

DownStep(down, n) ==
    UNION {IF c \in ShownMirrors THEN {c} ELSE down[c] : c \in nodes[n].kids}

LinkUp   == CHOOSE up : up = [n \in DOMAIN nodes |-> UpStep(up, n)]
LinkDown == CHOOSE down : down = [n \in DOMAIN nodes |-> DownStep(down, n)]

LEMMA UpExists ==
    ASSUME FInv
    PROVE  \E up : up = [n \in DOMAIN nodes |-> UpStep(up, n)]
<1>1. PICK D : D = DOMAIN nodes
  OBVIOUS
<1>2. WholeForest(nodes)
  BY NodesForest
<1> DEFINE Y == D \cup {None}
           step == [p \in D \X [D -> Y] |-> UpStep(p[2], p[1])]
<1>3. \A n \in D : nodes[n].parent # None => nodes[n].parent \in D
  BY <1>1, <1>2, WholeFacts DEF WholeForest, Paired
<1>4. ASSUME NEW n \in D, NEW g \in [D -> Y] PROVE UpStep(g, n) \in Y
  BY <1>3 DEF UpStep
<1>5. ASSUME NEW n \in D, NEW g \in [D -> Y], NEW h \in [D -> Y],
             nodes[n].parent # None => g[nodes[n].parent] = h[nodes[n].parent]
      PROVE  UpStep(g, n) = UpStep(h, n)
  BY <1>5 DEF UpStep
<1>6. Y # {}
  OBVIOUS
<1> HIDE DEF Y
<1>7. FromParent(nodes, D, Y, step)
  <2>1. step \in [D \X [D -> Y] -> Y]
    BY <1>4
  <2>2. \A n \in D : \A g, h \in [D -> Y] :
           (nodes[n].parent # None => g[nodes[n].parent] = h[nodes[n].parent])
           => step[<<n, g>>] = step[<<n, h>>]
    BY <1>5
  <2> HIDE DEF step
  <2> QED
    BY <1>6, <2>1, <2>2 DEF FromParent
<1>8. PICK g \in [D -> Y] : \A n \in D : g[n] = step[<<n, g>>]
  <2> HIDE DEF step
  <2> QED
    BY <1>1, <1>2, <1>7, TopDownRecursion
<1>9. g = [n \in DOMAIN nodes |-> UpStep(g, n)]
  <2>1. \A n \in D : g[n] = UpStep(g, n)
    BY <1>8
  <2> QED
    BY <1>1, <1>8, <2>1
<1> QED
  BY <1>9

LEMMA DownExists ==
    ASSUME FInv
    PROVE  \E down : down = [n \in DOMAIN nodes |-> DownStep(down, n)]
<1>1. PICK D : D = DOMAIN nodes
  OBVIOUS
<1>2. WholeForest(nodes)
  BY NodesForest
<1> DEFINE Y == SUBSET D
           step == [p \in D \X [D -> Y] |-> DownStep(p[2], p[1])]
<1>3. ASSUME NEW n \in D, NEW g \in [D -> Y] PROVE DownStep(g, n) \in Y
  <2>1. nodes[n].kids \subseteq D
    BY <1>1, <1>2, ReachUnfold
  <2>2. \A c \in nodes[n].kids : g[c] \in Y
    BY <2>1
  <2> QED
    BY <2>1, <2>2 DEF DownStep
<1>4. ASSUME NEW n \in D, NEW g \in [D -> Y], NEW h \in [D -> Y],
             \A c \in nodes[n].kids : g[c] = h[c]
      PROVE  DownStep(g, n) = DownStep(h, n)
  BY <1>4 DEF DownStep
<1>5. Y # {}
  OBVIOUS
<1> HIDE DEF Y
<1>6. FromChildren(nodes, D, Y, step)
  <2>1. step \in [D \X [D -> Y] -> Y]
    BY <1>3
  <2>2. \A n \in D : \A g, h \in [D -> Y] :
           (\A c \in nodes[n].kids : g[c] = h[c]) => step[<<n, g>>] = step[<<n, h>>]
    BY <1>4
  <2> HIDE DEF step
  <2> QED
    BY <1>5, <2>1, <2>2 DEF FromChildren
<1>7. PICK g \in [D -> Y] : \A n \in D : g[n] = step[<<n, g>>]
  <2> HIDE DEF step
  <2> QED
    BY <1>1, <1>2, <1>6, BottomUpRecursion
<1>8. g = [n \in DOMAIN nodes |-> DownStep(g, n)]
  <2>1. \A n \in D : g[n] = DownStep(g, n)
    BY <1>7
  <2> QED
    BY <1>1, <1>7, <2>1
<1> QED
  BY <1>8

LEMMA LinkedUnfold ==
    ASSUME FInv
    PROVE  /\ \A n \in DOMAIN nodes : LinkUp[n] = UpStep(LinkUp, n)
           /\ \A n \in DOMAIN nodes : LinkDown[n] = DownStep(LinkDown, n)
           /\ Linked = [n \in DOMAIN MirrorsMade |->
                          IF n \in ShownMirrors
                          THEN [MirrorsMade[n] EXCEPT !.parent = LinkUp[n], !.kids = LinkDown[n]]
                          ELSE MirrorsMade[n]]
<1>1. LinkUp = [n \in DOMAIN nodes |-> UpStep(LinkUp, n)]
  BY UpExists, Zenon DEF LinkUp
<1>2. LinkDown = [n \in DOMAIN nodes |-> DownStep(LinkDown, n)]
  BY DownExists, Zenon DEF LinkDown
<1>3. Linked = [n \in DOMAIN MirrorsMade |->
                  IF n \in ShownMirrors
                  THEN [MirrorsMade[n] EXCEPT !.parent = LinkUp[n], !.kids = LinkDown[n]]
                  ELSE MirrorsMade[n]]
  BY Zenon DEF Linked, ShownMirrors, LinkUp, LinkDown, UpStep, DownStep
<1>4. \A n \in DOMAIN nodes : LinkUp[n] = UpStep(LinkUp, n)
  BY <1>1, Zenon
<1>5. \A n \in DOMAIN nodes : LinkDown[n] = DownStep(LinkDown, n)
  BY <1>2, Zenon
<1> QED
  BY <1>3, <1>4, <1>5

LEMMA LinkedBelow ==
    ASSUME FInv, NEW n \in DOMAIN nodes, NEW c \in LinkDown[n]
    PROVE  /\ c \in ShownMirrors /\ Weight(nodes, c) < Weight(nodes, n)
           /\ Reach(nodes, c) \subseteq Reach(nodes, n)
           /\ LinkUp[c] = IF n \in ShownMirrors THEN n ELSE LinkUp[n]
<1> DEFINE Fits(m, k) ==
              /\ k \in ShownMirrors /\ Weight(nodes, k) < Weight(nodes, m)
              /\ Reach(nodes, k) \subseteq Reach(nodes, m)
              /\ LinkUp[k] = IF m \in ShownMirrors THEN m ELSE LinkUp[m]
           S == {m \in DOMAIN nodes : \A k \in LinkDown[m] : Fits(m, k)}
<1>1. None \notin DOMAIN nodes /\ WholeForest(nodes)
  BY NoneIsNoNode, NodesForest
<1>2. ASSUME NEW m \in DOMAIN nodes, NEW k \in nodes[m].kids
      PROVE  /\ k \in DOMAIN nodes /\ nodes[k].parent = m
             /\ Weight(nodes, k) < Weight(nodes, m) /\ Reach(nodes, k) \subseteq Reach(nodes, m)
             /\ Weight(nodes, k) \in Nat /\ Weight(nodes, m) \in Nat
  <2>1. Cardinality(DOMAIN nodes) \in Nat
    BY <1>1, FS_CardinalityType DEF WholeForest
  <2> QED
    BY <1>1, <2>1, WholeFacts DEF WholeForest, Paired
<1>3. ASSUME NEW m \in DOMAIN nodes, \A k \in nodes[m].kids : k \in S PROVE m \in S
  <2> SUFFICES ASSUME NEW d \in LinkDown[m] PROVE Fits(m, d)
    OBVIOUS
  <2>1. PICK k \in nodes[m].kids : d \in (IF k \in ShownMirrors THEN {k} ELSE LinkDown[k])
    <3>1. LinkDown[m] = DownStep(LinkDown, m)
      BY LinkedUnfold
    <3> QED
      BY <3>1 DEF DownStep
  <2>2. LinkUp[k] = IF m \in ShownMirrors THEN m ELSE LinkUp[m]
    <3>1. LinkUp[k] = UpStep(LinkUp, k) /\ nodes[k].parent = m /\ m # None
      BY <1>1, <1>2, LinkedUnfold
    <3> QED
      BY <3>1 DEF UpStep
  <2>3. CASE k \in ShownMirrors
    BY <1>2, <2>1, <2>2, <2>3
  <2>4. CASE k \notin ShownMirrors
    <3>1. Fits(k, d)
      BY <1>3, <2>1, <2>4
    <3>2. Weight(nodes, d) \in Nat
      <4>1. d \in DOMAIN nodes /\ Cardinality(DOMAIN nodes) \in Nat
        BY <1>1, <3>1, FS_CardinalityType DEF ShownMirrors, WholeForest
      <4> QED
        BY <1>1, <4>1, WholeFacts DEF WholeForest
    <3> QED
      BY <1>2, <2>1, <2>2, <2>4, <3>1, <3>2
  <2> QED
    BY <2>3, <2>4
<1>4. n \in S
  <2> HIDE DEF S
  <2> QED
    BY <1>1, <1>3, BottomUp
<1> QED
  BY <1>4

LEMMA LinkedAbove ==
    ASSUME FInv, NEW n \in DOMAIN nodes, LinkUp[n] # None
    PROVE  /\ LinkUp[n] \in ShownMirrors
           /\ n \in ShownMirrors => n \in LinkDown[LinkUp[n]]
<1> DEFINE Near(m) == IF m \in ShownMirrors THEN {m} ELSE LinkDown[m]
           S == {m \in DOMAIN nodes : LinkUp[m] # None =>
                    LinkUp[m] \in ShownMirrors /\ Near(m) \subseteq LinkDown[LinkUp[m]]}
<1>1. None \notin DOMAIN nodes /\ WholeForest(nodes)
  BY NoneIsNoNode, NodesForest
<1>2. ASSUME NEW m \in DOMAIN nodes, nodes[m].parent # None => nodes[m].parent \in S
      PROVE  m \in S
  <2> SUFFICES ASSUME LinkUp[m] # None
               PROVE  LinkUp[m] \in ShownMirrors /\ Near(m) \subseteq LinkDown[LinkUp[m]]
    OBVIOUS
  <2> DEFINE p == nodes[m].parent
  <2>1. LinkUp[m] = IF p = None \/ p \in ShownMirrors THEN p ELSE LinkUp[p]
    BY LinkedUnfold DEF UpStep
  <2>2. p # None /\ p \in DOMAIN nodes /\ m \in nodes[p].kids
    BY <1>1, <2>1, WholeFacts DEF WholeForest, Paired
  <2>3. Near(m) \subseteq LinkDown[p]
    <3>1. LinkDown[p] = DownStep(LinkDown, p)
      BY <2>2, LinkedUnfold
    <3> QED
      BY <2>2, <3>1 DEF DownStep
  <2>4. CASE p \in ShownMirrors
    BY <2>1, <2>3, <2>4
  <2>5. CASE p \notin ShownMirrors
    <3>1. LinkUp[m] = LinkUp[p] /\ p \in S
      BY <1>2, <2>1, <2>2, <2>5
    <3> QED
      BY <2>3, <2>5, <3>1
  <2> QED
    BY <2>4, <2>5
<1>3. n \in S
  <2> HIDE DEF S
  <2> QED
    BY <1>1, <1>2, TopDown
<1> QED
  BY <1>3

-----------------------------------------------------------------------------
(* What the driver links is a forest again, unless a lost folder's mirror is *)
(* linked with one whose folder is there.                                    *)

LostApart ==
    \A m \in Mirrors \ DOMAIN nodes, n \in Mirrors \cap DOMAIN nodes :
        tree[m].parent # n /\ tree[n].parent # m /\ n \notin tree[m].kids

LEMMA LinkedShown ==
    ASSUME FInv, NEW n \in ShownMirrors
    PROVE  /\ n \in DOMAIN Linked /\ n \in DOMAIN nodes
           /\ Linked[n].parent = LinkUp[n] /\ Linked[n].kids = LinkDown[n]
<1>1. n \in DOMAIN MirrorsMade /\ n \in DOMAIN nodes
  BY DEF ShownMirrors
<1>2. DOMAIN MirrorsMade[n] = TaskFields
  BY <1>1, MadeFacts
<1>3. Linked[n] = [MirrorsMade[n] EXCEPT !.parent = LinkUp[n], !.kids = LinkDown[n]]
  BY <1>1, LinkedUnfold
<1> QED
  BY <1>1, <1>2, <1>3, LinkedFields DEF TaskFields

\* a row the links leave as it was
LEMMA LinkedAsBefore ==
    ASSUME FInv, NEW n \in DOMAIN Linked, n \notin ShownMirrors
    PROVE  /\ n \in DOMAIN tree
           /\ Linked[n].parent = tree[n].parent /\ Linked[n].kids = tree[n].kids
           /\ tree[n].leaf \/ n \in Mirrors \ DOMAIN nodes
<1>1. n \in DOMAIN MirrorsMade /\ Linked[n] = MirrorsMade[n]
  BY LinkedFields
<1>2. CASE MirrorsMade[n].leaf
  BY <1>1, <1>2, MadeFacts
<1>3. CASE ~MirrorsMade[n].leaf
  <2>1. n \notin DOMAIN nodes
    BY <1>1, <1>3 DEF ShownMirrors
  <2> QED
    BY <1>1, <1>3, <2>1, MadeFacts DEF Mirrors
<1> QED
  BY <1>2, <1>3

LEMMA LostStayApart ==
    ASSUME FInv, LostApart, NEW n \in DOMAIN Linked, n \notin ShownMirrors
    PROVE  /\ \A c \in tree[n].kids :
                 c \in DOMAIN Linked \ ShownMirrors /\ tree[c].parent = n
           /\ tree[n].parent # None =>
                 /\ tree[n].parent \in DOMAIN Linked \ ShownMirrors
                 /\ n \in tree[tree[n].parent].kids
<1>1. n \in DOMAIN tree /\ (tree[n].leaf \/ n \in Mirrors \ DOMAIN nodes)
  BY LinkedAsBefore
<1>2. Paired(tree)
  BY WholeFacts DEF FInv, TreeOk
<1>3. DOMAIN tree \subseteq DOMAIN Linked
  BY LinkedFields, MadeFacts
<1>4. \A m \in ShownMirrors : m \in DOMAIN nodes
  BY DEF ShownMirrors
<1>5. CASE tree[n].leaf
  BY <1>1, <1>5 DEF FInv, TreeOk, TaskOk
<1>6. CASE n \in Mirrors \ DOMAIN nodes
  <2>1. ASSUME NEW c \in tree[n].kids
        PROVE  c \in DOMAIN Linked \ ShownMirrors /\ tree[c].parent = n
    <3>1. c \in Mirrors /\ tree[c].parent = n
      BY <1>1, <1>2, KidsAreMirrors, NoneIsNoNode DEF FInv, Paired
    <3> QED
      BY <1>3, <1>4, <1>6, <3>1 DEF LostApart, Mirrors
  <2>2. ASSUME tree[n].parent # None
        PROVE  /\ tree[n].parent \in DOMAIN Linked \ ShownMirrors
               /\ n \in tree[tree[n].parent].kids
    <3>1. tree[n].parent \in DOMAIN tree /\ n \in tree[tree[n].parent].kids
      BY <1>1, <1>2, <2>2 DEF Paired
    <3>2. tree[n].parent \in Mirrors
      BY <3>1 DEF FInv, TreeOk, TaskOk, Mirrors
    <3> QED
      BY <1>3, <1>4, <1>6, <3>1, <3>2 DEF LostApart
  <2> QED
    BY <2>1, <2>2
<1> QED
  BY <1>1, <1>5, <1>6

LEMMA LinkedIsWhole ==
    ASSUME FInv, LostApart
    PROVE  Whole(Linked)
<1> DEFINE N == Cardinality(DOMAIN nodes)
           M == Cardinality(DOMAIN tree)
           depth == [n \in DOMAIN Linked |-> IF n \in ShownMirrors THEN N - Weight(nodes, n)
                                             ELSE M - Weight(tree, n)]
<1>1. IsFiniteSet(DOMAIN Linked)
  <2>1. IsFiniteSet({m \in DOMAIN nodes : Eligible(m)})
    BY FS_Subset DEF FInv, ForestOk
  <2>2. IsFiniteSet(DOMAIN tree)
    BY DEF FInv, TreeOk
  <2>3. DOMAIN Linked = DOMAIN tree \cup {m \in DOMAIN nodes : Eligible(m)}
    BY LinkedFields, MadeFacts
  <2> QED
    BY <2>1, <2>2, <2>3, FS_Union
<1>2. Paired(Linked)
  <2>1. ASSUME NEW n \in DOMAIN Linked, NEW c \in Linked[n].kids
        PROVE  c \in DOMAIN Linked /\ Linked[c].parent = n
    <3>1. CASE n \in ShownMirrors
      <4>1. n \in DOMAIN nodes /\ c \in LinkDown[n]
        BY <2>1, <3>1, LinkedShown
      <4>2. c \in ShownMirrors /\ LinkUp[c] = n
        BY <3>1, <4>1, LinkedBelow
      <4> QED
        BY <4>2, LinkedShown
    <3>2. CASE n \notin ShownMirrors
      BY <2>1, <3>2, LinkedAsBefore, LostStayApart
    <3> QED
      BY <3>1, <3>2
  <2>2. ASSUME NEW n \in DOMAIN Linked, Linked[n].parent # None
        PROVE  Linked[n].parent \in DOMAIN Linked /\ n \in Linked[Linked[n].parent].kids
    <3>1. CASE n \in ShownMirrors
      <4>1. n \in DOMAIN nodes /\ Linked[n].parent = LinkUp[n]
        BY <3>1, LinkedShown
      <4>2. LinkUp[n] \in ShownMirrors /\ n \in LinkDown[LinkUp[n]]
        BY <2>2, <3>1, <4>1, LinkedAbove
      <4> QED
        BY <4>1, <4>2, LinkedShown
    <3>2. CASE n \notin ShownMirrors
      <4>1. Linked[n].parent = tree[n].parent
        BY <3>2, LinkedAsBefore
      <4>2. /\ tree[n].parent \in DOMAIN Linked \ ShownMirrors
            /\ n \in tree[tree[n].parent].kids
        BY <2>2, <3>2, <4>1, LostStayApart
      <4> QED
        BY <4>1, <4>2, LinkedAsBefore
    <3> QED
      BY <3>1, <3>2
  <2> QED
    BY <2>1, <2>2 DEF Paired
<1>3. /\ N \in Nat /\ \A n \in DOMAIN nodes : Weight(nodes, n) \in 0..N
      /\ M \in Nat /\ \A n \in DOMAIN tree : Weight(tree, n) \in 0..M
  <2>1. N \in Nat /\ M \in Nat
    BY FS_CardinalityType DEF FInv, ForestOk, TreeOk
  <2> QED
    BY <2>1, WholeFacts DEF FInv, ForestOk, TreeOk
<1> HIDE DEF N, M
<1>4. ASSUME NEW n \in DOMAIN Linked PROVE depth[n] \in Nat
  <2>1. CASE n \in ShownMirrors
    BY <1>3, <2>1, LinkedShown
  <2>2. CASE n \notin ShownMirrors
    BY <1>3, <2>2, LinkedAsBefore
  <2> QED
    BY <2>1, <2>2
<1>5. ASSUME NEW n \in DOMAIN Linked, NEW c \in Linked[n].kids
      PROVE  depth[n] < depth[c]
  <2>1. CASE n \in ShownMirrors
    <3>1. n \in DOMAIN nodes /\ c \in LinkDown[n]
      BY <2>1, LinkedShown
    <3>2. c \in ShownMirrors /\ Weight(nodes, c) < Weight(nodes, n)
      BY <3>1, LinkedBelow
    <3>3. c \in DOMAIN nodes /\ c \in DOMAIN Linked
      BY <3>2, LinkedShown
    <3> QED
      BY <1>3, <2>1, <3>1, <3>2, <3>3
  <2>2. CASE n \notin ShownMirrors
    <3>1. n \in DOMAIN tree /\ c \in tree[n].kids
      BY <2>2, LinkedAsBefore
    <3>2. c \in DOMAIN Linked \ ShownMirrors
      BY <2>2, <3>1, LostStayApart
    <3>3. Weight(tree, c) < Weight(tree, n) /\ c \in DOMAIN tree
      BY <3>1, WholeFacts DEF FInv, TreeOk, Paired
    <3> QED
      BY <1>3, <2>2, <3>1, <3>2, <3>3
  <2> QED
    BY <2>1, <2>2
<1> HIDE DEF depth
<1> QED
  BY <1>1, <1>2, <1>4, <1>5, WholeByDepth

\* The driver's links are refused, and its session with them, only when a mirror whose
\* folder is gone is linked with one whose folder is there (_scan_learning_object_isomorphic_roll_up_once).
THEOREM LinksFailByLostFolders == Spec => []StuckByLostFoldersOnly
<1>1. ASSUME FInv PROVE StuckByLostFoldersOnly
  BY <1>1, LinkedIsWhole DEF StuckByLostFoldersOnly, LostApart
<1> QED
  BY <1>1, SpecFInv, PTL

-----------------------------------------------------------------------------
(* Layers grow on the way up. *)

LEMMA Bounded ==
    ASSUME NEW K, IsFiniteSet(K), NEW g, \A c \in K : g[c] \in Nat
    PROVE  \E b \in Nat : \A c \in K : g[c] <= b
<1> DEFINE S == {k \in Nat : \A L \in SUBSET K : Cardinality(L) = k =>
                    \E b \in Nat : \A c \in L : g[c] <= b}
<1>1. 0 \in S
  <2>1. ASSUME NEW L \in SUBSET K, Cardinality(L) = 0
        PROVE  \E b \in Nat : \A c \in L : g[c] <= b
    <3>1. IsFiniteSet(L)
      BY FS_Subset
    <3>2. L = {}
      BY <2>1, <3>1, FS_EmptySet
    <3> QED
      BY <3>2
  <2> QED
    BY <2>1
<1>2. ASSUME NEW k \in Nat, k \in S PROVE k + 1 \in S
  <2>1. ASSUME NEW L \in SUBSET K, Cardinality(L) = k + 1
        PROVE  \E b \in Nat : \A c \in L : g[c] <= b
    <3>1. IsFiniteSet(L)
      BY FS_Subset
    <3>2. L # {}
      BY <2>1, FS_EmptySet
    <3>3. PICK x : x \in L
      BY <3>2
    <3>4. Cardinality(L \ {x}) = k
      <4>1. Cardinality(L \ {x}) = Cardinality(L) - 1
        BY <3>1, <3>3, FS_RemoveElement
      <4> QED
        BY <2>1, <4>1
    <3>5. PICK b \in Nat : \A c \in L \ {x} : g[c] <= b
      BY <1>2, <3>4
    <3>6. g[x] \in Nat /\ \A c \in L : g[c] \in Nat
      BY <3>3
    <3>7. CASE g[x] <= b
      BY <3>5, <3>7
    <3>8. CASE b < g[x]
      <4>1. \A c \in L : g[c] <= g[x]
        BY <3>5, <3>6, <3>8
      <4> QED
        BY <3>6, <4>1
    <3> QED
      BY <3>6, <3>7, <3>8
  <2>2. k + 1 \in Nat
    OBVIOUS
  <2> QED
    BY <2>1, <2>2
<1>3. Nat \subseteq S
  <2> HIDE DEF S
  <2> QED
    BY <1>1, <1>2, Counting
<1>4. Cardinality(K) \in S
  <2> HIDE DEF S
  <2> QED
    BY <1>3, FS_CardinalityType
<1> QED
  BY <1>4

LEMMA GreatestOf ==
    ASSUME NEW K, IsFiniteSet(K), NEW g, \A c \in K : g[c] \in Nat
    PROVE  /\ Max({0} \cup {g[c] : c \in K}) \in Nat
           /\ \A d \in K : g[d] <= Max({0} \cup {g[c] : c \in K})
<1>1. PICK b \in Nat : \A c \in K : g[c] <= b
  BY Bounded
<1> DEFINE T == {0} \cup {g[c] : c \in K}
<1>2. T \in SUBSET (0..b) /\ T # {} /\ \A c \in K : g[c] \in T
  BY <1>1
<1> HIDE DEF T
<1>3. Max(T) \in T /\ \A m \in T : m <= Max(T)
  BY <1>2, GreatestNumber
<1>4. Max(T) \in Nat /\ \A d \in K : g[d] <= Max(T)
  <2>1. \A m \in T : m \in 0..b
    BY <1>2
  <2>2. Max(T) \in 0..b
    BY <1>3, <2>1
  <2>3. \A d \in K : g[d] <= Max(T)
    BY <1>2, <1>3, Zenon
  <2> QED
    BY <2>2, <2>3
<1>5. T = {0} \cup {g[c] : c \in K}
  BY DEF T
<1> QED
  BY <1>4, <1>5, Zenon

\* what Level asks of a node
LevelStep(level, n) ==
    IF nodes[n].leaf \/ Covered(nodes, n) = {} THEN 0
    ELSE 1 + Max({0} \cup {level[c] : c \in nodes[n].kids})

LEMMA LevelExists ==
    ASSUME FInv
    PROVE  \E level : /\ level = [n \in DOMAIN nodes |-> LevelStep(level, n)]
                      /\ level \in [DOMAIN nodes -> Nat]
<1>1. PICK D : D = DOMAIN nodes
  OBVIOUS
<1>2. WholeForest(nodes)
  BY NodesForest
<1> DEFINE step == [p \in D \X [D -> Nat] |-> LevelStep(p[2], p[1])]
<1>3. ASSUME NEW n \in D, NEW g \in [D -> Nat] PROVE LevelStep(g, n) \in Nat
  <2>1. nodes[n].kids \subseteq D /\ IsFiniteSet(nodes[n].kids)
    BY <1>1, <1>2, ReachUnfold, FS_Subset DEF WholeForest
  <2>2. \A c \in nodes[n].kids : g[c] \in Nat
    BY <2>1
  <2>3. Max({0} \cup {g[c] : c \in nodes[n].kids}) \in Nat
    BY <2>1, <2>2, GreatestOf
  <2> QED
    BY <2>3 DEF LevelStep
<1>4. ASSUME NEW n \in D, NEW g \in [D -> Nat], NEW h \in [D -> Nat],
             \A c \in nodes[n].kids : g[c] = h[c]
      PROVE  LevelStep(g, n) = LevelStep(h, n)
  <2>1. {g[c] : c \in nodes[n].kids} = {h[c] : c \in nodes[n].kids}
    BY <1>4
  <2> QED
    BY <2>1 DEF LevelStep
<1>5. FromChildren(nodes, D, Nat, step)
  <2>1. step \in [D \X [D -> Nat] -> Nat]
    BY <1>3
  <2>2. \A n \in D : \A g, h \in [D -> Nat] :
           (\A c \in nodes[n].kids : g[c] = h[c]) => step[<<n, g>>] = step[<<n, h>>]
    BY <1>4
  <2> HIDE DEF step
  <2> QED
    BY <2>1, <2>2 DEF FromChildren
<1>6. PICK g \in [D -> Nat] : \A n \in D : g[n] = step[<<n, g>>]
  <2> HIDE DEF step
  <2> QED
    BY <1>1, <1>2, <1>5, BottomUpRecursion
<1>7. g = [n \in DOMAIN nodes |-> LevelStep(g, n)]
  <2>1. \A n \in D : g[n] = LevelStep(g, n)
    BY <1>6
  <2> QED
    BY <1>1, <1>6, <2>1
<1> QED
  BY <1>1, <1>6, <1>7

LEMMA LevelFacts ==
    ASSUME FInv
    PROVE  /\ \A n \in DOMAIN nodes : Level[n] \in Nat
           /\ \A n \in DOMAIN nodes : \A c \in nodes[n].kids :
                 Covered(nodes, n) # {} => Level[c] < Level[n]
<1> DEFINE level == CHOOSE level : level = [n \in DOMAIN nodes |-> LevelStep(level, n)]
<1>1. Level = level
  BY Zenon DEF Level, LevelStep
<1>2. level = [n \in DOMAIN nodes |-> LevelStep(level, n)]
  BY LevelExists, Zenon
<1> HIDE DEF level
<1>3. \A n \in DOMAIN nodes : level[n] = LevelStep(level, n)
  BY <1>2, Zenon
<1>4. WholeForest(nodes) /\ LeavesAreEnds(nodes)
  BY NodesForest
<1>5. ASSUME NEW n \in DOMAIN nodes
      PROVE  IsFiniteSet(nodes[n].kids) /\ nodes[n].kids \subseteq DOMAIN nodes
  BY <1>4, ReachUnfold, FS_Subset DEF WholeForest
<1> DEFINE S == {n \in DOMAIN nodes : level[n] \in Nat}
<1>6. ASSUME NEW n \in DOMAIN nodes, \A c \in nodes[n].kids : c \in S PROVE n \in S
  <2>1. Max({0} \cup {level[c] : c \in nodes[n].kids}) \in Nat
    BY <1>5, <1>6, GreatestOf
  <2>2. LevelStep(level, n) \in Nat
    BY <2>1 DEF LevelStep
  <2> QED
    BY <1>3, <2>2
<1>7. \A n \in DOMAIN nodes : level[n] \in Nat
  <2>1. DOMAIN nodes \subseteq S
    <3> HIDE DEF S
    <3> QED
      BY <1>4, <1>6, BottomUp
  <2> QED
    BY <2>1
<1>8. ASSUME NEW n \in DOMAIN nodes, NEW c \in nodes[n].kids, Covered(nodes, n) # {}
      PROVE  level[c] < level[n]
  <2>1. ~nodes[n].leaf
    BY <1>4 DEF LeavesAreEnds
  <2>2. level[n] = 1 + Max({0} \cup {level[d] : d \in nodes[n].kids})
    BY <1>3, <1>8, <2>1 DEF LevelStep
  <2>3. \A d \in nodes[n].kids : level[d] \in Nat
    BY <1>5, <1>7
  <2>4. /\ Max({0} \cup {level[d] : d \in nodes[n].kids}) \in Nat
        /\ level[c] <= Max({0} \cup {level[d] : d \in nodes[n].kids})
    BY <1>5, <2>3, GreatestOf
  <2> QED
    BY <2>2, <2>3, <2>4
<1> QED
  BY <1>1, <1>7, <1>8

LEMMA CoverGrows ==
    ASSUME FInv, NEW n \in DOMAIN nodes, NEW c \in DOMAIN nodes,
           Reach(nodes, c) \subseteq Reach(nodes, n)
    PROVE  Covered(nodes, c) \subseteq Covered(nodes, n)
<1>1. /\ Covered(nodes, c) = {nodes[m].inst : m \in LeavesBelow(nodes, c)}
      /\ Covered(nodes, n) = {nodes[m].inst : m \in LeavesBelow(nodes, n)}
  BY NodesForest, CoveredFacts
<1>2. LeavesBelow(nodes, c) \subseteq LeavesBelow(nodes, n)
  BY DEF LeavesBelow
<1> QED
  BY <1>1, <1>2

\* A mirror is on a higher layer than those it is linked to below, empty ones aside.
LEMMA LayersGrow ==
    ASSUME FInv, NEW n \in DOMAIN nodes, NEW c \in LinkDown[n], Covered(nodes, c) # {}
    PROVE  Level[c] < Level[n]
<1> DEFINE S == {m \in DOMAIN nodes : \A d \in LinkDown[m] :
                    Covered(nodes, d) # {} => Level[d] < Level[m]}
<1>1. ASSUME NEW m \in DOMAIN nodes, \A k \in nodes[m].kids : k \in S PROVE m \in S
  <2> SUFFICES ASSUME NEW d \in LinkDown[m], Covered(nodes, d) # {}
               PROVE  Level[d] < Level[m]
    OBVIOUS
  <2>1. LinkDown[m] = DownStep(LinkDown, m)
    BY LinkedUnfold
  <2>2. PICK k \in nodes[m].kids : d \in (IF k \in ShownMirrors THEN {k} ELSE LinkDown[k])
    BY <2>1 DEF DownStep
  <2>3. k \in DOMAIN nodes
    BY NodesForest, ReachUnfold
  <2>4. Covered(nodes, m) # {} /\ d \in DOMAIN nodes
    <3>1. d \in DOMAIN nodes /\ Reach(nodes, d) \subseteq Reach(nodes, m)
      BY LinkedBelow DEF ShownMirrors
    <3> QED
      BY <3>1, CoverGrows
  <2>5. Level[k] < Level[m] /\ Level[k] \in Nat /\ Level[m] \in Nat /\ Level[d] \in Nat
    BY <2>3, <2>4, LevelFacts
  <2>6. d = k \/ Level[d] < Level[k]
    BY <1>1, <2>2
  <2> QED
    BY <2>5, <2>6
<1>2. n \in S
  <2> HIDE DEF S
  <2> QED
    BY <1>1, NodesForest, BottomUp
<1> QED
  BY <1>2

InOrder ==
    \A n \in DOMAIN regs' \ DOMAIN regs : ~tree'[n].leaf =>
          /\ \A i \in Covered(nodes, n) : ActiveAt(i) # {}
          /\ \A c \in tree'[n].kids : Covered(nodes, c) # {} => c \in DOMAIN regs

LEMMA FolderInOrder ==
    ASSUME FInv, RegisterFolder
    PROVE  InOrder
<1>1. PICK n \in NextFolders : regs' = With(regs, n, Level[n])
  BY DEF RegisterFolder
<1>2. DOMAIN regs' \ DOMAIN regs \subseteq {n} /\ tree' = Linked
  BY <1>1 DEF With, RegisterFolder
<1>3. n \in Waiting /\ \A m \in Waiting : Level[n] <= Level[m]
  BY DEF NextFolders
<1>4. /\ n \in DOMAIN nodes /\ Covered(nodes, n) # {}
      /\ \A i \in Covered(nodes, n) : ActiveAt(i) # {}
  BY <1>3 DEF Waiting, Eligible
<1>5. ASSUME ~Linked[n].leaf, NEW c \in Linked[n].kids, Covered(nodes, c) # {}
      PROVE  c \in DOMAIN regs
  <2>1. n \in DOMAIN Linked
    BY <1>3, LinkedFields, MadeFacts DEF Waiting
  <2>2. n \in ShownMirrors
    BY <1>4, <1>5, <2>1, LinkedFields DEF ShownMirrors
  <2>3. c \in LinkDown[n]
    BY <1>5, <2>2, LinkedShown
  <2>4. /\ c \in DOMAIN nodes /\ ~nodes[c].leaf
        /\ Reach(nodes, c) \subseteq Reach(nodes, n)
    BY <1>4, <2>3, LinkedBelow, MadeFacts DEF ShownMirrors
  <2>5. Eligible(c)
    BY <1>4, <1>5, <2>4, CoverGrows DEF Eligible
  <2>6. Level[c] < Level[n] /\ Level[c] \in Nat /\ Level[n] \in Nat
    BY <1>4, <1>5, <2>3, <2>4, LayersGrow, LevelFacts
  <2>7. ~(Level[n] <= Level[c])
    BY <2>6
  <2>8. c \notin Waiting
    BY <1>3, <2>7
  <2> QED
    BY <2>4, <2>5, <2>8 DEF Waiting
<1> QED
  BY <1>2, <1>4, <1>5 DEF InOrder

LEMMA StepInOrder == FInv /\ [Next]_vars => InOrder
<1> SUFFICES ASSUME FInv, [Next]_vars PROVE InOrder
  OBVIOUS
<1> USE DEF study, library, other
<1>1. ASSUME UNCHANGED regs PROVE InOrder
  BY <1>1 DEF InOrder
<1>2. ASSUME NEW p, NEW i, NEW from, Submitted(p, i, from) PROVE InOrder
  <2>1. DOMAIN regs' \ DOMAIN regs \subseteq {p}
    BY <1>2 DEF Submitted, With
  <2>2. tree'[p].leaf
    BY <1>2 DEF Submitted, With
  <2> QED
    BY <2>1, <2>2 DEF InOrder
<1>3. CASE \E p \in Points, i \in DOMAIN inst : SubmitLearningTask(p, i)
  BY <1>2, <1>3 DEF SubmitLearningTask
<1>4. CASE \E t \in Threads, p \in Points : Collect(t, p)
  BY <1>2, <1>4 DEF Collect
<1>5. CASE RegisterFolder
  BY <1>5, FolderInOrder
<1>6. CASE TickAfterScan
  BY <1>1, <1>6 DEF TickAfterScan
<1>7. CASE \/ \E found \in OnDisk : SyncFromFs(found)
           \/ \E files \in SUBSET Files : ImportBrowserScan(files)
  BY <1>1, <1>7 DEF SyncFromFs, ImportBrowserScan, Replace
<1>8. CASE \/ \E v \in Remote : ImportNetdisk(v)
           \/ \E kind \in {"SERVER_FS", "MANUAL"} : SetSourceBinding(kind)
  BY <1>1, <1>8 DEF ImportNetdisk, SetSourceBinding
<1>9. CASE \/ \E path \in Files \cup {fresh + 1} : AddInstance(path)
           \/ \E i \in DOMAIN inst, up \in DOMAIN nodes \cup {None} : AddLeaf(i, up)
           \/ \E up \in Folders \cup {None}, kids \in SUBSET DOMAIN nodes : AddContainer(up, kids)
  BY <1>1, <1>9 DEF AddInstance, AddLeaf, AddContainer
<1>10. CASE \/ \E d : InitializeBook(d)
            \/ \E forest \in Materials : InitializeBookFromMaterial(forest)
            \/ EnsureInbox
  BY <1>1, <1>10 DEF InitializeBook, InitializeBookFromMaterial, EnsureInbox
<1>11. CASE \/ \E s \in Sources : OriginDeletes(s)
            \/ \E t \in Threads, s \in Sources : ReadOrigin(t, s)
            \/ \E t \in Threads : GiveUp(t)
  BY <1>1, <1>11 DEF OriginDeletes, ReadOrigin, GiveUp
<1>12. CASE \/ \E p \in Points : DeleteRecallPoint(p)
            \/ \E p \in Points, i \in DOMAIN inst : EditRecallPoint(p, i)
            \/ \E from, to \in DOMAIN inst : \E moved \in SUBSET ActiveAt(from) :
                  Remap(from, to, moved)
  BY <1>1, <1>12 DEF DeleteRecallPoint, EditRecallPoint, Remap
<1>13. CASE UNCHANGED vars
  BY <1>1, <1>13 DEF vars
<1> QED
  BY <1>3, <1>4, <1>5, <1>6, <1>7, <1>8, <1>9, <1>10, <1>11, <1>12, <1>13 DEF Next

\* A folder gets its layer only when every instance below it has an active point, and
\* after every mirror it is linked to that holds instances
\* (_scan_learning_object_isomorphic_roll_up_once).
THEOREM FoldersWaitForTheirParts == Spec => FoldersRollUpInOrder
<1>1. FInv /\ [Next]_vars => [InOrder]_vars
  BY StepInOrder
<1> QED
  BY <1>1, SpecFInv, PTL DEF Spec, FoldersRollUpInOrder, InOrder

=============================================================================
