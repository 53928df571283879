----------------------------- MODULE ToolsProofs -----------------------------
(***************************************************************************)
(* Proofs about Tools, for any inputs: what a worklist arrives at, the     *)
(* closure of pin, the digests of a build, what an image needs, the pages  *)
(* of vulnerabilities and of versions, the certificates of a trust file,   *)
(* the order of versions; and the layer of an rpm, in RpmExtractProofs.    *)
(***************************************************************************)
EXTENDS Tools, Reachability, Sorting, Sequences, FiniteSetTheorems, SequenceTheorems,
        WellFoundedInduction, TLAPS

-----------------------------------------------------------------------------
(* Reachability *)

\* Induction over the naturals, for a set of them.
LEMMA Induction ==
    ASSUME NEW T, 0 \in T, \A n \in Nat : n \in T => n + 1 \in T
    PROVE  Nat \subseteq T
  <1> DEFINE U == Nat \ T
  <1> SUFFICES ASSUME U # {} PROVE FALSE
    OBVIOUS
  <1>1. U \subseteq Nat
    OBVIOUS
  <1> HIDE DEF U
  <1>2. \E x \in U : \A y \in U : ~ (<<y, x>> \in OpToRel(<, Nat))
    BY <1>1, NatLessThanWellFounded, WFMin
  <1>3. PICK x \in U : \A y \in U : ~ (y < x)
    BY <1>1, <1>2 DEF OpToRel
  <1>4. x \in Nat /\ x \notin T /\ x # 0
    BY <1>3 DEF U
  <1>5. x - 1 \in Nat /\ (x - 1) + 1 = x /\ x - 1 < x
    BY <1>4
  <1>6. x - 1 \notin T
    BY <1>4, <1>5
  <1> QED
    BY <1>3, <1>5, <1>6 DEF U

\* A set of naturals has a least.
LEMMA LeastOne ==
    ASSUME NEW T, T \subseteq Nat, T # {}
    PROVE  \E x \in T : \A y \in T : x <= y
  <1>1. \E x \in T : \A y \in T : ~ (<<y, x>> \in OpToRel(<, Nat))
    BY NatLessThanWellFounded, WFMin
  <1>2. PICK x \in T : \A y \in T : ~ (y < x)
    BY <1>1 DEF OpToRel
  <1>3. \A y \in T : x <= y
    BY <1>2
  <1> QED
    BY <1>3

\* A function of 0..n defined step by step.
Stepwise(f, n, x, step) ==
    /\ f = [k \in 0..n |-> f[k]] /\ f[0] = x
    /\ \A k \in 1..n : f[k] = step[k][f[k - 1]]

\* There is one.
LEMMA Recursion ==
    ASSUME NEW x, NEW step, NEW n \in Nat
    PROVE  \E f : Stepwise(f, n, x, step)
  <1> DEFINE T == {m \in Nat : \E f : Stepwise(f, m, x, step)}
  <1>1. 0 \in T
    <2> DEFINE f == [k \in 0..0 |-> x]
    <2>1. Stepwise(f, 0, x, step)
      BY DEF Stepwise
    <2> QED
      BY <2>1
  <1>2. ASSUME NEW m \in Nat, m \in T
        PROVE  m + 1 \in T
    <2>1. PICK f : Stepwise(f, m, x, step)
      BY <1>2
    <2> DEFINE g == [k \in 0..m + 1 |-> IF k = m + 1 THEN step[m + 1][f[m]] ELSE f[k]]
    <2>2. ASSUME NEW k \in 1..m + 1
          PROVE  g[k] = step[k][g[k - 1]]
      <3>1. k \in 0..m + 1 /\ k - 1 \in 0..m + 1 /\ k - 1 # m + 1
        OBVIOUS
      <3>2. g[k - 1] = f[k - 1]
        BY <3>1
      <3>3. CASE k = m + 1
        <4>1. g[k] = step[m + 1][f[m]] /\ k - 1 = m
          BY <3>1, <3>3
        <4> HIDE DEF g
        <4> QED
          BY <3>2, <3>3, <4>1
      <3>4. CASE k # m + 1
        <4>1. k \in 1..m /\ g[k] = f[k]
          BY <3>1, <3>4
        <4> HIDE DEF g
        <4> QED
          BY <2>1, <3>2, <4>1 DEF Stepwise
      <3> QED
        BY <3>3, <3>4
    <2>3. g = [k \in 0..m + 1 |-> g[k]] /\ g[0] = x
      BY <2>1 DEF Stepwise
    <2>4. Stepwise(g, m + 1, x, step)
      <3> HIDE DEF g
      <3> QED
        BY <2>2, <2>3 DEF Stepwise
    <2> QED
      BY <2>4
  <1>3. Nat \subseteq T
    <2> HIDE DEF T
    <2> QED
      BY <1>1, <1>2, Induction
  <1> QED
    BY <1>3

\* One more step along the successors.
Grown(S, succ, L) == L \cup UNION {succ[x] : x \in L \cap S}

\* The first n steps.
Levels(f, n, S, succ, from) ==
    /\ f = [k \in 0..n |-> f[k]] /\ f[0] = from
    /\ \A k \in 1..n : f[k] = Grown(S, succ, f[k - 1])

\* There are as many steps as one takes.
LEMMA LevelsExist ==
    ASSUME NEW S, NEW succ, NEW from, NEW n \in Nat
    PROVE  \E f : Levels(f, n, S, succ, from)
  <1> DEFINE T == {k \in Nat : \E f : Levels(f, k, S, succ, from)}
  <1>1. 0 \in T
    <2> DEFINE f == [k \in 0..0 |-> from]
    <2>1. Levels(f, 0, S, succ, from)
      BY DEF Levels
    <2> QED
      BY <2>1
  <1>2. ASSUME NEW m \in Nat, m \in T
        PROVE  m + 1 \in T
    <2>1. PICK f : Levels(f, m, S, succ, from)
      BY <1>2
    <2> DEFINE g == [k \in 0..m + 1 |-> IF k = m + 1 THEN Grown(S, succ, f[m]) ELSE f[k]]
    <2>2. g = [k \in 0..m + 1 |-> g[k]] /\ g[0] = from
      BY <2>1 DEF Levels
    <2>3. ASSUME NEW k \in 1..m + 1
          PROVE  g[k] = Grown(S, succ, g[k - 1])
      <3>1. k - 1 \in 0..m /\ k \in 0..m + 1 /\ k - 1 \in 0..m + 1 /\ k - 1 # m + 1
        OBVIOUS
      <3>2. g[k - 1] = f[k - 1]
        BY <3>1
      <3>3. CASE k = m + 1
        <4>1. k - 1 = m
          BY <3>3
        <4>2. g[k] = Grown(S, succ, f[m])
          BY <3>1, <3>3
        <4> HIDE DEF g
        <4> QED
          BY <3>2, <4>1, <4>2
      <3>4. CASE k # m + 1
        <4>1. k \in 1..m
          BY <3>4
        <4>2. g[k] = f[k]
          BY <3>1, <3>4
        <4> HIDE DEF g
        <4> QED
          BY <2>1, <3>2, <4>1, <4>2 DEF Levels
      <3> QED
        BY <3>3, <3>4
    <2>4. Levels(g, m + 1, S, succ, from)
      <3> HIDE DEF g
      <3> QED
        BY <2>2, <2>3 DEF Levels
    <2> QED
      BY <2>4
  <1>3. Nat \subseteq T
    <2> HIDE DEF T
    <2> QED
      BY <1>1, <1>2, Induction
  <1> QED
    BY <1>3

\* Within is the last of them.
LEMMA WithinIsLast ==
    ASSUME NEW S, NEW succ, NEW from, NEW N \in Nat
    PROVE  \E f : Levels(f, N, S, succ, from) /\ Within(N, S, succ, from) = f[N]
  <1> DEFINE Rec(f) == [n \in 0..N |->
                           IF n = 0 THEN from
                           ELSE f[n - 1] \cup UNION {succ[x] : x \in f[n - 1] \cap S}]
             level == CHOOSE f : f = Rec(f)
  <1>2. PICK g : Levels(g, N, S, succ, from)
    BY LevelsExist
  <1>3. g = Rec(g)
    <2>1. g = [k \in 0..N |-> g[k]]
      BY <1>2 DEF Levels
    <2>2. ASSUME NEW n \in 0..N
          PROVE  g[n] = Rec(g)[n]
      <3>1. CASE n = 0
        BY <1>2, <3>1 DEF Levels
      <3>2. CASE n # 0
        <4>1. n \in 1..N
          BY <3>2
        <4> QED
          BY <1>2, <3>2, <4>1 DEF Levels, Grown
      <3> QED
        BY <3>1, <3>2
    <2> QED
      BY <2>1, <2>2
  <1>4. level = Rec(level)
    <2> HIDE DEF Rec
    <2> QED
      BY <1>3
  <1>5. Within(N, S, succ, from) = level[N]
    BY DEF Within
  <1>6. Levels(level, N, S, succ, from)
    <2> HIDE DEF level
    <2>1. \A k \in 0..N : level[k] = Rec(level)[k]
      BY <1>4
    <2>2. level = [k \in 0..N |-> level[k]] /\ level[0] = from
      BY <1>4
    <2>3. \A k \in 1..N : k \in 0..N /\ k # 0
      OBVIOUS
    <2>4. \A k \in 1..N : level[k] = Grown(S, succ, level[k - 1])
      BY <2>1, <2>3 DEF Grown
    <2> QED
      BY <2>2, <2>4 DEF Levels
  <1> QED
    BY <1>5, <1>6

\* Reached is the last of as many steps as there are nodes.
LEMMA ReachedIsLast ==
    ASSUME NEW S, IsFiniteSet(S), NEW succ, NEW from
    PROVE  \E f : /\ Levels(f, Cardinality(S), S, succ, from)
                  /\ Reached(S, succ, from) = f[Cardinality(S)]
  BY FS_CardinalityType, WithinIsLast DEF Reached

\* Nothing is reached that is not in every set with `from` that successors do not leave.
LEMMA ReachedIsLeast ==
    ASSUME NEW S, IsFiniteSet(S), NEW succ, NEW from, NEW T,
           from \subseteq T, \A x \in T \cap S : succ[x] \subseteq T
    PROVE  Reached(S, succ, from) \subseteq T
  <1> DEFINE N == Cardinality(S)
  <1>1. N \in Nat
    BY FS_CardinalityType
  <1>2. PICK f : Levels(f, N, S, succ, from) /\ Reached(S, succ, from) = f[N]
    BY ReachedIsLast
  <1> HIDE DEF N
  <1> DEFINE In == {n \in Nat : n <= N => f[n] \subseteq T}
  <1>3. 0 \in In
    BY <1>2 DEF Levels
  <1>4. ASSUME NEW n \in Nat, n \in In
        PROVE  n + 1 \in In
    <2> SUFFICES ASSUME n + 1 <= N
                 PROVE  f[n + 1] \subseteq T
      OBVIOUS
    <2>1. n + 1 \in 1..N /\ (n + 1) - 1 = n /\ n <= N
      BY <1>1
    <2>2. f[n + 1] = Grown(S, succ, f[n]) /\ f[n] \subseteq T
      BY <1>2, <1>4, <2>1 DEF Levels
    <2> QED
      BY <2>2 DEF Grown
  <1>5. Nat \subseteq In
    <2> HIDE DEF In
    <2> QED
      BY <1>3, <1>4, Induction
  <1> QED
    BY <1>1, <1>2, <1>5

\* A step that adds no node is the last, and with every other there are more.
LEMMA GrowthIsBounded ==
    ASSUME NEW S, IsFiniteSet(S), NEW succ, NEW L
    PROVE  LET M == Grown(S, succ, L)
               more == Cardinality(L \cap S) + 1
           IN  \/ Grown(S, succ, M) = M
               \/ Cardinality(M \cap S) \in Nat /\ Cardinality(M \cap S) >= more
  <1> DEFINE M == Grown(S, succ, L)
  <1>1. L \subseteq M
    BY DEF Grown
  <1>2. CASE L \cap S = M \cap S
    <2>1. Grown(S, succ, M) = M
      BY <1>2 DEF Grown
    <2> QED
      BY <2>1
  <1>3. CASE L \cap S # M \cap S
    <2>1. IsFiniteSet(M \cap S) /\ Cardinality(M \cap S) \in Nat
      BY FS_Subset, FS_CardinalityType
    <2>2. L \cap S \in SUBSET (M \cap S)
      BY <1>1
    <2>3. IsFiniteSet(L \cap S) /\ Cardinality(L \cap S) \in Nat
      BY <2>1, <2>2, FS_Subset, FS_CardinalityType
    <2>4. /\ Cardinality(L \cap S) <= Cardinality(M \cap S)
          /\ Cardinality(L \cap S) # Cardinality(M \cap S)
      <3> HIDE DEF M
      <3> QED
        BY <1>3, <2>1, <2>2, FS_Subset
    <2>5. Cardinality(M \cap S) >= Cardinality(L \cap S) + 1
      BY <2>1, <2>3, <2>4
    <2> QED
      BY <2>1, <2>5
  <1> QED
    BY <1>2, <1>3

\* The successors of what is reached are reached: in as many steps as there are
\* nodes, one adds none.
LEMMA ReachedCloses ==
    ASSUME NEW S, IsFiniteSet(S), NEW succ, NEW from
    PROVE  /\ from \subseteq Reached(S, succ, from)
           /\ \A x \in Reached(S, succ, from) \cap S : succ[x] \subseteq Reached(S, succ, from)
  <1> DEFINE N == Cardinality(S)
  <1>1. N \in Nat
    BY FS_CardinalityType
  <1>2. PICK f : Levels(f, N, S, succ, from) /\ Reached(S, succ, from) = f[N]
    BY ReachedIsLast
  <1>3. \A n \in Nat : IsFiniteSet(f[n] \cap S) /\ Cardinality(f[n] \cap S) \in Nat
                       /\ Cardinality(f[n] \cap S) <= N
    BY FS_Subset, FS_CardinalityType
  <1> HIDE DEF N
  <1> DEFINE Still(n) == Grown(S, succ, f[n]) = f[n]
             In == {n \in Nat : n <= N => /\ from \subseteq f[n]
                                          /\ Still(n) \/ Cardinality(f[n] \cap S) >= n + 1}
  <1>4. 0 \in In
    <2>1. f[0] = from
      BY <1>2 DEF Levels
    <2>2. CASE f[0] \cap S = {}
      <3>1. Still(0)
        BY <2>2 DEF Grown
      <3> QED
        BY <2>1, <3>1
    <2>3. CASE f[0] \cap S # {}
      <3>1. Cardinality(f[0] \cap S) # 0
        BY <1>3, <2>3, FS_EmptySet
      <3> QED
        BY <1>3, <2>1, <3>1
    <2> QED
      BY <2>2, <2>3
  <1>5. ASSUME NEW n \in Nat, n \in In
        PROVE  n + 1 \in In
    <2> SUFFICES ASSUME n + 1 <= N
                 PROVE  /\ from \subseteq f[n + 1]
                        /\ Still(n + 1) \/ Cardinality(f[n + 1] \cap S) >= n + 1 + 1
      OBVIOUS
    <2>1. n + 1 \in 1..N /\ (n + 1) - 1 = n /\ n <= N
      BY <1>1
    <2>2. f[n + 1] = Grown(S, succ, f[n])
      BY <1>2, <2>1 DEF Levels
    <2>3. from \subseteq f[n] /\ (Still(n) \/ Cardinality(f[n] \cap S) >= n + 1)
      BY <1>5, <2>1
    <2>4. from \subseteq f[n + 1]
      BY <2>2, <2>3 DEF Grown
    <2>5. CASE Still(n)
      BY <2>2, <2>4, <2>5
    <2>6. CASE Cardinality(f[n] \cap S) >= n + 1
      <3>1. Still(n + 1) \/ (Cardinality(f[n + 1] \cap S) >= Cardinality(f[n] \cap S) + 1)
        BY <2>2, GrowthIsBounded
      <3>2. Cardinality(f[n + 1] \cap S) \in Nat /\ Cardinality(f[n] \cap S) \in Nat
        BY <1>3
      <3>3. Cardinality(f[n + 1] \cap S) >= Cardinality(f[n] \cap S) + 1 =>
               Cardinality(f[n + 1] \cap S) >= n + 1 + 1
        BY <2>6, <3>2
      <3> HIDE DEF Still
      <3> QED
        BY <2>4, <3>1, <3>3
    <2> QED
      BY <2>3, <2>5, <2>6
  <1>6. N \in In
    <2> HIDE DEF In
    <2> QED
      BY <1>1, <1>4, <1>5, Induction
  <1>7. from \subseteq f[N] /\ Still(N)
    <2>1. from \subseteq f[N] /\ (Still(N) \/ Cardinality(f[N] \cap S) >= N + 1)
      BY <1>1, <1>6
    <2> DEFINE c == Cardinality(f[N] \cap S)
    <2>2. c \in Nat /\ c <= N
      BY <1>1, <1>3
    <2> HIDE DEF Still
    <2>3. from \subseteq f[N] /\ (Still(N) \/ c >= N + 1)
      BY <2>1
    <2> HIDE DEF c
    <2> QED
      BY <1>1, <2>2, <2>3
  <1> QED
    BY <1>2, <1>7 DEF Grown

\* In as many steps, the same is reached however they are counted.
LEMMA LevelsAgree ==
    ASSUME NEW S, NEW succ, NEW from, NEW m \in Nat, NEW n \in Nat, m <= n,
           NEW f, Levels(f, m, S, succ, from), NEW g, Levels(g, n, S, succ, from)
    PROVE  \A k \in 0..m : f[k] = g[k]
  <1> DEFINE In == {k \in Nat : k <= m => f[k] = g[k]}
  <1>1. 0 \in In
    BY DEF Levels
  <1>2. ASSUME NEW k \in Nat, k \in In
        PROVE  k + 1 \in In
    <2> SUFFICES ASSUME k + 1 <= m
                 PROVE  f[k + 1] = g[k + 1]
      OBVIOUS
    <2>1. k + 1 \in 1..m /\ k + 1 \in 1..n /\ (k + 1) - 1 = k /\ f[k] = g[k]
      BY <1>2
    <2>2. f[k + 1] = Grown(S, succ, f[k]) /\ g[k + 1] = Grown(S, succ, g[k])
      BY <2>1 DEF Levels
    <2> QED
      BY <2>1, <2>2
  <1>3. Nat \subseteq In
    <2> HIDE DEF In
    <2> QED
      BY <1>1, <1>2, Induction
  <1> QED
    BY <1>3

\* Within no step is what was there, ...
LEMMA WithinNone ==
    ASSUME NEW S, NEW succ, NEW from
    PROVE  Within(0, S, succ, from) = from
  BY WithinIsLast DEF Levels

\* ... and within one more than n is Within n, grown.
LEMMA WithinGrows ==
    ASSUME NEW S, NEW succ, NEW from, NEW n \in Nat
    PROVE  Within(n + 1, S, succ, from) = Grown(S, succ, Within(n, S, succ, from))
  <1>1. PICK f : Levels(f, n, S, succ, from) /\ Within(n, S, succ, from) = f[n]
    BY WithinIsLast
  <1>2. PICK g : Levels(g, n + 1, S, succ, from) /\ Within(n + 1, S, succ, from) = g[n + 1]
    BY WithinIsLast
  <1>3. f[n] = g[n]
    BY <1>1, <1>2, LevelsAgree
  <1>4. n + 1 \in 1..n + 1 /\ (n + 1) - 1 = n
    OBVIOUS
  <1> QED
    BY <1>1, <1>2, <1>3, <1>4 DEF Levels

\* Within any number of steps is what was there and only what is reached.
LEMMA WithinIsReached ==
    ASSUME NEW S, IsFiniteSet(S), NEW succ, NEW from, NEW n \in Nat
    PROVE  /\ from \subseteq Within(n, S, succ, from)
           /\ Within(n, S, succ, from) \subseteq Reached(S, succ, from)
  <1> DEFINE In == {k \in Nat : /\ from \subseteq Within(k, S, succ, from)
                                /\ Within(k, S, succ, from) \subseteq Reached(S, succ, from)}
  <1>1. 0 \in In
    BY WithinNone, ReachedCloses
  <1>2. ASSUME NEW k \in Nat, k \in In
        PROVE  k + 1 \in In
    <2> DEFINE L == Within(k, S, succ, from)
               R == Reached(S, succ, from)
    <2>1. Within(k + 1, S, succ, from) = Grown(S, succ, L)
      BY WithinGrows
    <2>2. from \subseteq L /\ L \subseteq R /\ \A x \in R \cap S : succ[x] \subseteq R
      BY <1>2, ReachedCloses
    <2>3. from \subseteq Grown(S, succ, L) /\ Grown(S, succ, L) \subseteq R
      <3> HIDE DEF L, R
      <3> QED
        BY <2>2 DEF Grown
    <2> QED
      BY <2>1, <2>3
  <1>3. Nat \subseteq In
    <2> HIDE DEF In
    <2> QED
      BY <1>1, <1>2, Induction
  <1> QED
    BY <1>3

\* If one more step reaches nothing new, no more do.
LEMMA WithinIsAll ==
    ASSUME NEW S, IsFiniteSet(S), NEW succ, NEW from, NEW n \in Nat,
           Within(n + 1, S, succ, from) = Within(n, S, succ, from)
    PROVE  Within(n, S, succ, from) = Reached(S, succ, from)
  <1> DEFINE T == Within(n, S, succ, from)
  <1>1. from \subseteq T /\ T \subseteq Reached(S, succ, from)
    BY WithinIsReached
  <1>2. \A x \in T \cap S : succ[x] \subseteq T
    <2>1. T = Grown(S, succ, T)
      BY WithinGrows
    <2> HIDE DEF T
    <2> QED
      BY <2>1 DEF Grown
  <1> HIDE DEF T
  <1>3. Reached(S, succ, from) \subseteq T
    BY <1>1, <1>2, ReachedIsLeast
  <1> QED
    BY <1>1, <1>3 DEF T

\* What the tools reach is this.
LEMMA SameReached ==
    ASSUME NEW S, NEW succ, NEW from
    PROVE  /\ Closure!Reached(S, succ, from) = Reached(S, succ, from)
           /\ Events!Reached(S, succ, from) = Reached(S, succ, from)
           /\ Needs!Reached(S, succ, from) = Reached(S, succ, from)
           /\ \A n : Needs!Within(n, S, succ, from) = Within(n, S, succ, from)
  BY Zenon
  DEF Closure!Reached, Events!Reached, Needs!Reached, Reached, Closure!Within, Events!Within,
      Needs!Within, Within, Closure!Cardinality, Events!Cardinality, Needs!Cardinality,
      Cardinality

-----------------------------------------------------------------------------
(* Sorting *)

\* What a sequence is.
LEMMA IsSequence ==
    ASSUME NEW S, NEW N \in Nat, NEW s, s = [n \in 1..N |-> s[n]], \A n \in 1..N : s[n] \in S
    PROVE  s \in Seq(S) /\ Len(s) = N
  <1>1. s \in [1..N -> S]
    OBVIOUS
  <1>2. s \in Seq(S)
    BY <1>1, SeqDef
  <1>3. DOMAIN s = 1..Len(s) /\ DOMAIN s = 1..N /\ Len(s) \in Nat
    BY <1>1, <1>2, LenProperties
  <1>4. Len(s) = N
    BY <1>3
  <1> QED
    BY <1>2, <1>4

\* A relation that puts the elements of P in one order.
Orders(before, P) ==
    /\ \A p \in P : <<p, p>> \notin before
    /\ \A p, q \in P : p # q => <<p, q>> \in before \/ <<q, p>> \in before
    /\ \A p, q, r \in P :
          <<p, q>> \in before /\ <<q, r>> \in before => <<p, r>> \in before

\* `from` says from which position the n-th of the sorted sequence comes.
Arranges(from, sorted, s, P, before, N) ==
    /\ from \in [1..N -> P]
    /\ sorted = [n \in 1..N |-> s[from[n]]]
    /\ \A p \in P : \E n \in 1..N : from[n] = p
    /\ \A m, n \in 1..N : m < n => <<from[m], from[n]>> \in before

\* What is arranged is there, each element once, and in order.
LEMMA ArrangeArranges ==
    ASSUME NEW s, NEW P, IsFiniteSet(P), NEW before, Orders(before, P), NEW N, N = Cardinality(P)
    PROVE  N \in Nat /\ \E from : Arranges(from, Arrange(s, P, before), s, P, before, N)
  <1> DEFINE Below(p) == {q \in P : <<q, p>> \in before}
             c == [p \in P |-> Cardinality(Below(p))]
             place == [p \in P |-> c[p] + 1]
  <1>0. N \in Nat
    BY FS_CardinalityType
  <1>1. IsFiniteSet(1..N) /\ Cardinality(1..N) = N
    BY <1>0, FS_Interval
  <1>2. \A p : /\ IsFiniteSet(Below(p)) /\ Cardinality(Below(p)) \in Nat
    BY FS_Subset, FS_CardinalityType
  <1>3. ASSUME NEW p \in P
        PROVE  Cardinality(Below(p)) <= N - 1
    <2> DEFINE b == Cardinality(Below(p))
               d == Cardinality(P \ {p})
    <2>1. IsFiniteSet(P \ {p}) /\ d = N - 1
      BY FS_RemoveElement
    <2>2. Below(p) \in SUBSET (P \ {p})
      BY DEF Orders
    <2>3. b <= d
      BY <2>1, <2>2, FS_Subset
    <2> HIDE DEF b, d
    <2>4. b <= N - 1
      BY <2>1, <2>3
    <2> QED
      BY <2>4 DEF b
  <1>4. ASSUME NEW p \in P, NEW q \in P, <<q, p>> \in before
        PROVE  Cardinality(Below(q)) < Cardinality(Below(p))
    <2>1. Below(q) \in SUBSET Below(p)
      BY <1>4 DEF Orders
    <2>2. q \in Below(p) /\ q \notin Below(q)
      BY <1>4 DEF Orders
    <2>3. Below(q) # Below(p)
      BY <2>2
    <2> DEFINE b == Cardinality(Below(q))
               d == Cardinality(Below(p))
    <2>4. b <= d /\ b # d
      <3> HIDE DEF Below
      <3> QED
        BY <1>2, <2>1, <2>3, FS_Subset
    <2>5. b \in Nat /\ d \in Nat
      BY <1>2
    <2> HIDE DEF b, d
    <2>6. b < d
      BY <2>4, <2>5
    <2> QED
      BY <2>6 DEF b, d
  <1>5. \A p \in P : c[p] = Cardinality(Below(p))
    OBVIOUS
  <1>6. \A p \in P : c[p] \in Nat /\ c[p] <= N - 1
    BY <1>2, <1>3, <1>5
  <1>7. \A p, q \in P : <<q, p>> \in before => c[q] < c[p]
    BY <1>4, <1>5
  <1>8. DOMAIN place = P /\ \A p \in P : place[p] = c[p] + 1
    <2> HIDE DEF c
    <2> QED
      OBVIOUS
  <1> HIDE DEF c, place
  <1>9. place \in [P -> 1..N]
    <2>1. \A p \in P : place[p] \in 1..N
      BY <1>0, <1>6, <1>8
    <2> QED
      BY <2>1 DEF place
  <1>10. \A p, q \in P : place[p] = place[q] => p = q
    <2> SUFFICES ASSUME NEW p \in P, NEW q \in P, p # q, place[p] = place[q]
                 PROVE  FALSE
      OBVIOUS
    <2>1. c[p] = c[q]
      BY <1>6, <1>8
    <2>2. <<p, q>> \in before \/ <<q, p>> \in before
      BY DEF Orders
    <2> QED
      BY <1>6, <1>7, <2>1, <2>2
  <1>11. \A n \in 1..N : \E p \in P : place[p] = n
    <2>1. place \in Injection(P, 1..N)
      BY <1>9, <1>10 DEF Injection, IsInjective
    <2>2. place \in Surjection(P, 1..N)
      BY <1>1, <2>1, FS_Injection
    <2> QED
      BY <2>2 DEF Surjection
  <1> DEFINE from == [n \in 1..N |-> CHOOSE p \in P : Cardinality(Below(p)) = n - 1]
  <1>12. ASSUME NEW n \in 1..N
         PROVE  from[n] \in P /\ place[from[n]] = n
    <2>1. \E p \in P : Cardinality(Below(p)) = n - 1
      <3>1. PICK p \in P : place[p] = n
        BY <1>11
      <3>2. c[p] = n - 1
        BY <1>6, <1>8, <3>1
      <3> QED
        BY <1>5, <3>2
    <2>2. from[n] \in P /\ Cardinality(Below(from[n])) = n - 1
      <3> HIDE DEF Below
      <3> QED
        BY <2>1
    <2> HIDE DEF from
    <2>3. c[from[n]] = n - 1
      BY <1>5, <2>2
    <2> QED
      BY <1>8, <2>2, <2>3
  <1>13. Arrange(s, P, before) = [n \in 1..N |-> s[from[n]]]
    BY DEF Arrange
  <1>14. \A n \in 1..N : from[n] \in P
    BY <1>12
  <1>15. from \in [1..N -> P]
    <2> DEFINE it(n) == CHOOSE p \in P : Cardinality(Below(p)) = n - 1
    <2>1. \A n \in 1..N : from[n] = it(n)
      OBVIOUS
    <2>2. from = [n \in 1..N |-> it(n)]
      OBVIOUS
    <2> HIDE DEF from, it
    <2> QED
      BY <1>14, <2>1, <2>2
  <1> HIDE DEF from
  <1>16. \A p \in P : \E n \in 1..N : from[n] = p
    BY <1>9, <1>10, <1>12
  <1>17. \A m, n \in 1..N : m < n => <<from[m], from[n]>> \in before
    <2> SUFFICES ASSUME NEW m \in 1..N, NEW n \in 1..N, m < n
                 PROVE  <<from[m], from[n]>> \in before
      OBVIOUS
    <2>1. /\ from[m] \in P /\ from[n] \in P
          /\ c[from[m]] + 1 = m /\ c[from[n]] + 1 = n
      BY <1>8, <1>12
    <2>2. from[m] # from[n]
      BY <2>1
    <2>3. <<from[n], from[m]>> \notin before
      BY <1>6, <1>7, <2>1
    <2> QED
      BY <2>1, <2>2, <2>3 DEF Orders
  <1> QED
    BY <1>0, <1>13, <1>15, <1>16, <1>17 DEF Arranges

\* A sort does that with all of a sequence.
LEMMA SortArranges ==
    ASSUME NEW s, NEW N \in Nat, DOMAIN s = 1..N, NEW before, Orders(before, 1..N)
    PROVE  \E from : Arranges(from, SortBy(s, before), s, 1..N, before, N)
  <1>1. IsFiniteSet(1..N) /\ N = Cardinality(1..N)
    BY FS_Interval
  <1>2. SortBy(s, before) = Arrange(s, 1..N, before)
    BY DEF SortBy
  <1> QED
    BY <1>1, <1>2, ArrangeArranges

\* The report sorts so.
LEMMA SameSort ==
    ASSUME NEW s, NEW before
    PROVE  Tables!SortBy(s, before) = SortBy(s, before)
  BY Zenon DEF Tables!SortBy, SortBy, Tables!Arrange, Arrange, Tables!Cardinality, Cardinality

-----------------------------------------------------------------------------
(* The closure of pin *)

Roots1(arch) == {Closure!Root(n, arch) : n \in Declared}

\* There are finitely many packages to lock, and an architecture comes in its turn.
LEMMA ClosureSets ==
    ASSUME Closure!ClosureAssumption
    PROVE  /\ IsFiniteSet(Closure!Keys)
           /\ Len(Arches) \in Nat /\ DOMAIN Arches = 1..Len(Arches)
           /\ \A n \in 1..Len(Arches) : Arches[n] \in Closure!ArchSet
  <1> USE DEF Closure!ClosureAssumption
  <1>1. Len(Arches) \in Nat /\ DOMAIN Arches = 1..Len(Arches)
    OBVIOUS
  <1>2. \A n \in 1..Len(Arches) : Arches[n] \in Closure!ArchSet
    BY <1>1 DEF Closure!ArchSet
  <1>3. IsFiniteSet(1..NPkgs) /\ IsFiniteSet(1..Len(Arches))
    BY <1>1, FS_Interval
  <1>4. IsFiniteSet(Closure!ArchSet)
    <2>1. Arches \in Surjection(1..Len(Arches), Closure!ArchSet)
      BY <1>1 DEF Closure!ArchSet, Surjection, Range
    <2> QED
      BY <1>3, <2>1, FS_Surjection
  <1>5. IsFiniteSet(Closure!ArchSet \cup {"noarch"})
    BY <1>4, FS_AddElement
  <1>6. IsFiniteSet(Closure!Keys)
    BY <1>3, <1>5, FS_Product DEF Closure!Keys, Closure!Names
  <1> QED
    BY <1>1, <1>2, <1>6

\* What is reachable holds the roots and what they require, and is the least that does.
LEMMA ReachableIsClosed ==
    ASSUME Closure!ClosureAssumption, NEW arch
    PROVE  LET R == Closure!Reachable(arch)
           IN  /\ Roots1(arch) \subseteq R
               /\ \A k \in R \cap Closure!Keys : Closure!Edges(k, arch) \subseteq R
               /\ \A T : /\ Roots1(arch) \subseteq T
                         /\ \A k \in T \cap Closure!Keys : Closure!Edges(k, arch) \subseteq T
                         => R \subseteq T
  <1> DEFINE succ == [k \in Closure!Keys |-> Closure!Edges(k, arch)]
             R == Reached(Closure!Keys, succ, Roots1(arch))
  <1>1. IsFiniteSet(Closure!Keys)
    BY ClosureSets
  <1>2. Closure!Reachable(arch) = R
    BY SameReached DEF Closure!Reachable, Roots1
  <1>3. \A k \in Closure!Keys : succ[k] = Closure!Edges(k, arch)
    OBVIOUS
  <1> HIDE DEF succ
  <1>4. Roots1(arch) \subseteq R /\ \A k \in R \cap Closure!Keys : succ[k] \subseteq R
    BY <1>1, ReachedCloses
  <1>5. ASSUME NEW T, Roots1(arch) \subseteq T,
               \A k \in T \cap Closure!Keys : succ[k] \subseteq T
        PROVE  R \subseteq T
    BY <1>1, <1>5, ReachedIsLeast
  <1> HIDE DEF R
  <1> QED
    BY <1>2, <1>3, <1>4, <1>5

\* The repository does not change while pin resolves it.
LEMMA RepoStays ==
    ASSUME UNCHANGED <<v1, v2>>
    PROVE  \A arch : /\ Closure!Reachable(arch)' = Closure!Reachable(arch)
                     /\ Roots1(arch)' = Roots1(arch)
                     /\ \A k : Closure!Edges(k, arch)' = Closure!Edges(k, arch)
  <1>1. ASSUME NEW arch, NEW k
        PROVE  Closure!Edges(k, arch)' = Closure!Edges(k, arch)
    BY DEF Closure!Edges, Closure!PickProvider, Closure!Compatible, Closure!Providers,
           Closure!Candidates
  <1>2. ASSUME NEW arch, NEW n
        PROVE  Closure!Root(n, arch)' = Closure!Root(n, arch)
    BY DEF Closure!Root
  <1>3. ASSUME NEW arch
        PROVE  Closure!Reachable(arch)' = Closure!Reachable(arch)
    BY <1>1, <1>2 DEF Closure!Reachable
  <1>4. ASSUME NEW arch
        PROVE  Roots1(arch)' = Roots1(arch)
    BY <1>2 DEF Roots1
  <1> QED
    BY <1>1, <1>3, <1>4

\* What is reachable, the roots and the edges, of the architectures there are.
Reach == [a \in Closure!ArchSet |-> Closure!Reachable(a)]
RootsOf == [a \in Closure!ArchSet |-> Roots1(a)]
EdgesOf == [a \in Closure!ArchSet |-> [k \in Closure!Keys |-> Closure!Edges(k, a)]]

\* What pin's worklist keeps to.
ClosureInv ==
    /\ v3 \in Nat /\ v3 <= Len(Arches) /\ v5 \subseteq Closure!Keys
    /\ v5 \subseteq UNION {Reach[a] : a \in Closure!ArchSet}
    /\ pc = "seed" /\ v3 = 0 => v5 = {}
    /\ pc \in {"close", "validate"} => v3 >= 1
    /\ pc = "close" => v4 \subseteq Reach[Arches[v3]]
    /\ pc = "close" /\ v3 = 1 =>
          /\ RootsOf[Arches[1]] \subseteq v5 \cup v4
          /\ \A k \in v5 : EdgesOf[Arches[1]][k] \subseteq v5 \cup v4
    /\ pc \in {"seed", "close", "validate"} /\ v3 >= 1 /\ ~ (v3 = 1 /\ pc = "close") =>
          Reach[Arches[1]] \subseteq v5

\* The architectures' sets, said once for them all.
LEMMA ReachFacts ==
    ASSUME Closure!ClosureAssumption
    PROVE  \A a \in Closure!ArchSet :
              /\ Reach[a] = Closure!Reachable(a) /\ RootsOf[a] = Roots1(a)
              /\ \A k \in Closure!Keys : EdgesOf[a][k] = Closure!Edges(k, a)
              /\ RootsOf[a] \subseteq Reach[a]
              /\ \A k \in Reach[a] \cap Closure!Keys : EdgesOf[a][k] \subseteq Reach[a]
              /\ \A T : /\ RootsOf[a] \subseteq T
                        /\ \A k \in T \cap Closure!Keys : EdgesOf[a][k] \subseteq T
                        => Reach[a] \subseteq T
  <1> SUFFICES ASSUME NEW a \in Closure!ArchSet
               PROVE  /\ Reach[a] = Closure!Reachable(a) /\ RootsOf[a] = Roots1(a)
                      /\ \A k \in Closure!Keys : EdgesOf[a][k] = Closure!Edges(k, a)
                      /\ RootsOf[a] \subseteq Reach[a]
                      /\ \A k \in Reach[a] \cap Closure!Keys : EdgesOf[a][k] \subseteq Reach[a]
                      /\ \A T : /\ RootsOf[a] \subseteq T
                                /\ \A k \in T \cap Closure!Keys : EdgesOf[a][k] \subseteq T
                                => Reach[a] \subseteq T
    OBVIOUS
  <1>1. Reach[a] = Closure!Reachable(a) /\ RootsOf[a] = Roots1(a)
    BY DEF Reach, RootsOf
  <1>2. \A k \in Closure!Keys : EdgesOf[a][k] = Closure!Edges(k, a)
    BY DEF EdgesOf
  <1> QED
    BY <1>1, <1>2, ReachableIsClosed

\* pin's repository does not change, so neither do they.
LEMMA ReachStays ==
    ASSUME UNCHANGED <<v1, v2>>
    PROVE  Reach' = Reach /\ RootsOf' = RootsOf /\ EdgesOf' = EdgesOf
  <1>1. Closure!ArchSet' = Closure!ArchSet /\ Closure!Keys' = Closure!Keys
    BY DEF Closure!ArchSet, Closure!Keys, Closure!Names
  <1> QED
    BY <1>1, RepoStays DEF Reach, RootsOf, EdgesOf

\* pin begins within it.
LEMMA ClosureBegins ==
    ASSUME Closure!ClosureAssumption, Closure!Init
    PROVE  ClosureInv
  BY ClosureSets DEF Closure!Init, ClosureInv

\* Every step of pin keeps to it.
LEMMA ClosureGoesOn ==
    ASSUME Closure!ClosureAssumption, ClosureInv, Closure!Next
    PROVE  ClosureInv'
  <1>1. UNCHANGED <<v1, v2>>
    BY DEF Closure!Next, Closure!Seed, Closure!Visit, Closure!ArchDone, Closure!Validate,
           Closure!repo
  <1>2. Reach' = Reach /\ RootsOf' = RootsOf /\ EdgesOf' = EdgesOf
    BY <1>1, ReachStays
  <1>3. Closure!Keys' = Closure!Keys /\ Closure!ArchSet' = Closure!ArchSet
    BY DEF Closure!Keys, Closure!Names, Closure!ArchSet
  <1>4. Len(Arches) \in Nat /\ \A n \in 1..Len(Arches) : Arches[n] \in Closure!ArchSet
    BY ClosureSets
  <1>5. CASE Closure!Seed
    <2> DEFINE a == Arches[v3 + 1]
    <2>1. v3 + 1 \in 1..Len(Arches) /\ v3' = v3 + 1 /\ v5' = v5 /\ pc = "seed"
          /\ pc' \in {"close", "failed"}
      BY <1>4, <1>5 DEF Closure!Seed, ClosureInv
    <2>2. a \in Closure!ArchSet
      BY <1>4, <2>1
    <2>3. pc' = "close" => v4' = RootsOf[a]
      BY <1>5, <2>2, ReachFacts DEF Closure!Seed, Roots1
    <2>4. pc' = "close" => v4' \subseteq Reach[a]
      BY <2>2, <2>3, ReachFacts
    <2>5. v3 = 0 => v5' = {} /\ a = Arches[1]
      BY <2>1 DEF ClosureInv
    <2>6. v3 >= 1 => Reach[Arches[1]] \subseteq v5
      BY <2>1 DEF ClosureInv
    <2> HIDE DEF a
    <2>7. Arches[v3'] = a
      BY <2>1 DEF a
    <2>8. /\ v3' \in Nat /\ v3' >= 1 /\ v3' <= Len(Arches)
          /\ v3 = 0 <=> v3' = 1
          /\ v3' # 1 => v3 >= 1
      BY <1>4, <2>1 DEF ClosureInv
    <2>9. v5 \subseteq Closure!Keys /\ v5 \subseteq UNION {Reach[b] : b \in Closure!ArchSet}
      BY DEF ClosureInv
    <2> QED
      BY <1>2, <1>3, <2>1, <2>3, <2>4, <2>5, <2>6, <2>7, <2>8, <2>9 DEF ClosureInv
  <1>6. ASSUME NEW k \in Closure!Keys, Closure!Visit(k)
        PROVE  ClosureInv'
    <2> DEFINE a == Arches[v3]
    <2>1. pc = "close" /\ pc' = "close" /\ v3' = v3 /\ k \in v4 /\ v5' = v5 \cup {k}
          /\ v3 \in 1..Len(Arches)
      BY <1>4, <1>6 DEF Closure!Visit, ClosureInv
    <2>2. a \in Closure!ArchSet
      BY <1>4, <2>1
    <2>3. /\ EdgesOf[a][k] = Closure!Edges(k, a)
          /\ k \in Reach[a] => EdgesOf[a][k] \subseteq Reach[a]
      BY <2>2, ReachFacts
    <2>4. v4' = IF k \in v5 THEN v4 \ {k} ELSE (v4 \ {k}) \cup EdgesOf[a][k]
      BY <1>6, <2>3 DEF Closure!Visit
    <2>5. v4 \subseteq Reach[a]
      BY <2>1 DEF ClosureInv
    <2>6. v4' \subseteq Reach[a]
      BY <2>1, <2>3, <2>4, <2>5
    <2>7. v5' \subseteq Closure!Keys /\ v5' \subseteq UNION {Reach[b] : b \in Closure!ArchSet}
      BY <2>1, <2>2, <2>5 DEF ClosureInv
    <2>8. v3 = 1 => /\ RootsOf[Arches[1]] \subseteq v5' \cup v4'
                    /\ \A x \in v5' : EdgesOf[Arches[1]][x] \subseteq v5' \cup v4'
      <3> SUFFICES ASSUME v3 = 1
                   PROVE  /\ RootsOf[Arches[1]] \subseteq v5' \cup v4'
                          /\ \A x \in v5' : EdgesOf[Arches[1]][x] \subseteq v5' \cup v4'
        OBVIOUS
      <3>1. /\ RootsOf[Arches[1]] \subseteq v5 \cup v4
            /\ \A x \in v5 : EdgesOf[Arches[1]][x] \subseteq v5 \cup v4
        BY <2>1 DEF ClosureInv
      <3>2. v5 \cup v4 \subseteq v5' \cup v4'
        BY <2>1, <2>4
      <3>3. k \notin v5 => EdgesOf[Arches[1]][k] \subseteq v4'
        BY <2>4
      <3> QED
        BY <2>1, <3>1, <3>2, <3>3
    <2>9. v3 # 1 => Reach[Arches[1]] \subseteq v5'
      BY <2>1 DEF ClosureInv
    <2>10. v3' \in Nat /\ v3' <= Len(Arches) /\ v3' >= 1 /\ v3' # 0
      BY <1>4, <2>1
    <2> HIDE DEF a
    <2>11. Arches[v3'] = a
      BY <2>1 DEF a
    <2> QED
      BY <1>2, <1>3, <2>1, <2>6, <2>7, <2>8, <2>9, <2>10, <2>11 DEF ClosureInv
  <1>7. CASE Closure!ArchDone
    <2>1. pc = "close" /\ v4 = {} /\ pc' \in {"seed", "validate"} /\ v3' = v3 /\ v5' = v5
      BY <1>7 DEF Closure!ArchDone
    <2>2. v3 \in 1..Len(Arches) /\ v3 >= 1 /\ v3 # 0
      BY <1>4, <2>1 DEF ClosureInv
    <2>3. Arches[1] \in Closure!ArchSet
      BY <1>4, <2>2
    <2>4. Reach[Arches[1]] \subseteq v5
      <3>1. CASE v3 = 1
        <4>1. /\ RootsOf[Arches[1]] \subseteq v5
              /\ \A k \in v5 : EdgesOf[Arches[1]][k] \subseteq v5
          BY <2>1, <3>1 DEF ClosureInv
        <4> QED
          BY <2>3, <4>1, ReachFacts
      <3>2. CASE v3 # 1
        BY <2>1, <2>2, <3>2 DEF ClosureInv
      <3> QED
        BY <3>1, <3>2
    <2> QED
      BY <1>2, <1>3, <2>1, <2>2, <2>4 DEF ClosureInv
  <1>8. CASE Closure!Validate
    <2>1. pc = "validate" /\ pc' \in {"locked", "failed"} /\ v3' = v3 /\ v5' = v5
      BY <1>8 DEF Closure!Validate
    <2> QED
      BY <1>2, <1>3, <2>1 DEF ClosureInv
  <1> QED
    BY <1>5, <1>6, <1>7, <1>8 DEF Closure!Next

\* What is locked is what the first architecture reaches, and nothing that none does.
LEMMA ClosureShowsExact ==
    ASSUME Closure!ClosureAssumption, ClosureInv
    PROVE  Closure!FirstArchClosed /\ Closure!ClosureIsNeeded
  <1> SUFFICES ASSUME pc = "validate"
               PROVE  /\ Closure!Reachable(Arches[1]) \subseteq v5
                      /\ v5 \subseteq UNION {Closure!Reachable(a) : a \in Closure!ArchSet}
    BY DEF Closure!FirstArchClosed, Closure!ClosureIsNeeded
  <1>1. v3 >= 1 /\ v3 \in Nat /\ v3 <= Len(Arches)
    BY DEF ClosureInv
  <1>2. Arches[1] \in Closure!ArchSet
    BY <1>1, ClosureSets
  <1>3. Reach[Arches[1]] \subseteq v5 /\ v5 \subseteq UNION {Reach[a] : a \in Closure!ArchSet}
    BY <1>1 DEF ClosureInv
  <1>4. UNION {Reach[a] : a \in Closure!ArchSet}
            = UNION {Closure!Reachable(a) : a \in Closure!ArchSet}
    BY ReachFacts
  <1> QED
    BY <1>2, <1>3, <1>4, ReachFacts

-----------------------------------------------------------------------------
(* The digests of a build *)

\* What is reached from several nodes is what is reached from one or another.
LEMMA ReachedFromEach ==
    ASSUME NEW S, IsFiniteSet(S), NEW succ, NEW from
    PROVE  Reached(S, succ, from) = UNION {Reached(S, succ, {x}) : x \in from}
  <1> DEFINE T == UNION {Reached(S, succ, {x}) : x \in from}
  <1>1. \A x : /\ x \in Reached(S, succ, {x})
               /\ \A y \in Reached(S, succ, {x}) \cap S : succ[y] \subseteq Reached(S, succ, {x})
    BY ReachedCloses
  <1>2. from \subseteq T /\ \A y \in T \cap S : succ[y] \subseteq T
    BY <1>1
  <1>3. Reached(S, succ, from) \subseteq T
    <2> HIDE DEF T
    <2> QED
      BY <1>2, ReachedIsLeast
  <1>4. ASSUME NEW x \in from
        PROVE  Reached(S, succ, {x}) \subseteq Reached(S, succ, from)
    BY ReachedIsLeast, ReachedCloses
  <1> QED
    BY <1>3, <1>4

\* The sets below some of a graph, and the files in sets.
Below(g) == [s \in DOMAIN g |-> g[s].fileSets]
Under(g, from) == Reached(DOMAIN g, Below(g), from)
FilesOf(g, ids) == UNION {g[s].files : s \in ids \cap DOMAIN g}

\* A completion whose outputs the hash of a label is over.
Counts(e, l) == e.label = l /\ e.success /\ e.group = "default"

\* hashOutputs is on its way from `from` to everything under it.
Walked(g, from, w) ==
    /\ from \subseteq w.todo \cup w.visited
    /\ w.todo \cup w.visited \subseteq Under(g, from)
    /\ \A s \in w.visited \cap DOMAIN g : g[s].fileSets \subseteq w.todo \cup w.visited
    /\ w.seen = FilesOf(g, w.visited)

\* What OutputDigests keeps to, whatever has come so far.
ReadInv ==
    /\ v1.graph \in Graphs /\ v1.completed \in Completions
    /\ v2 = [sets |-> v2.sets, completed |-> v2.completed]
    /\ v3 \cup v2.sets = DOMAIN v1.graph /\ v2.completed \subseteq v1.completed
    /\ DOMAIN v4 = Labels
    /\ \A l \in Labels :
          v4[l] = UNION {e.fileSets : e \in {x \in v1.completed \ v2.completed : Counts(x, l)}}
    /\ pc # "read" => v2.sets = {} /\ v2.completed = {}
    /\ pc = "read" => v5 = <<>> /\ DOMAIN v6 = {}

\* What its walks keep to, once everything has.
WalkInv ==
    /\ v5 # <<>> => /\ v5 = [label |-> v5.label, todo |-> v5.todo,
                             visited |-> v5.visited, seen |-> v5.seen]
                    /\ v5.label \in Labels /\ Walked(v1.graph, v4[v5.label], v5)
    /\ DOMAIN v6 \subseteq Labels
    /\ \A l \in DOMAIN v6 : v6[l] = FilesOf(v1.graph, Under(v1.graph, v4[l]))
    /\ pc = "done" => DOMAIN v6 = Labels

EventsInv == ReadInv /\ WalkInv

\* A walk begins at what it is to visit, ...
LEMMA WalkBegins ==
    ASSUME NEW g, IsFiniteSet(DOMAIN g), NEW from, NEW label
    PROVE  Walked(g, from, [label |-> label, todo |-> from, visited |-> {}, seen |-> {}])
  <1>1. from \subseteq Under(g, from)
    BY ReachedCloses DEF Under
  <1>2. FilesOf(g, {}) = {}
    BY DEF FilesOf
  <1> QED
    BY <1>1, <1>2 DEF Walked

\* ... goes on to the sets below those it has not visited, ...
LEMMA WalkGoesOn ==
    ASSUME NEW g, IsFiniteSet(DOMAIN g), NEW from, NEW w, NEW id \in w.todo,
           Walked(g, from, w), NEW w2,
           LET known == id \in DOMAIN g /\ id \notin w.visited
           IN  /\ w2.todo = (w.todo \ {id}) \cup (IF known THEN g[id].fileSets ELSE {})
               /\ w2.visited = w.visited \cup {id}
               /\ w2.seen = w.seen \cup (IF known THEN g[id].files ELSE {})
    PROVE  Walked(g, from, w2)
  <1> DEFINE known == id \in DOMAIN g /\ id \notin w.visited
  <1>1. w.todo \cup w.visited \subseteq w2.todo \cup w2.visited
    OBVIOUS
  <1>2. \A s \in Under(g, from) \cap DOMAIN g : g[s].fileSets \subseteq Under(g, from)
    BY ReachedCloses DEF Under, Below
  <1>3. w2.todo \cup w2.visited \subseteq Under(g, from)
    BY <1>2 DEF Walked
  <1>4. \A s \in w2.visited \cap DOMAIN g : g[s].fileSets \subseteq w2.todo \cup w2.visited
    BY <1>1 DEF Walked
  <1>5. w2.seen = FilesOf(g, w2.visited)
    BY DEF Walked, FilesOf
  <1> QED
    BY <1>1, <1>3, <1>4, <1>5 DEF Walked

\* ... and has seen every file under it when nothing is left.
LEMMA WalkEnds ==
    ASSUME NEW g, IsFiniteSet(DOMAIN g), NEW from, NEW w, Walked(g, from, w), w.todo = {}
    PROVE  w.seen = FilesOf(g, Under(g, from))
  <1>1. from \subseteq w.visited /\ w.visited \subseteq Under(g, from)
    BY DEF Walked
  <1>2. \A s \in w.visited \cap DOMAIN g : Below(g)[s] \subseteq w.visited
    BY DEF Walked, Below
  <1>3. Under(g, from) \subseteq w.visited
    BY <1>1, <1>2, ReachedIsLeast DEF Under
  <1>4. Under(g, from) = w.visited
    BY <1>1, <1>3
  <1> QED
    BY <1>4 DEF Walked

\* A graph is finite, and a label is one of those there are.
LEMMA EventsSets ==
    ASSUME Events!EventsAssumption, ReadInv
    PROVE  /\ IsFiniteSet(DOMAIN v1.graph)
           /\ \A e \in v1.completed : e.label \in Labels
  <1>1. IsFiniteSet(SetIds) /\ DOMAIN v1.graph \subseteq SetIds
    BY Zenon DEF Events!EventsAssumption, Events!IsFiniteSet, IsFiniteSet, ReadInv
  <1>2. IsFiniteSet(DOMAIN v1.graph)
    BY <1>1, FS_Subset
  <1> QED
    BY <1>2 DEF Events!EventsAssumption, ReadInv

\* OutputDigests begins within it.
LEMMA EventsBegins ==
    ASSUME Events!Init
    PROVE  EventsInv
  <1>1. ReadInv
    BY DEF Events!Init, ReadInv
  <1>2. WalkInv
    BY DEF Events!Init, WalkInv
  <1> QED
    BY <1>1, <1>2 DEF EventsInv

\* Reading an event keeps to it.
LEMMA ReadGoesOn ==
    ASSUME Events!EventsAssumption, EventsInv,
           (\E id \in SetIds : Events!NamedSet(id))
               \/ (\E e \in v2.completed : Events!Completed(e))
    PROVE  EventsInv'
  <1>1. pc = "read" /\ UNCHANGED <<v1, v5, v6, pc>>
    BY DEF Events!NamedSet, Events!Completed
  <1>2. v5 = <<>> /\ DOMAIN v6 = {}
    BY <1>1 DEF EventsInv, ReadInv
  <1>3. WalkInv'
    BY <1>1, <1>2 DEF WalkInv
  <1>4. ASSUME NEW id \in SetIds, Events!NamedSet(id)
        PROVE  ReadInv'
    <2>1. /\ id \in v2.sets /\ v3' = v3 \cup {id} /\ v2' = [v2 EXCEPT !.sets = @ \ {id}]
          /\ v4' = v4
      BY <1>4 DEF Events!NamedSet
    <2>2. v2' = [sets |-> v2.sets \ {id}, completed |-> v2.completed]
      BY <2>1 DEF EventsInv, ReadInv
    <2> QED
      BY <1>1, <2>1, <2>2 DEF EventsInv, ReadInv
  <1>5. ASSUME NEW e \in v2.completed, Events!Completed(e)
        PROVE  ReadInv'
    <2>1. /\ v2' = [v2 EXCEPT !.completed = @ \ {e}] /\ v3' = v3
          /\ v4' = IF Counts(e, e.label) THEN [v4 EXCEPT ![e.label] = @ \cup e.fileSets] ELSE v4
      BY <1>5 DEF Events!Completed, Counts
    <2>2. v2' = [sets |-> v2.sets, completed |-> v2.completed \ {e}] /\ v3' = v3
      BY <2>1 DEF EventsInv, ReadInv
    <2>3. e \in v1.completed /\ e.label \in Labels /\ DOMAIN v4 = Labels /\ DOMAIN v4' = Labels
      BY <2>1, EventsSets DEF EventsInv, ReadInv
    <2>4. ASSUME NEW l \in Labels
          PROVE  v4'[l] = UNION {x.fileSets : x \in {y \in v1.completed \ v2'.completed :
                                                         Counts(y, l)}}
      <3>1. v4[l] = UNION {x.fileSets : x \in {y \in v1.completed \ v2.completed : Counts(y, l)}}
        BY DEF EventsInv, ReadInv
      <3>2. v4'[l] = v4[l] \cup (IF Counts(e, l) THEN e.fileSets ELSE {})
        BY <2>1, <2>3 DEF Counts
      <3>3. v1.completed \ v2'.completed = (v1.completed \ v2.completed) \cup {e}
        BY <2>2, <2>3
      <3> QED
        BY <3>1, <3>2, <3>3
    <2> QED
      BY <1>1, <1>2, <2>2, <2>3, <2>4 DEF EventsInv, ReadInv
  <1> QED
    BY <1>3, <1>4, <1>5 DEF EventsInv

\* Hashing keeps to it.
LEMMA HashGoesOn ==
    ASSUME Events!EventsAssumption, EventsInv,
           \/ \E label \in Labels : Events!Hash(label)
           \/ \E id \in SetIds : Events!Visit(id)
           \/ Events!Sum
    PROVE  EventsInv'
  <1>1. /\ UNCHANGED <<v1, v2, v3, v4>> /\ v2.sets = {} /\ v2.completed = {}
        /\ pc' \in {pc, "walk", "done"} /\ pc' # "read"
        /\ v3 = DOMAIN v1.graph
    BY DEF Events!Hash, Events!Visit, Events!Sum, EventsInv, ReadInv
  <1>2. ReadInv'
    BY <1>1 DEF EventsInv, ReadInv
  <1>3. IsFiniteSet(DOMAIN v1.graph)
    BY EventsSets DEF EventsInv
  <1>4. /\ DOMAIN v6 \subseteq Labels /\ (pc = "done" => DOMAIN v6 = Labels)
        /\ \A l \in DOMAIN v6 : v6[l] = FilesOf(v1.graph, Under(v1.graph, v4[l]))
    BY DEF EventsInv, WalkInv
  <1>5. ASSUME NEW label \in Labels, Events!Hash(label)
        PROVE  WalkInv'
    <2>1. /\ v5' = [label |-> label, todo |-> v4[label], visited |-> {}, seen |-> {}]
          /\ v6' = v6 /\ pc' = "walk"
      BY <1>5 DEF Events!Hash
    <2>2. Walked(v1.graph, v4[label], v5')
      BY <1>3, <2>1, WalkBegins
    <2>3. v5'.label = label /\ v5' = [label |-> v5'.label, todo |-> v5'.todo,
                                      visited |-> v5'.visited, seen |-> v5'.seen]
      BY <2>1
    <2> QED
      BY <1>1, <1>4, <2>1, <2>2, <2>3 DEF WalkInv
  <1>6. ASSUME NEW id \in SetIds, Events!Visit(id)
        PROVE  WalkInv'
    <2> DEFINE known == id \in DOMAIN v1.graph /\ id \notin v5.visited
    <2>1. /\ v5 = [label |-> v5.label, todo |-> v5.todo, visited |-> v5.visited,
                   seen |-> v5.seen]
          /\ v5.label \in Labels /\ Walked(v1.graph, v4[v5.label], v5) /\ id \in v5.todo
      BY <1>6 DEF Events!Visit, EventsInv, WalkInv
    <2>2. v5' = [v5 EXCEPT !.todo = (@ \ {id}) \cup
                                       (IF known THEN v1.graph[id].fileSets ELSE {}),
                           !.visited = @ \cup {id},
                           !.seen = @ \cup (IF known THEN v1.graph[id].files ELSE {})]
          /\ v6' = v6 /\ pc' = pc
      BY <1>1, <1>6 DEF Events!Visit
    <2>3. v5' = [label |-> v5.label,
                 todo |-> (v5.todo \ {id}) \cup (IF known THEN v1.graph[id].fileSets ELSE {}),
                 visited |-> v5.visited \cup {id},
                 seen |-> v5.seen \cup (IF known THEN v1.graph[id].files ELSE {})]
      <3> HIDE DEF known
      <3> QED
        BY <2>1, <2>2
    <2>4. Walked(v1.graph, v4[v5.label], v5')
      BY <1>3, <2>1, <2>3, WalkGoesOn
    <2>5. v5'.label = v5.label /\ v5' = [label |-> v5'.label, todo |-> v5'.todo,
                                         visited |-> v5'.visited, seen |-> v5'.seen]
      BY <2>3
    <2> QED
      BY <1>1, <1>4, <2>1, <2>2, <2>4, <2>5 DEF WalkInv
  <1>7. ASSUME Events!Sum
        PROVE  WalkInv'
    <2>1. /\ v5.label \in Labels /\ Walked(v1.graph, v4[v5.label], v5) /\ v5.todo = {}
          /\ v5' = <<>> /\ (pc' = "done" => DOMAIN v6' = Labels \/ pc = "done")
          /\ v6' = [label \in DOMAIN v6 \cup {v5.label} |->
                       IF label = v5.label THEN v5.seen ELSE v6[label]]
      BY <1>7 DEF Events!Sum, EventsInv, WalkInv
    <2>2. v5.seen = FilesOf(v1.graph, Under(v1.graph, v4[v5.label]))
      BY <1>3, <2>1, WalkEnds
    <2>3. DOMAIN v6' = DOMAIN v6 \cup {v5.label}
      BY <2>1
    <2>4. \A l \in DOMAIN v6' : v6'[l] = FilesOf(v1.graph, Under(v1.graph, v4[l]))
      BY <1>4, <2>1, <2>2, <2>3
    <2>5. DOMAIN v6' \subseteq Labels /\ (pc' = "done" => DOMAIN v6' = Labels)
      BY <1>4, <2>1, <2>3
    <2> QED
      BY <1>1, <2>1, <2>4, <2>5 DEF WalkInv
  <1>8. WalkInv'
    BY <1>5, <1>6, <1>7
  <1> QED
    BY <1>2, <1>8 DEF EventsInv

\* Every step of OutputDigests keeps to it.
LEMMA EventsGoesOn ==
    ASSUME Events!EventsAssumption, EventsInv, Events!Next
    PROVE  EventsInv'
  BY ReadGoesOn, HashGoesOn DEF Events!Next

\* A digest is over the files under the file sets of the completions that count.
LEMMA EventsShowExact ==
    ASSUME Events!EventsAssumption, EventsInv
    PROVE  Events!DigestsExact
  <1> DEFINE g == v1.graph
  <1>1. IsFiniteSet(DOMAIN g)
    BY EventsSets DEF EventsInv
  <1>2. ASSUME NEW id, NEW file
        PROVE  Events!Holds(id, file) <=> file \in FilesOf(g, Under(g, {id}))
    BY <1>1, SameReached DEF Events!Holds, FilesOf, Under, Below
  <1>3. ASSUME NEW from
        PROVE  Under(g, from) = UNION {Under(g, {id}) : id \in from}
    BY <1>1, ReachedFromEach DEF Under
  <1>4. ASSUME NEW from, NEW file
        PROVE  file \in FilesOf(g, Under(g, from)) <=> \E id \in from : Events!Holds(id, file)
    <2>1. file \in FilesOf(g, Under(g, from))
              <=> \E id \in from : file \in FilesOf(g, Under(g, {id}))
      <3> HIDE DEF g
      <3>1. Under(g, from) = UNION {Under(g, {id}) : id \in from}
        BY <1>3
      <3>2. \A ids : file \in FilesOf(g, ids)
                         <=> \E s \in ids : s \in DOMAIN g /\ file \in g[s].files
        BY DEF FilesOf
      <3>3. \A s : s \in Under(g, from) <=> \E id \in from : s \in Under(g, {id})
        BY <3>1
      <3> QED
        BY <3>2, <3>3, Zenon
    <2> QED
      BY <1>2, <2>1
  <1>5. ASSUME pc = "done", NEW l \in Labels
        PROVE  /\ v6[l] = FilesOf(g, Under(g, v4[l]))
               /\ v4[l] = UNION {e.fileSets : e \in {x \in v1.completed : Counts(x, l)}}
    BY <1>5 DEF EventsInv, ReadInv, WalkInv
  <1>6. ASSUME pc = "done", NEW l \in Labels, NEW file
        PROVE  file \in v6[l] <=> \E e \in v1.completed :
                   /\ e.label = l /\ e.success /\ e.group = "default"
                   /\ \E id \in e.fileSets : Events!Holds(id, file)
    <2>1. file \in v6[l] <=> \E id \in v4[l] : Events!Holds(id, file)
      BY <1>4, <1>5, <1>6
    <2>2. \A id : id \in v4[l] <=> \E e \in v1.completed : Counts(e, l) /\ id \in e.fileSets
      BY <1>5, <1>6
    <2> QED
      BY <2>1, <2>2 DEF Counts
  <1> QED
    BY <1>6 DEF Events!DigestsExact

-----------------------------------------------------------------------------
(* What an image needs *)

\* Where one link leads, and what stays when it leads nowhere.
Follow(p) == IF Needs!IsLink(p) THEN v1[p].target ELSE p

\* fileInRoot follows a path link by link.
LEMMA Followed ==
    ASSUME Needs!NeedsAssumption, NEW path
    PROVE  \E at : /\ at[0] = path
                   /\ \A k \in 1..(MaxHops - 1) : at[k] = Follow(at[k - 1])
                   /\ Needs!FileInRoot(path) =
                         IF Needs!Regular(at[MaxHops - 1]) THEN <<at[MaxHops - 1]>> ELSE <<>>
  <1> DEFINE N == MaxHops - 1
             D == DOMAIN v1 \cup {v1[p].target : p \in DOMAIN v1} \cup {path}
             step == [k \in 1..N |-> [p \in D |-> Follow(p)]]
             Rec(f) == [n \in 0..N |->
                           IF n = 0 THEN path
                           ELSE LET p == f[n - 1]
                                IN  IF Needs!IsLink(p) THEN v1[p].target ELSE p]
             at == CHOOSE f : f = Rec(f)
  <1>1. N \in Nat
    BY DEF Needs!NeedsAssumption
  <1>2. PICK f : Stepwise(f, N, path, step)
    <2> HIDE DEF N, step
    <2> QED
      BY <1>1, Recursion
  <1>3. \A p \in D : Follow(p) \in D
    BY DEF Follow, Needs!IsLink
  <1>4. \A k \in 1..N : \A p \in D : step[k][p] = Follow(p)
    OBVIOUS
  <1>5. path \in D
    OBVIOUS
  <1> HIDE DEF D, step, N
  <1> DEFINE In == {k \in Nat : k <= N => f[k] \in D}
  <1>6. 0 \in In
    BY <1>1, <1>2, <1>5 DEF Stepwise
  <1>7. ASSUME NEW k \in Nat, k \in In
        PROVE  k + 1 \in In
    <2> SUFFICES ASSUME k + 1 <= N
                 PROVE  f[k + 1] \in D
      OBVIOUS
    <2>1. k + 1 \in 1..N /\ k + 1 \in 0..N /\ (k + 1) - 1 = k /\ k <= N /\ k + 1 # 0
      BY <1>1
    <2>2. f[k] \in D
      BY <1>7, <2>1
    <2>3. f[k + 1] = step[k + 1][f[k]]
      BY <1>2, <2>1 DEF Stepwise
    <2> QED
      BY <1>3, <1>4, <2>1, <2>2, <2>3
  <1>8. Nat \subseteq In
    <2> HIDE DEF In
    <2> QED
      BY <1>6, <1>7, Induction
  <1>9. ASSUME NEW k \in 0..N
        PROVE  f[k] = IF k = 0 THEN path ELSE Follow(f[k - 1])
    <2>1. CASE k = 0
      BY <1>2, <2>1 DEF Stepwise
    <2>2. CASE k # 0
      <3>1. k \in 1..N /\ k - 1 \in Nat /\ k - 1 <= N
        BY <1>1, <2>2
      <3>2. f[k - 1] \in D
        BY <1>8, <3>1
      <3> QED
        BY <1>2, <1>4, <2>2, <3>1, <3>2 DEF Stepwise
    <2> QED
      BY <2>1, <2>2
  <1>10. f = [k \in 0..N |-> f[k]]
    BY <1>2 DEF Stepwise
  <1>11. f = Rec(f)
    BY <1>9, <1>10 DEF Follow
  <1>12. at = Rec(at)
    <2> HIDE DEF Rec
    <2> QED
      BY <1>11
  <1>13. Needs!FileInRoot(path) = IF Needs!Regular(at[N]) THEN <<at[N]>> ELSE <<>>
    BY DEF Needs!FileInRoot, N
  <1> HIDE DEF at
  <1>14. at[0] = path
    BY <1>1, <1>12
  <1>15. \A k \in 1..N : k \in 0..N /\ k # 0
    BY <1>1
  <1>16. \A k \in 1..N : at[k] = Follow(at[k - 1])
    BY <1>12, <1>15 DEF Follow
  <1> QED
    BY <1>13, <1>14, <1>16 DEF N

\* What a path leads to.
LedTo(path) == Reached(DOMAIN v1, Needs!Links(v1), {path})

\* What the limit on links lets be reached is reached, and within it all of it.
LEMMA LinksSuffice ==
    ASSUME Needs!NeedsAssumption, v1 \in Roots, NEW path
    PROVE  LET W == Within(MaxHops - 1, DOMAIN v1, Needs!Links(v1), {path})
           IN  W \subseteq LedTo(path) /\ (Needs!WithinLimits => W = LedTo(path))
  <1> DEFINE W(n) == Within(n, DOMAIN v1, Needs!Links(v1), {path})
  <1>1. IsFiniteSet(DOMAIN v1)
    BY Zenon DEF Needs!NeedsAssumption, Needs!IsFiniteSet, IsFiniteSet
  <1>2. MaxHops - 1 \in Nat /\ (MaxHops - 1) + 1 = MaxHops
    BY DEF Needs!NeedsAssumption
  <1>5. W(MaxHops - 1) \subseteq LedTo(path)
    BY <1>1, <1>2, WithinIsReached DEF LedTo
  <1>3. ASSUME path \in DOMAIN v1, Needs!WithinLimits
        PROVE  W(MaxHops - 1) = LedTo(path)
    <2>1. Needs!Within(MaxHops, DOMAIN v1, Needs!Links(v1), {path})
              = Needs!Within(MaxHops - 1, DOMAIN v1, Needs!Links(v1), {path})
      BY <1>3 DEF Needs!WithinLimits
    <2>2. W(MaxHops) = W(MaxHops - 1)
      BY <2>1, SameReached
    <2> QED
      BY <1>1, <1>2, <2>2, WithinIsAll DEF LedTo
  <1>4. ASSUME path \notin DOMAIN v1
        PROVE  W(MaxHops - 1) = LedTo(path)
    <2>1. W(0) = {path} /\ W(0 + 1) = Grown(DOMAIN v1, Needs!Links(v1), {path})
      BY WithinNone, WithinGrows
    <2>2. W(0 + 1) = W(0)
      BY <1>4, <2>1 DEF Grown
    <2>3. W(0) = LedTo(path)
      BY <1>1, <2>2, WithinIsAll DEF LedTo
    <2>4. {path} \subseteq W(MaxHops - 1) /\ W(MaxHops - 1) \subseteq LedTo(path)
      BY <1>1, <1>2, WithinIsReached DEF LedTo
    <2> QED
      BY <2>1, <2>3, <2>4
  <1> QED
    BY <1>3, <1>4, <1>5

\* What fileInRoot finds is the regular file a path leads to, and within the limits
\* it finds it if there is one.
LEMMA FileInRootExact ==
    ASSUME Needs!NeedsAssumption, v1 \in Roots, NEW path
    PROVE  /\ Needs!FileInRoot(path) # <<>> =>
                 LET q == Needs!FileInRoot(path)[1] IN q \in LedTo(path) /\ Needs!Regular(q)
           /\ Needs!WithinLimits =>
                 \A q \in LedTo(path) : Needs!Regular(q) => Needs!FileInRoot(path) = <<q>>
  <1> DEFINE N == MaxHops - 1
             S == DOMAIN v1
             succ == Needs!Links(v1)
             W(n) == Within(n, S, succ, {path})
  <1>1. PICK at : /\ at[0] = path
                  /\ \A k \in 1..N : at[k] = Follow(at[k - 1])
                  /\ Needs!FileInRoot(path) = IF Needs!Regular(at[N]) THEN <<at[N]>> ELSE <<>>
    BY Followed
  <1>2. N \in Nat
    BY DEF Needs!NeedsAssumption
  <1>3. W(N) \subseteq LedTo(path) /\ (Needs!WithinLimits => W(N) = LedTo(path))
    BY LinksSuffice
  <1>4. W(0) = {path} /\ \A n \in Nat : W(n + 1) = Grown(S, succ, W(n))
    BY WithinNone, WithinGrows
  <1>5. \A p : /\ Needs!IsLink(p) => p \in S /\ succ[p] = {v1[p].target} /\ Follow(p) = v1[p].target
               /\ ~ Needs!IsLink(p) => Follow(p) = p /\ (p \in S => succ[p] = {})
               /\ Needs!Regular(p) => ~ Needs!IsLink(p)
    BY DEF Needs!IsLink, Needs!Regular, Needs!Links, Follow
  <1> HIDE DEF N, W, succ
  <1> DEFINE In == {n \in Nat : n <= N => /\ at[n] \in W(n)
                                          /\ \A q \in W(n) : \E k \in 0..n : q = at[k]}
  <1>6. 0 \in In
    BY <1>1, <1>4
  <1>7. ASSUME NEW n \in Nat, n \in In
        PROVE  n + 1 \in In
    <2> SUFFICES ASSUME n + 1 <= N
                 PROVE  /\ at[n + 1] \in W(n + 1)
                        /\ \A q \in W(n + 1) : \E k \in 0..n + 1 : q = at[k]
      OBVIOUS
    <2>1. n + 1 \in 1..N /\ (n + 1) - 1 = n /\ n <= N
      BY <1>2
    <2>2. at[n] \in W(n) /\ \A q \in W(n) : \E k \in 0..n : q = at[k]
      BY <1>7, <2>1
    <2>3. at[n + 1] = Follow(at[n]) /\ W(n + 1) = Grown(S, succ, W(n))
      BY <1>1, <1>4, <2>1
    <2>4. at[n + 1] \in W(n + 1)
      <3>1. CASE Needs!IsLink(at[n])
        BY <1>5, <2>2, <2>3, <3>1 DEF Grown
      <3>2. CASE ~ Needs!IsLink(at[n])
        BY <1>5, <2>2, <2>3, <3>2 DEF Grown
      <3> QED
        BY <3>1, <3>2
    <2>5. ASSUME NEW q \in W(n + 1)
          PROVE  \E k \in 0..n + 1 : q = at[k]
      <3>1. CASE q \in W(n)
        <4>1. PICK k \in 0..n : q = at[k]
          BY <2>2, <3>1
        <4>2. k \in 0..n + 1
          BY <4>1
        <4> QED
          BY <4>1, <4>2
      <3>2. CASE q \notin W(n)
        <4>1. PICK x \in W(n) \cap S : q \in succ[x]
          BY <2>3, <2>5, <3>2 DEF Grown
        <4>2. Needs!IsLink(x) /\ q = v1[x].target /\ q = Follow(x)
          BY <1>5, <4>1
        <4>3. PICK k \in 0..n : x = at[k]
          BY <2>2, <4>1
        <4>4. k + 1 \in 1..N /\ k + 1 \in 0..n + 1 /\ (k + 1) - 1 = k
          BY <1>2, <2>1, <4>3
        <4>5. q = at[k + 1]
          BY <1>1, <4>2, <4>3, <4>4
        <4> QED
          BY <4>4, <4>5
      <3> QED
        BY <3>1, <3>2
    <2> QED
      BY <2>4, <2>5
  <1>8. Nat \subseteq In
    <2> HIDE DEF In
    <2> QED
      BY <1>6, <1>7, Induction
  <1>9. at[N] \in W(N) /\ \A q \in W(N) : \E k \in 0..N : q = at[k]
    BY <1>2, <1>8
  <1>10. ASSUME NEW k \in 0..N, Needs!Regular(at[k])
         PROVE  at[N] = at[k]
    <2> DEFINE On == {n \in Nat : k + n <= N => at[k + n] = at[k]}
    <2>1. 0 \in On
      OBVIOUS
    <2>2. ASSUME NEW n \in Nat, n \in On
          PROVE  n + 1 \in On
      <3> SUFFICES ASSUME k + (n + 1) <= N
                   PROVE  at[k + (n + 1)] = at[k]
        OBVIOUS
      <3>1. /\ k + (n + 1) \in 1..N /\ (k + (n + 1)) - 1 = k + n /\ k + n <= N
        BY <1>2, <1>10
      <3>2. at[k + (n + 1)] = Follow(at[k + n]) /\ at[k + n] = at[k]
        BY <1>1, <2>2, <3>1
      <3> QED
        BY <1>5, <1>10, <3>2
    <2>3. Nat \subseteq On
      <3> HIDE DEF On
      <3> QED
        BY <2>1, <2>2, Induction
    <2>4. N - k \in Nat /\ k + (N - k) = N
      BY <1>2, <1>10
    <2>5. N - k \in On
      BY <2>3, <2>4
    <2> QED
      BY <1>2, <2>4, <2>5
  <1>11. ASSUME Needs!FileInRoot(path) # <<>>
         PROVE  Needs!FileInRoot(path) = <<at[N]>> /\ Needs!Regular(at[N])
    BY <1>1, <1>11
  <1>12. ASSUME Needs!WithinLimits, NEW q \in LedTo(path), Needs!Regular(q)
         PROVE  Needs!FileInRoot(path) = <<q>>
    BY <1>1, <1>3, <1>9, <1>10, <1>12
  <1> QED
    BY <1>3, <1>9, <1>11, <1>12

\* What files of the configuration include.
IncludedBy(files) == UNION {v2[c].includes : c \in files \cap DOMAIN v2}

\* ldSoConfDirs reads the configuration level by level.
LEMMA ReadByLevel ==
    ASSUME Needs!NeedsAssumption
    PROVE  \E read : /\ read[0] = {"ld.so.conf"}
                     /\ \A d \in 1..MaxDepth : read[d] = IncludedBy(read[d - 1])
                     /\ Needs!LdSoConfDirs =
                           UNION {v2[c].dirs :
                                     c \in (UNION {read[d] : d \in 0..MaxDepth}) \cap DOMAIN v2}
  <1> DEFINE N == MaxDepth
             D == SUBSET ({"ld.so.conf"} \cup IncludedBy(DOMAIN v2))
             step == [k \in 1..N |-> [files \in D |-> IncludedBy(files)]]
             Rec(f) == [depth \in 0..N |->
                           IF depth = 0 THEN {"ld.so.conf"}
                           ELSE UNION {v2[c].includes : c \in f[depth - 1] \cap DOMAIN v2}]
             read == CHOOSE f : f = Rec(f)
  <1>1. N \in Nat
    BY DEF Needs!NeedsAssumption
  <1>2. PICK f : Stepwise(f, N, {"ld.so.conf"}, step)
    <2> HIDE DEF N, step
    <2> QED
      BY <1>1, Recursion
  <1>3. \A files : IncludedBy(files) \in D
    BY DEF IncludedBy
  <1>4. \A k \in 1..N : \A files \in D : step[k][files] = IncludedBy(files)
    OBVIOUS
  <1>5. {"ld.so.conf"} \in D
    OBVIOUS
  <1> HIDE DEF D, step, N
  <1> DEFINE In == {k \in Nat : k <= N => f[k] \in D}
  <1>6. 0 \in In
    BY <1>1, <1>2, <1>5 DEF Stepwise
  <1>7. ASSUME NEW k \in Nat, k \in In
        PROVE  k + 1 \in In
    <2> SUFFICES ASSUME k + 1 <= N
                 PROVE  f[k + 1] \in D
      OBVIOUS
    <2>1. k + 1 \in 1..N /\ k + 1 \in 0..N /\ (k + 1) - 1 = k /\ k <= N /\ k + 1 # 0
      BY <1>1
    <2>2. f[k] \in D
      BY <1>7, <2>1
    <2>3. f[k + 1] = step[k + 1][f[k]]
      BY <1>2, <2>1 DEF Stepwise
    <2> QED
      BY <1>3, <1>4, <2>1, <2>2, <2>3
  <1>8. Nat \subseteq In
    <2> HIDE DEF In
    <2> QED
      BY <1>6, <1>7, Induction
  <1>9. ASSUME NEW k \in 0..N
        PROVE  f[k] = IF k = 0 THEN {"ld.so.conf"} ELSE IncludedBy(f[k - 1])
    <2>1. CASE k = 0
      BY <1>2, <2>1 DEF Stepwise
    <2>2. CASE k # 0
      <3>1. k \in 1..N /\ k - 1 \in Nat /\ k - 1 <= N
        BY <1>1, <2>2
      <3>2. f[k - 1] \in D
        BY <1>8, <3>1
      <3> QED
        BY <1>2, <1>4, <2>2, <3>1, <3>2 DEF Stepwise
    <2> QED
      BY <2>1, <2>2
  <1>10. f = [k \in 0..N |-> f[k]]
    BY <1>2 DEF Stepwise
  <1>11. f = Rec(f)
    BY <1>9, <1>10 DEF IncludedBy
  <1>12. read = Rec(read)
    <2> HIDE DEF Rec
    <2> QED
      BY <1>11
  <1>13. Needs!LdSoConfDirs =
             UNION {v2[c].dirs : c \in (UNION {read[d] : d \in 0..N}) \cap DOMAIN v2}
    BY DEF Needs!LdSoConfDirs, N
  <1> HIDE DEF read
  <1>14. read[0] = {"ld.so.conf"}
    BY <1>1, <1>12
  <1>15. \A k \in 1..N : k \in 0..N /\ k # 0
    BY <1>1
  <1>16. \A k \in 1..N : read[k] = IncludedBy(read[k - 1])
    BY <1>12, <1>15 DEF IncludedBy
  <1> QED
    BY <1>13, <1>14, <1>16 DEF N

\* What ldSoConfDirs has are directories of what the configuration includes, and
\* within the limits all of them.
LEMMA LdSoConfExact ==
    ASSUME Needs!NeedsAssumption, v2 \in Confs
    PROVE  LET dirs == UNION {v2[c].dirs : c \in Needs!Included \cap DOMAIN v2}
           IN  /\ Needs!LdSoConfDirs \subseteq dirs
               /\ Needs!WithinLimits => Needs!LdSoConfDirs = dirs
  <1> DEFINE S == DOMAIN v2
             succ == Needs!Includes(v2)
             W(n) == Within(n, S, succ, {"ld.so.conf"})
  <1>1. PICK read : /\ read[0] = {"ld.so.conf"}
                    /\ \A d \in 1..MaxDepth : read[d] = IncludedBy(read[d - 1])
                    /\ Needs!LdSoConfDirs =
                          UNION {v2[c].dirs :
                                    c \in (UNION {read[d] : d \in 0..MaxDepth}) \cap DOMAIN v2}
    BY ReadByLevel
  <1>2. MaxDepth \in Nat
    BY DEF Needs!NeedsAssumption
  <1>3. IsFiniteSet(S)
    BY Zenon DEF Needs!NeedsAssumption, Needs!IsFiniteSet, IsFiniteSet
  <1>4. W(0) = {"ld.so.conf"} /\ \A n \in Nat : W(n + 1) = Grown(S, succ, W(n))
    BY WithinNone, WithinGrows
  <1>5. \A c \in S : succ[c] = v2[c].includes
    BY DEF Needs!Includes
  <1>6. ASSUME Needs!WithinLimits
        PROVE  W(MaxDepth + 1) = W(MaxDepth)
    <2>1. Needs!Within(MaxDepth + 1, S, succ, {"ld.so.conf"})
              = Needs!Within(MaxDepth, S, succ, {"ld.so.conf"})
      BY <1>6 DEF Needs!WithinLimits
    <2> QED
      BY <2>1, SameReached
  <1>7. /\ W(MaxDepth) \subseteq Needs!Included
        /\ Needs!WithinLimits => W(MaxDepth) = Needs!Included
    <2>1. Needs!Included = Reached(S, succ, {"ld.so.conf"})
      BY SameReached DEF Needs!Included
    <2>2. W(MaxDepth) \subseteq Reached(S, succ, {"ld.so.conf"})
      BY <1>2, <1>3, WithinIsReached
    <2>3. Needs!WithinLimits => W(MaxDepth) = Reached(S, succ, {"ld.so.conf"})
      BY <1>2, <1>3, <1>6, WithinIsAll
    <2> QED
      BY <2>1, <2>2, <2>3
  <1> HIDE DEF W, succ
  <1> DEFINE In == {n \in Nat : n <= MaxDepth =>
                        \A x : x \in W(n) <=> \E d \in 0..n : x \in read[d]}
  <1>8. 0 \in In
    BY <1>1, <1>4
  <1>9. ASSUME NEW n \in Nat, n \in In
        PROVE  n + 1 \in In
    <2> SUFFICES ASSUME n + 1 <= MaxDepth, NEW x
                 PROVE  x \in W(n + 1) <=> \E d \in 0..n + 1 : x \in read[d]
      OBVIOUS
    <2>1. n <= MaxDepth /\ \A k \in 0..n : k + 1 \in 1..MaxDepth /\ (k + 1) - 1 = k
      BY <1>2
    <2>2. \A y : y \in W(n) <=> \E d \in 0..n : y \in read[d]
      BY <1>9, <2>1
    <2>3. x \in W(n + 1) <=> x \in W(n) \/ \E c \in W(n) : c \in S /\ x \in v2[c].includes
      <3>1. W(n + 1) = Grown(S, succ, W(n))
        BY <1>4
      <3>2. \A L : x \in Grown(S, succ, L) <=>
                      x \in L \/ \E c \in L : c \in S /\ x \in succ[c]
        BY DEF Grown
      <3> QED
        BY <1>5, <3>1, <3>2
    <2>4. \A k \in 0..n : x \in read[k + 1] <=> \E c \in read[k] : c \in S /\ x \in v2[c].includes
      BY <1>1, <2>1 DEF IncludedBy
    <2>5. ASSUME x \in W(n + 1)
          PROVE  \E d \in 0..n + 1 : x \in read[d]
      <3>1. CASE x \in W(n)
        <4>1. PICK d \in 0..n : x \in read[d]
          BY <2>2, <3>1
        <4>2. d \in 0..n + 1
          BY <4>1
        <4> QED
          BY <4>1, <4>2
      <3>2. CASE x \notin W(n)
        <4>1. PICK c \in W(n) : c \in S /\ x \in v2[c].includes
          BY <2>3, <2>5, <3>2
        <4>2. PICK k \in 0..n : c \in read[k]
          BY <2>2, <4>1
        <4>3. k + 1 \in 0..n + 1 /\ x \in read[k + 1]
          BY <2>4, <4>1, <4>2
        <4> QED
          BY <4>3
      <3> QED
        BY <3>1, <3>2
    <2>6. ASSUME NEW d \in 0..n + 1, x \in read[d]
          PROVE  x \in W(n + 1)
      <3>1. CASE d \in 0..n
        BY <2>2, <2>3, <2>6, <3>1
      <3>2. CASE d = n + 1
        <4>1. n \in 0..n
          OBVIOUS
        <4>2. PICK c \in read[n] : c \in S /\ x \in v2[c].includes
          BY <2>4, <2>6, <3>2, <4>1
        <4> QED
          BY <2>2, <2>3, <4>1, <4>2
      <3> QED
        BY <3>1, <3>2
    <2> QED
      BY <2>5, <2>6
  <1>10. Nat \subseteq In
    <2> HIDE DEF In
    <2> QED
      BY <1>8, <1>9, Induction
  <1>11. \A x : x \in W(MaxDepth) <=> \E d \in 0..MaxDepth : x \in read[d]
    BY <1>2, <1>10
  <1>12. /\ UNION {read[d] : d \in 0..MaxDepth} \subseteq Needs!Included
         /\ Needs!WithinLimits => UNION {read[d] : d \in 0..MaxDepth} = Needs!Included
    BY <1>7, <1>11
  <1> QED
    BY <1>1, <1>12

\* A library that is found is where the loader would find it, and within the limits
\* it is found there, ...
LEMMA ResolvesExact ==
    ASSUME Needs!NeedsAssumption, v1 \in Roots, NEW soname, NEW dirs, NEW machine
    PROVE  LET there == \E d \in dirs : Needs!Holds(<<d, soname>>, machine)
           IN  /\ Needs!Resolves(soname, dirs, machine) => there
               /\ Needs!WithinLimits => (there => Needs!Resolves(soname, dirs, machine))
  <1> DEFINE Found(d) == LET real == Needs!FileInRoot(<<d, soname>>)
                         IN  real # <<>> /\ v1[real[1]].kind = "elf"
                                         /\ v1[real[1]].machine = machine
  <1> SUFFICES ASSUME NEW d
               PROVE  /\ Found(d) => Needs!Holds(<<d, soname>>, machine)
                      /\ Needs!WithinLimits => (Needs!Holds(<<d, soname>>, machine) => Found(d))
    BY DEF Needs!Resolves
  <1> DEFINE path == <<d, soname>>
             real == Needs!FileInRoot(path)
  <1>1. Needs!Holds(path, machine) <=>
            \E q \in LedTo(path) : q \in DOMAIN v1 /\ v1[q].kind = "elf" /\ v1[q].machine = machine
    BY SameReached DEF Needs!Holds, LedTo
  <1>2. \A q : q \in DOMAIN v1 /\ v1[q].kind = "elf" => Needs!Regular(q)
    BY DEF Needs!Regular
  <1>3. \A q : Needs!Regular(q) => q \in DOMAIN v1
    BY DEF Needs!Regular
  <1>4. /\ real # <<>> => real[1] \in LedTo(path) /\ Needs!Regular(real[1])
        /\ Needs!WithinLimits => \A q \in LedTo(path) : Needs!Regular(q) => real = <<q>>
    BY FileInRootExact
  <1>5. \A q : <<q>> # <<>> /\ <<q>>[1] = q
    OBVIOUS
  <1>7. Found(d) <=> real # <<>> /\ v1[real[1]].kind = "elf" /\ v1[real[1]].machine = machine
    OBVIOUS
  <1> HIDE DEF path, real, Found
  <1>6. /\ Found(d) => Needs!Holds(path, machine)
        /\ Needs!WithinLimits => (Needs!Holds(path, machine) => Found(d))
    BY <1>1, <1>2, <1>3, <1>4, <1>5, <1>7
  <1> QED
    BY <1>6 DEF path

\* ... and an ELF without an unmet need loads, and within the limits has none when it
\* does.
LEMMA NeedsExact ==
    ASSUME Needs!NeedsAssumption, v1 \in Roots, v2 \in Confs, NEW p, v1[p].kind = "elf"
    PROVE  /\ Needs!NeedsOf(p) = {} => Needs!Loads(p)
           /\ Needs!WithinLimits => (Needs!Loads(p) => Needs!NeedsOf(p) = {})
  <1> DEFINE dirs == Needs!Runpath(p) \cup Needs!LdSoConfDirs \cup DefaultDirs
             all == Needs!Runpath(p) \cup DefaultDirs
                        \cup UNION {v2[c].dirs : c \in Needs!Included \cap DOMAIN v2}
             missing(s) == ~ Needs!Resolves(s, dirs, v1[p].machine)
  <1>1. dirs \subseteq all /\ (Needs!WithinLimits => dirs = all)
    BY LdSoConfExact
  <1>2. \A s : /\ ~ missing(s) => \E d \in dirs : Needs!Holds(<<d, s>>, v1[p].machine)
               /\ Needs!WithinLimits /\ (\E d \in dirs : Needs!Holds(<<d, s>>, v1[p].machine))
                      => ~ missing(s)
    BY ResolvesExact
  <1>3. \A path :
            /\ Needs!FileInRoot(path) # <<>> => \E q \in LedTo(path) : Needs!Regular(q)
            /\ Needs!WithinLimits /\ (\E q \in LedTo(path) : Needs!Regular(q))
                   => Needs!FileInRoot(path) # <<>>
    BY FileInRootExact
  <1>4. \A path : LedTo(path) = Needs!Reached(DOMAIN v1, Needs!Links(v1), {path})
    BY SameReached DEF LedTo
  <1>5. Needs!NeedsOf(p) = {} <=>
            /\ ~ (v1[p].interp # <<>> /\ Needs!FileInRoot(v1[p].interp[1]) = <<>>)
            /\ \A s \in v1[p].needed : ~ missing(s)
    BY DEF Needs!NeedsOf
  <1>6. Needs!Loads(p) <=>
            /\ v1[p].interp # <<>> => \E q \in LedTo(v1[p].interp[1]) : Needs!Regular(q)
            /\ \A s \in v1[p].needed : \E d \in all : Needs!Holds(<<d, s>>, v1[p].machine)
    BY <1>4 DEF Needs!Loads
  <1> HIDE DEF dirs, all, missing
  <1> QED
    BY <1>1, <1>2, <1>3, <1>5, <1>6

\* The allow used for a failing file is the first that names it.
LEMMA FirstUsed ==
    ASSUME Needs!NeedsAssumption, v3 \in AllowLists, NEW p
    PROVE  /\ DOMAIN v3 \subseteq Nat \ {0}
           /\ \A k \in Needs!Uses(p) :
                 /\ k \in DOMAIN v3 /\ p \in Matched[v3[k]]
                 /\ \A m \in DOMAIN v3 : p \in Matched[v3[m]] => k <= m
           /\ (\E m \in DOMAIN v3 : p \in Matched[v3[m]]) => Needs!Uses(p) # {}
  <1>1. v3 \in Seq(DOMAIN Matched)
    BY DEF Needs!NeedsAssumption
  <1>2. DOMAIN v3 = 1..Len(v3) /\ Len(v3) \in Nat
    BY <1>1
  <1>3. ASSUME NEW k \in Needs!Uses(p)
        PROVE  /\ k \in DOMAIN v3 /\ p \in Matched[v3[k]]
               /\ \A m \in DOMAIN v3 : p \in Matched[v3[m]] => k <= m
    <2>1. k \in DOMAIN v3 /\ p \in Matched[v3[k]] /\ \A m \in 1..(k - 1) : p \notin Matched[v3[m]]
      BY <1>3 DEF Needs!Uses
    <2>2. \A m \in DOMAIN v3 : m \in 1..(k - 1) \/ k <= m
      BY <1>2, <2>1
    <2> QED
      BY <2>1, <2>2
  <1>4. ASSUME NEW m \in DOMAIN v3, p \in Matched[v3[m]]
        PROVE  Needs!Uses(p) # {}
    <2> DEFINE T == {n \in DOMAIN v3 : p \in Matched[v3[n]]}
    <2>1. T \subseteq Nat /\ T # {}
      BY <1>2, <1>4
    <2>2. PICK k \in T : \A n \in T : k <= n
      <3> HIDE DEF T
      <3> QED
        BY <2>1, LeastOne
    <2>3. k \in DOMAIN v3 /\ \A n \in 1..(k - 1) : n \in DOMAIN v3 /\ n < k
      BY <1>2, <2>2
    <2>4. \A n \in 1..(k - 1) : p \notin Matched[v3[n]]
      BY <2>1, <2>2, <2>3
    <2>5. k \in Needs!Uses(p)
      BY <2>2, <2>3, <2>4 DEF Needs!Uses
    <2> QED
      BY <2>5
  <1> QED
    BY <1>2, <1>3, <1>4

\* check's verdict: what cannot load is missing, within the limits nothing else is,
\* and an image passes when the allows are those that are.
LEMMA VerdictIs ==
    ASSUME Needs!NeedsAssumption, v1 \in Roots, v2 \in Confs, v3 \in AllowLists,
           \A p \in Needs!Walked : v1[p].kind = "elf"
    PROVE  LET broken == {p \in Needs!Walked : ~ Needs!Loads(p)}
               made == Needs!Verdict
               failing == DOMAIN made.missing
           IN  /\ broken \subseteq failing
               /\ Needs!WithinLimits => failing \subseteq broken
               /\ made.ok <=>
                   /\ \A p \in failing : \E n \in DOMAIN v3 : p \in Matched[v3[n]]
                   /\ \A n \in DOMAIN v3 : \E p \in failing :
                       /\ p \in Matched[v3[n]]
                       /\ \A m \in DOMAIN v3 : p \in Matched[v3[m]] =>
                           \E l \in 1..m : v3[l] = v3[n]
  <1> DEFINE broken == {p \in Needs!Walked : ~ Needs!Loads(p)}
             failures == {p \in Needs!Walked : Needs!NeedsOf(p) # {}}
             used == {v3[n] : n \in UNION {Needs!Uses(p) : p \in failures}}
             Only(p, n) == /\ p \in Matched[v3[n]]
                           /\ \A m \in DOMAIN v3 : p \in Matched[v3[m]] =>
                                 \E l \in 1..m : v3[l] = v3[n]
  <1>1. broken \subseteq failures /\ (Needs!WithinLimits => failures \subseteq broken)
    BY NeedsExact
  <1>2. /\ Needs!Verdict.ok <=> /\ \A p \in failures : Needs!Uses(p) # {}
                                /\ \A n \in DOMAIN v3 : v3[n] \in used
        /\ DOMAIN Needs!Verdict.missing = failures
    BY DEF Needs!Verdict
  <1>3. /\ DOMAIN v3 \subseteq Nat \ {0}
        /\ \A p : \A k \in Needs!Uses(p) :
              /\ k \in DOMAIN v3 /\ p \in Matched[v3[k]]
              /\ \A m \in DOMAIN v3 : p \in Matched[v3[m]] => k <= m
        /\ \A p : (\E m \in DOMAIN v3 : p \in Matched[v3[m]]) => Needs!Uses(p) # {}
    BY FirstUsed
  <1>4. ASSUME NEW p
        PROVE  Needs!Uses(p) # {} <=> \E n \in DOMAIN v3 : p \in Matched[v3[n]]
    BY <1>3
  <1>5. \A g : g \in used <=> \E p \in failures : \E k \in Needs!Uses(p) : v3[k] = g
    OBVIOUS
  <1> HIDE DEF failures, broken, used
  <1>6. DOMAIN v3 = 1..Len(v3) /\ Len(v3) \in Nat
    BY DEF Needs!NeedsAssumption
  <1>7. ASSUME NEW n \in DOMAIN v3, NEW p
        PROVE  (\E k \in Needs!Uses(p) : v3[k] = v3[n]) <=> Only(p, n)
    <2>1. ASSUME NEW k \in Needs!Uses(p), v3[k] = v3[n]
          PROVE  Only(p, n)
      <3>1. k \in DOMAIN v3 /\ p \in Matched[v3[n]]
        BY <1>3, <2>1
      <3>2. ASSUME NEW m \in DOMAIN v3, p \in Matched[v3[m]]
            PROVE  \E l \in 1..m : v3[l] = v3[n]
        <4>1. k <= m
          BY <1>3, <3>2
        <4>2. k \in 1..m
          BY <1>6, <3>1, <4>1
        <4> QED
          BY <2>1, <4>2
      <3> QED
        BY <3>1, <3>2
    <2>2. ASSUME Only(p, n)
          PROVE  \E k \in Needs!Uses(p) : v3[k] = v3[n]
      <3>1. PICK k \in Needs!Uses(p) : TRUE
        BY <1>3, <1>7, <2>2
      <3>2. k \in DOMAIN v3 /\ p \in Matched[v3[k]]
        BY <1>3, <3>1
      <3>3. PICK l \in 1..k : v3[l] = v3[n]
        BY <2>2, <3>2
      <3>4. l \in DOMAIN v3 /\ p \in Matched[v3[l]] /\ l <= k
        BY <1>6, <2>2, <3>2, <3>3
      <3>5. k <= l
        BY <1>3, <3>1, <3>4
      <3>6. k = l
        BY <1>6, <3>2, <3>4, <3>5
      <3> QED
        BY <3>1, <3>3, <3>6
    <2> QED
      BY <2>1, <2>2
  <1> HIDE DEF Only
  <1>8. ASSUME NEW n \in DOMAIN v3
        PROVE  v3[n] \in used <=> \E p \in failures : Only(p, n)
    BY <1>5, <1>7, <1>8
  <1>9. Needs!Verdict.ok <=>
             /\ \A p \in failures : \E n \in DOMAIN v3 : p \in Matched[v3[n]]
             /\ \A n \in DOMAIN v3 : \E p \in failures : Only(p, n)
    BY <1>2, <1>4, <1>8
  <1> QED
    BY <1>1, <1>2, <1>9 DEF broken, Only

\* What elfneeds keeps to.
NeedsInv == v1 \in Roots /\ v2 \in Confs /\ v3 \in AllowLists /\ Needs!VerdictExact

\* What loads does not change while it looks.
LEMMA LoadsStays ==
    ASSUME UNCHANGED <<v1, v2, v3>>
    PROVE  /\ \A p : Needs!Loads(p)' <=> Needs!Loads(p)
           /\ Needs!Walked' = Needs!Walked /\ Needs!WithinLimits' = Needs!WithinLimits
  <1>1. Needs!Included' = Needs!Included
    BY DEF Needs!Included
  <1>2. \A path, machine : Needs!Holds(path, machine)' <=> Needs!Holds(path, machine)
    BY DEF Needs!Holds
  <1>3. \A p : Needs!Runpath(p)' = Needs!Runpath(p)
    BY DEF Needs!Runpath
  <1>4. \A q : Needs!Regular(q)' <=> Needs!Regular(q)
    BY DEF Needs!Regular
  <1>5. ASSUME NEW p
        PROVE  Needs!Loads(p)' <=> Needs!Loads(p)
    <2>1. (\E q \in Needs!Reached(DOMAIN v1, Needs!Links(v1), {v1[p].interp[1]}) :
              Needs!Regular(q))'
              <=> (\E q \in Needs!Reached(DOMAIN v1, Needs!Links(v1), {v1[p].interp[1]}) :
                      Needs!Regular(q))
      BY <1>4
    <2> DEFINE dirs == Needs!Runpath(p) \cup DefaultDirs
                          \cup UNION {v2[c].dirs : c \in Needs!Included \cap DOMAIN v2}
    <2>2. dirs' = dirs
      BY <1>1, <1>3
    <2>3. ASSUME NEW s
          PROVE  (\E d \in dirs : Needs!Holds(<<d, s>>, v1[p].machine))'
                     <=> \E d \in dirs : Needs!Holds(<<d, s>>, v1[p].machine)
      <3> HIDE DEF dirs
      <3> QED
        BY <1>2, <2>2
    <2> QED
      BY <2>1, <2>3 DEF Needs!Loads
  <1>6. Needs!Walked' = Needs!Walked /\ Needs!WithinLimits' = Needs!WithinLimits
    BY DEF Needs!Walked, Needs!WithinLimits
  <1> QED
    BY <1>5, <1>6

\* elfneeds begins within it.
LEMMA NeedsBegins ==
    ASSUME Needs!Init
    PROVE  NeedsInv
  BY DEF Needs!Init, NeedsInv, Needs!VerdictExact

\* Its check keeps to it.
LEMMA NeedsGoesOn ==
    ASSUME Needs!NeedsAssumption, NeedsInv,
           Needs!Check \/ UNCHANGED <<v1, v2, v3, v4, pc>>
    PROVE  NeedsInv'
  <1>1. UNCHANGED <<v1, v2, v3>>
    BY DEF Needs!Check
  <1>2. CASE Needs!Check
    <2>1. CASE pc' = "failed"
      BY <1>1, <2>1 DEF NeedsInv, Needs!VerdictExact
    <2>2. CASE pc' # "failed"
      <3>1. v4' = Needs!Verdict /\ \A p \in Needs!Walked : v1[p].kind = "elf"
        BY <1>2, <2>2 DEF Needs!Check, Needs!Walked
      <3>2. (Needs!VerdictExact)'
        BY <1>1, <3>1, VerdictIs, LoadsStays DEF NeedsInv, Needs!VerdictExact
      <3> QED
        BY <1>1, <3>2 DEF NeedsInv
    <2> QED
      BY <2>1, <2>2
  <1>3. CASE UNCHANGED <<v1, v2, v3, v4, pc>>
    <2>1. (Needs!VerdictExact)'
      BY <1>1, <1>3, LoadsStays DEF NeedsInv, Needs!VerdictExact
    <2> QED
      BY <1>1, <2>1 DEF NeedsInv
  <1> QED
    BY <1>2, <1>3

-----------------------------------------------------------------------------
(* The vulnerabilities page *)

\* What NewReport needs of findings: numbers it can sort by.
Sortable(F) ==
    /\ F \in Seq({F[n] : n \in DOMAIN F})
    /\ \A n \in DOMAIN F : /\ F[n].id \in Int /\ F[n].package \in Int /\ F[n].upstream \in Int
                           /\ F[n].severity \in Tables!Severities /\ F[n].suppressed \in BOOLEAN

\* The rows they may make.
RowsOf(F) == [finding : {F[n] : n \in DOMAIN F}, packages : Seq(Int), met : DOMAIN F]

\* One more finding.
OneMore(F, arch, n, rows) ==
    LET f == F[n]
        seen == {r \in DOMAIN rows : Tables!Key(rows[r].finding) = Tables!Key(f)}
    IN  IF ~ Tables!BelongsTo(f.arch, arch) THEN rows
        ELSE IF seen = {}
             THEN Append(rows, [finding |-> f, packages |-> <<f.package>>, met |-> n])
        ELSE [rows EXCEPT ![CHOOSE r \in seen : TRUE].packages = Append(@, f.package)]

\* A finding that is not shown makes no difference, the first of its key makes a
\* row, and another adds its package to the row there is.
Another(new, F, arch, n, rows) ==
    LET f == F[n]
        same(r) == Tables!Key(rows[r].finding) = Tables!Key(f)
    IN  \/ ~ Tables!BelongsTo(f.arch, arch) /\ new = rows
        \/ /\ Tables!BelongsTo(f.arch, arch) /\ \A r \in DOMAIN rows : ~ same(r)
           /\ new = Append(rows, [finding |-> f, packages |-> <<f.package>>, met |-> n])
        \/ /\ Tables!BelongsTo(f.arch, arch)
           /\ \E c \in DOMAIN rows :
                 /\ same(c) /\ DOMAIN new = DOMAIN rows
                 /\ \A r \in DOMAIN rows : r # c => new[r] = rows[r]
                 /\ new[c] = [finding |-> rows[c].finding,
                              packages |-> Append(rows[c].packages, f.package),
                              met |-> rows[c].met]

\* One more finding does that.
LEMMA OneMoreIs ==
    ASSUME NEW F, Sortable(F), NEW arch, NEW n \in DOMAIN F, NEW rows \in Seq(RowsOf(F))
    PROVE  Another(OneMore(F, arch, n, rows), F, arch, n, rows)
  <1> DEFINE f == F[n]
             new == OneMore(F, arch, n, rows)
             same(r) == Tables!Key(rows[r].finding) = Tables!Key(f)
             seen == {r \in DOMAIN rows : same(r)}
  <1>1. CASE ~ Tables!BelongsTo(f.arch, arch)
    BY <1>1 DEF OneMore, Another
  <1>2. CASE Tables!BelongsTo(f.arch, arch) /\ seen = {}
    <2>1. new = Append(rows, [finding |-> f, packages |-> <<f.package>>, met |-> n])
      BY <1>2 DEF OneMore
    <2>2. \A r \in DOMAIN rows : ~ same(r)
      BY <1>2
    <2> QED
      BY <1>2, <2>1, <2>2 DEF Another
  <1>3. CASE Tables!BelongsTo(f.arch, arch) /\ seen # {}
    <2> DEFINE c == CHOOSE r \in seen : TRUE
    <2>1. c \in seen
      BY <1>3
    <2>2. new = [rows EXCEPT ![c].packages = Append(@, f.package)]
      BY <1>3 DEF OneMore
    <2>3. c \in DOMAIN rows /\ same(c)
      BY <2>1
    <2> HIDE DEF c, seen, new, f
    <2>4. rows[c] \in RowsOf(F)
      BY <2>3
    <2>5. DOMAIN new = DOMAIN rows /\ \A r \in DOMAIN rows : r # c => new[r] = rows[r]
      BY <2>2, <2>3
    <2>6. new[c] = [rows[c] EXCEPT !.packages = Append(@, f.package)]
      BY <2>2, <2>3
    <2>7. new[c] = [finding |-> rows[c].finding, packages |-> Append(rows[c].packages, f.package),
                    met |-> rows[c].met]
      BY <2>4, <2>6 DEF RowsOf
    <2> QED
      BY <1>3, <2>3, <2>5, <2>7 DEF new, f, Another
  <1> QED
    BY <1>1, <1>2, <1>3

\* It is a sequence of rows again.
LEMMA OneMoreRows ==
    ASSUME NEW F, Sortable(F), NEW arch, NEW n \in DOMAIN F, NEW rows \in Seq(RowsOf(F))
    PROVE  OneMore(F, arch, n, rows) \in Seq(RowsOf(F))
  <1> DEFINE f == F[n]
             new == OneMore(F, arch, n, rows)
  <1>1. f \in {F[k] : k \in DOMAIN F} /\ f.package \in Int
    BY DEF Sortable
  <1>2. [finding |-> f, packages |-> <<f.package>>, met |-> n] \in RowsOf(F)
    BY <1>1 DEF RowsOf
  <1>3. ASSUME NEW c \in DOMAIN rows, DOMAIN new = DOMAIN rows,
               \A r \in DOMAIN rows : r # c => new[r] = rows[r],
               new[c] = [finding |-> rows[c].finding,
                         packages |-> Append(rows[c].packages, f.package), met |-> rows[c].met],
               new = [r \in DOMAIN new |-> new[r]]
        PROVE  new \in Seq(RowsOf(F))
    <2> HIDE DEF new, f
    <2>1. Len(rows) \in Nat /\ DOMAIN rows = 1..Len(rows) /\ \A r \in DOMAIN rows : rows[r] \in RowsOf(F)
      OBVIOUS
    <2>2. new[c] \in RowsOf(F)
      BY <1>1, <1>3, <2>1 DEF RowsOf
    <2>3. \A r \in DOMAIN rows : new[r] \in RowsOf(F)
      BY <1>3, <2>1, <2>2
    <2>4. new = [r \in 1..Len(rows) |-> new[r]]
      BY <1>3, <2>1
    <2> QED
      BY <2>1, <2>3, <2>4, IsSequence
  <1>4. ASSUME NEW c
        PROVE  LET new2 == [rows EXCEPT ![c].packages = Append(@, f.package)]
               IN  new2 = [r \in DOMAIN new2 |-> new2[r]]
    OBVIOUS
  <1>5. new = rows \/ new = [r \in DOMAIN new |-> new[r]]
             \/ new = Append(rows, [finding |-> f, packages |-> <<f.package>>, met |-> n])
    BY <1>4 DEF OneMore
  <1>6. \/ new = rows
        \/ new = Append(rows, [finding |-> f, packages |-> <<f.package>>, met |-> n])
        \/ \E c \in DOMAIN rows :
              /\ DOMAIN new = DOMAIN rows
              /\ \A r \in DOMAIN rows : r # c => new[r] = rows[r]
              /\ new[c] = [finding |-> rows[c].finding,
                           packages |-> Append(rows[c].packages, f.package),
                           met |-> rows[c].met]
    <2>1. Another(new, F, arch, n, rows)
      BY OneMoreIs
    <2> HIDE DEF new
    <2> QED
      BY <2>1 DEF Another
  <1> HIDE DEF new, f
  <1>7. Append(rows, [finding |-> f, packages |-> <<f.package>>, met |-> n]) \in Seq(RowsOf(F))
    BY <1>2
  <1>8. new \in Seq(RowsOf(F))
    BY <1>3, <1>5, <1>6, <1>7
  <1> QED
    BY <1>8 DEF new

\* A package of a row.
Has(row, p) == \E j \in DOMAIN row.packages : row.packages[j] = p

\* The rows that n findings make: each is of a finding that is shown, with its
\* package, no two are of one key, and every finding shown is in the row of its key.
Folded(rows, F, arch, n) ==
    /\ rows \in Seq(RowsOf(F))
    /\ \A r \in DOMAIN rows :
          LET m == rows[r].met
          IN  /\ m \in 1..n /\ Tables!BelongsTo(F[m].arch, arch)
              /\ rows[r].finding = F[m] /\ Has(rows[r], F[m].package)
    /\ \A r, s \in DOMAIN rows :
          Tables!Key(rows[r].finding) = Tables!Key(rows[s].finding) => r = s
    /\ \A k \in 1..n :
          Tables!BelongsTo(F[k].arch, arch) =>
              \E r \in DOMAIN rows :
                  Tables!Key(rows[r].finding) = Tables!Key(F[k]) /\ Has(rows[r], F[k].package)

\* Another finding keeps to it.
LEMMA FoldedGoesOn ==
    ASSUME NEW F, Sortable(F), NEW arch, NEW n \in DOMAIN F, NEW rows, NEW new,
           Folded(rows, F, arch, n - 1), new \in Seq(RowsOf(F)), Another(new, F, arch, n, rows)
    PROVE  Folded(new, F, arch, n)
  <1> DEFINE f == F[n]
             same(r) == Tables!Key(rows[r].finding) = Tables!Key(f)
             row == [finding |-> f, packages |-> <<f.package>>, met |-> n]
             wider(r) == [finding |-> rows[r].finding, packages |-> Append(rows[r].packages, f.package),
                          met |-> rows[r].met]
  <1>1. /\ n \in Nat /\ n \in 1..n /\ \A m \in 1..(n - 1) : m \in 1..n
        /\ \A m \in 1..n : m \in 1..(n - 1) \/ m = n
    BY DEF Sortable
  <1>2. \A r \in DOMAIN rows : rows[r] \in RowsOf(F)
    BY DEF Folded
  <1>3. Has(row, f.package)
    BY DEF Has
  <1>4. ASSUME NEW r \in DOMAIN rows
        PROVE  Has(wider(r), f.package) /\ \A p : Has(rows[r], p) => Has(wider(r), p)
    <2> DEFINE s == rows[r].packages
               t == Append(s, f.package)
    <2>1. s \in Seq(Int) /\ f.package \in Int
      BY <1>2 DEF RowsOf, Sortable
    <2> HIDE DEF s, f
    <2>2. /\ Len(s) + 1 \in DOMAIN t /\ t[Len(s) + 1] = f.package
          /\ \A j \in DOMAIN s : j \in DOMAIN t /\ t[j] = s[j]
      BY <2>1
    <2>3. wider(r).packages = t
      BY DEF s
    <2> QED
      BY <2>2, <2>3 DEF Has, s
  <1> HIDE DEF f, row, wider
  <1>5. CASE ~ Tables!BelongsTo(f.arch, arch) /\ new = rows
    BY <1>1, <1>5 DEF Folded, f
  <1>6. CASE /\ Tables!BelongsTo(f.arch, arch) /\ \A r \in DOMAIN rows : ~ same(r)
             /\ new = Append(rows, row)
    <2> DEFINE l == Len(rows) + 1
    <2>1. /\ l \in DOMAIN new /\ new[l] = row
          /\ \A r \in DOMAIN rows : r \in DOMAIN new /\ new[r] = rows[r]
          /\ \A r \in DOMAIN new : r = l \/ r \in DOMAIN rows
      <3>1. rows \in Seq(RowsOf(F))
        BY DEF Folded
      <3> QED
        BY <1>6, <3>1
    <2> HIDE DEF l
    <2>2. row.finding = f /\ row.met = n
      BY DEF row
    <2>3. \A r \in DOMAIN new :
            LET m == new[r].met
            IN  /\ m \in 1..n /\ Tables!BelongsTo(F[m].arch, arch)
                /\ new[r].finding = F[m] /\ Has(new[r], F[m].package)
      BY <1>1, <1>3, <1>6, <2>1, <2>2 DEF Folded, f
    <2>4. \A r, s \in DOMAIN new :
            Tables!Key(new[r].finding) = Tables!Key(new[s].finding) => r = s
      BY <1>6, <2>1, <2>2 DEF Folded
    <2>5. ASSUME NEW k \in 1..n, Tables!BelongsTo(F[k].arch, arch)
          PROVE  \E r \in DOMAIN new :
                    Tables!Key(new[r].finding) = Tables!Key(F[k]) /\ Has(new[r], F[k].package)
      <3>1. CASE k = n
        BY <1>3, <2>1, <2>2, <3>1 DEF f
      <3>2. CASE k # n
        BY <1>1, <2>1, <2>5, <3>2 DEF Folded
      <3> QED
        BY <3>1, <3>2
    <2> QED
      BY <2>3, <2>4, <2>5 DEF Folded
  <1>7. ASSUME Tables!BelongsTo(f.arch, arch), NEW c \in DOMAIN rows, same(c),
               DOMAIN new = DOMAIN rows, \A r \in DOMAIN rows : r # c => new[r] = rows[r],
               new[c] = wider(c)
        PROVE  Folded(new, F, arch, n)
    <2>1. new[c].finding = rows[c].finding /\ new[c].met = rows[c].met
      BY <1>7 DEF wider
    <2>2. \A r \in DOMAIN rows : new[r].finding = rows[r].finding /\ new[r].met = rows[r].met
      BY <1>7, <2>1
    <2>3. \A r \in DOMAIN rows : \A p : Has(rows[r], p) => Has(new[r], p)
      BY <1>4, <1>7
    <2>4. \A r \in DOMAIN new :
            LET m == new[r].met
            IN  /\ m \in 1..n /\ Tables!BelongsTo(F[m].arch, arch)
                /\ new[r].finding = F[m] /\ Has(new[r], F[m].package)
      BY <1>1, <1>7, <2>2, <2>3 DEF Folded
    <2>5. \A r, s \in DOMAIN new :
            Tables!Key(new[r].finding) = Tables!Key(new[s].finding) => r = s
      BY <1>7, <2>2 DEF Folded
    <2>6. ASSUME NEW k \in 1..n, Tables!BelongsTo(F[k].arch, arch)
          PROVE  \E r \in DOMAIN new :
                    Tables!Key(new[r].finding) = Tables!Key(F[k]) /\ Has(new[r], F[k].package)
      <3>1. CASE k = n
        BY <1>4, <1>7, <2>2, <3>1 DEF f
      <3>2. CASE k # n
        BY <1>1, <1>7, <2>2, <2>3, <2>6, <3>2 DEF Folded
      <3> QED
        BY <3>1, <3>2
    <2> QED
      BY <2>4, <2>5, <2>6 DEF Folded
  <1> QED
    BY <1>5, <1>6, <1>7 DEF Another, f, row, wider

\* The fold makes such rows of any findings.
LEMMA FoldIs ==
    ASSUME NEW F, Sortable(F), NEW arch
    PROVE  Folded(Tables!Fold(F, arch), F, arch, Len(F))
  <1> DEFINE N == Len(F)
             D == Seq(RowsOf(F))
             step == [k \in 1..N |-> [rows \in D |-> OneMore(F, arch, k, rows)]]
             Rec(f) == [n \in 0..N |-> IF n = 0 THEN <<>> ELSE OneMore(F, arch, n, f[n - 1])]
             rows == CHOOSE f : f = Rec(f)
  <1>1. N \in Nat /\ DOMAIN F = 1..N
    BY DEF Sortable
  <1>2. PICK f : Stepwise(f, N, <<>>, step)
    <2> HIDE DEF N, step
    <2> QED
      BY <1>1, Recursion
  <1>3. \A k \in 1..N : \A s \in D : OneMore(F, arch, k, s) \in D
    BY <1>1, OneMoreRows
  <1>4. \A k \in 1..N : \A s \in D : step[k][s] = OneMore(F, arch, k, s)
    OBVIOUS
  <1>5. <<>> \in D
    OBVIOUS
  <1> HIDE DEF D, step
  <1> DEFINE In == {k \in Nat : k <= N => f[k] \in D}
  <1>6. 0 \in In
    BY <1>2, <1>5 DEF Stepwise
  <1>7. ASSUME NEW k \in Nat, k \in In
        PROVE  k + 1 \in In
    <2> HIDE DEF N
    <2> SUFFICES ASSUME k + 1 <= N
                 PROVE  f[k + 1] \in D
      OBVIOUS
    <2>1. k + 1 \in 1..N /\ (k + 1) - 1 = k /\ k <= N
      BY <1>1
    <2>2. f[k] \in D
      BY <1>7, <2>1
    <2>3. f[k + 1] = step[k + 1][f[k]]
      BY <1>2, <2>1 DEF Stepwise
    <2> QED
      BY <1>3, <1>4, <2>1, <2>2, <2>3
  <1>8. Nat \subseteq In
    <2> HIDE DEF In
    <2> QED
      BY <1>6, <1>7, Induction
  <1>9. ASSUME NEW k \in 0..N
        PROVE  f[k] = IF k = 0 THEN <<>> ELSE OneMore(F, arch, k, f[k - 1])
    <2> HIDE DEF N
    <2>1. CASE k = 0
      BY <1>2, <2>1 DEF Stepwise
    <2>2. CASE k # 0
      <3>1. k \in 1..N /\ k - 1 \in Nat /\ k - 1 <= N
        BY <1>1, <2>2
      <3>2. f[k - 1] \in D
        BY <1>8, <3>1
      <3> QED
        BY <1>2, <1>4, <2>2, <3>1, <3>2 DEF Stepwise
    <2> QED
      BY <2>1, <2>2
  <1>10. f = [k \in 0..N |-> f[k]]
    BY <1>2 DEF Stepwise
  <1>11. f = Rec(f)
    BY <1>9, <1>10
  <1>12. rows = Rec(rows)
    <2> HIDE DEF Rec
    <2> QED
      BY <1>11
  <1>13. Tables!Fold(F, arch) = rows[N]
    BY DEF Tables!Fold, OneMore
  <1> HIDE DEF rows, N
  <1>14. rows[0] = <<>> /\ \A k \in 1..N : rows[k] = OneMore(F, arch, k, rows[k - 1])
    BY <1>1, <1>12
  <1> DEFINE Fine == {k \in Nat : k <= N => Folded(rows[k], F, arch, k)}
  <1>15. 0 \in Fine
    <2> DEFINE none == <<>>
    <2>1. none \in Seq(RowsOf(F)) /\ DOMAIN none = {} /\ 1..0 = {}
      OBVIOUS
    <2> HIDE DEF none
    <2>2. Folded(none, F, arch, 0)
      BY <2>1 DEF Folded
    <2>3. Folded(rows[0], F, arch, 0)
      BY <1>14, <2>2 DEF none
    <2> QED
      BY <2>3
  <1>16. ASSUME NEW k \in Nat, k \in Fine
         PROVE  k + 1 \in Fine
    <2> SUFFICES ASSUME k + 1 <= N
                 PROVE  Folded(rows[k + 1], F, arch, k + 1)
      OBVIOUS
    <2>1. k + 1 \in 1..N /\ (k + 1) - 1 = k /\ k <= N
      BY <1>1
    <2>2. Folded(rows[k], F, arch, (k + 1) - 1)
      BY <1>16, <2>1
    <2>3. rows[k] \in Seq(RowsOf(F)) /\ rows[k + 1] = OneMore(F, arch, k + 1, rows[k])
      BY <1>14, <2>1, <2>2 DEF Folded
    <2> HIDE DEF Fine
    <2>4. rows[k + 1] \in Seq(RowsOf(F)) /\ Another(rows[k + 1], F, arch, k + 1, rows[k])
      BY <1>1, <2>1, <2>3, OneMoreRows, OneMoreIs
    <2> QED
      BY <1>1, <2>1, <2>2, <2>4, FoldedGoesOn
  <1>17. Nat \subseteq Fine
    <2> HIDE DEF Fine
    <2> QED
      BY <1>15, <1>16, Induction
  <1> QED
    BY <1>1, <1>13, <1>17 DEF N

\* The packages a row stands for, on the page.
Shows(row, p) ==
    p \in IF row.packages = <<>> THEN {Tables!Component(row.finding)}
          ELSE {row.packages[n] : n \in DOMAIN row.packages}

\* A tidied row is of the same finding and shows every package there was.
LEMMA TidyIs ==
    ASSUME NEW finding, NEW packages \in Seq(Int), NEW met, NEW row,
           row = [finding |-> finding, packages |-> packages, met |-> met]
    PROVE  /\ Tables!Tidy(row).finding = finding /\ Tables!Tidy(row).met = met
           /\ \A p : Has(row, p) => Shows(Tables!Tidy(row), p)
  <1> DEFINE N == Len(packages)
             before == {p \in (DOMAIN packages) \X (DOMAIN packages) :
                           \/ packages[p[1]] < packages[p[2]]
                           \/ packages[p[1]] = packages[p[2]] /\ p[1] < p[2]}
             sorted == SortBy(packages, before)
             kept == IF sorted = <<Tables!Component(finding)>> THEN <<>> ELSE sorted
  <1>1. Tables!Tidy(row) = [finding |-> finding, packages |-> kept, met |-> met]
    <2>1. Tables!SortBy(packages, before) = sorted
      <3> HIDE DEF before
      <3> QED
        BY SameSort
    <2>2. Tables!Tidy(row) = [row EXCEPT !.packages = kept]
      BY <2>1 DEF Tables!Tidy
    <2> HIDE DEF kept
    <2> QED
      BY <2>2
  <1>2. N \in Nat /\ DOMAIN packages = 1..N /\ \A p \in 1..N : packages[p] \in Int
    OBVIOUS
  <1>3. \A p, q \in 1..N : <<p, q>> \in before <=>
             packages[p] < packages[q] \/ (packages[p] = packages[q] /\ p < q)
    BY <1>2
  <1> HIDE DEF before
  <1>4. Orders(before, 1..N)
    <2>1. \A p \in 1..N : <<p, p>> \notin before
      BY <1>2, <1>3
    <2>2. \A p, q \in 1..N : p # q => <<p, q>> \in before \/ <<q, p>> \in before
      BY <1>2, <1>3
    <2>3. \A p, q, r \in 1..N :
             <<p, q>> \in before /\ <<q, r>> \in before => <<p, r>> \in before
      BY <1>2, <1>3
    <2> QED
      BY <2>1, <2>2, <2>3 DEF Orders
  <1> HIDE DEF N
  <1>5. PICK from : Arranges(from, sorted, packages, 1..N, before, N)
    BY <1>2, <1>4, SortArranges
  <1>6. ASSUME NEW p, Has(row, p)
        PROVE  \E n \in DOMAIN sorted : sorted[n] = p
    <2>1. PICK j \in 1..N : packages[j] = p
      BY <1>2, <1>6 DEF Has
    <2>2. PICK n \in 1..N : from[n] = j
      BY <1>5 DEF Arranges
    <2> HIDE DEF sorted
    <2>3. sorted = [m \in 1..N |-> packages[from[m]]]
      BY <1>5 DEF Arranges, sorted
    <2> QED
      BY <2>1, <2>2, <2>3
  <1>7. ASSUME NEW p, Has(row, p)
        PROVE  Shows([finding |-> finding, packages |-> kept, met |-> met], p)
    <2>1. PICK n \in DOMAIN sorted : sorted[n] = p
      BY <1>6, <1>7
    <2> HIDE DEF sorted
    <2>2. CASE sorted = <<Tables!Component(finding)>>
      BY <2>1, <2>2 DEF Shows
    <2>3. CASE sorted # <<Tables!Component(finding)>>
      <3>1. sorted # <<>>
        BY <2>1
      <3> QED
        BY <2>1, <2>3, <3>1 DEF Shows
    <2> QED
      BY <2>2, <2>3
  <1> HIDE DEF kept
  <1> QED
    BY <1>1, <1>7

\* What Before compares, as numbers.
Aside(row) == IF row.finding.suppressed THEN 1 ELSE 0
Grade(row) == Tables!Rank(row.finding.severity)

\* A row that can be sorted.
Weighs(row) ==
    /\ row.finding.id \in Int /\ row.finding.package \in Int /\ row.finding.upstream \in Int
    /\ row.finding.severity \in Tables!Severities /\ row.finding.suppressed \in BOOLEAN

\* Each severity has its rank.
LEMMA RankIs ==
    /\ \A s \in Tables!Severities : Tables!Rank(s) \in Int
    /\ \A s, t \in Tables!Severities : Tables!Rank(s) = Tables!Rank(t) => s = t
  <1>1. ASSUME NEW s \in Tables!Severities
        PROVE  Tables!Rank(s) \in DOMAIN Tables!Scale /\ Tables!Scale[Tables!Rank(s)] = s
    <2>1. \E n \in DOMAIN Tables!Scale : Tables!Scale[n] = s
      BY DEF Tables!Severities
    <2> QED
      BY <2>1 DEF Tables!Rank
  <1>2. DOMAIN Tables!Scale \subseteq Int
    BY DEF Tables!Scale
  <1> QED
    BY <1>1, <1>2

\* Before compares them one after the other.
LEMMA BeforeIs ==
    ASSUME NEW a, NEW b, Weighs(a), Weighs(b)
    PROVE  Tables!Before(a, b) <=>
              \/ Aside(a) < Aside(b)
              \/ Aside(a) = Aside(b) /\ Grade(a) < Grade(b)
              \/ Aside(a) = Aside(b) /\ Grade(a) = Grade(b) /\ a.finding.id > b.finding.id
              \/ /\ Aside(a) = Aside(b) /\ Grade(a) = Grade(b) /\ a.finding.id = b.finding.id
                 /\ Tables!Component(a.finding) < Tables!Component(b.finding)
  <1> DEFINE f == a.finding
             g == b.finding
  <1>1. /\ f.suppressed \in BOOLEAN /\ g.suppressed \in BOOLEAN /\ f.id \in Int /\ g.id \in Int
        /\ f.severity \in Tables!Severities /\ g.severity \in Tables!Severities
    BY DEF Weighs
  <1>2. Grade(a) \in Int /\ Grade(b) \in Int /\ (Grade(a) = Grade(b) <=> f.severity = g.severity)
    BY <1>1, RankIs DEF Grade
  <1>3. /\ (Aside(a) = Aside(b) <=> f.suppressed = g.suppressed)
        /\ f.suppressed # g.suppressed => (Aside(a) < Aside(b) <=> g.suppressed)
        /\ Aside(a) \in Int /\ Aside(b) \in Int
    BY <1>1 DEF Aside
  <1>4. CASE f.suppressed # g.suppressed
    <2>1. Tables!Before(a, b) <=> g.suppressed
      BY <1>4 DEF Tables!Before
    <2> QED
      BY <1>3, <1>4, <2>1
  <1>5. CASE f.suppressed = g.suppressed
    <2>1. Tables!Before(a, b) <=>
             IF f.severity # g.severity THEN Grade(a) < Grade(b)
             ELSE IF f.id # g.id THEN f.id > g.id
             ELSE Tables!Component(f) < Tables!Component(g)
      BY <1>5 DEF Tables!Before, Grade
    <2> HIDE DEF f, g
    <2>2. Aside(a) = Aside(b) /\ ~ (Aside(a) < Aside(b))
      BY <1>3, <1>5
    <2>3. CASE f.severity # g.severity
      BY <1>2, <2>1, <2>2, <2>3
    <2>4. CASE f.severity = g.severity
      <3>1. Grade(a) = Grade(b) /\ ~ (Grade(a) < Grade(b))
        BY <1>2, <2>4
      <3>2. f.id # g.id \/ ~ (f.id > g.id)
        BY <1>1
      <3> QED
        BY <2>1, <2>2, <2>4, <3>1, <3>2 DEF f, g
    <2> QED
      BY <2>3, <2>4
  <1> QED
    BY <1>4, <1>5

\* It orders rows, but for those of the same weight.
LEMMA BeforeOrders ==
    /\ \A a : Weighs(a) => ~ Tables!Before(a, a)
    /\ \A a, b : Weighs(a) /\ Weighs(b) /\ Tables!Before(a, b) => ~ Tables!Before(b, a)
    /\ \A a, b, c :
          Weighs(a) /\ Weighs(b) /\ Weighs(c) /\ Tables!Before(a, c) =>
              Tables!Before(a, b) \/ Tables!Before(b, c)
  <1> DEFINE Lex(a1, a2, a3, a4, b1, b2, b3, b4) ==
                \/ a1 < b1
                \/ a1 = b1 /\ a2 < b2
                \/ a1 = b1 /\ a2 = b2 /\ a3 > b3
                \/ a1 = b1 /\ a2 = b2 /\ a3 = b3 /\ a4 < b4
             Comes(a, b) == Lex(Aside(a), Grade(a), a.finding.id, Tables!Component(a.finding),
                                Aside(b), Grade(b), b.finding.id, Tables!Component(b.finding))
  <1>1. \A a : Weighs(a) => /\ Aside(a) \in Int /\ Grade(a) \in Int /\ a.finding.id \in Int
                            /\ Tables!Component(a.finding) \in Int
    BY RankIs DEF Weighs, Aside, Grade, Tables!Component
  <1>2. \A a, b : Weighs(a) /\ Weighs(b) => (Tables!Before(a, b) <=> Comes(a, b))
    BY BeforeIs
  <1>3. \A a1, a2, a3, a4 \in Int : ~ Lex(a1, a2, a3, a4, a1, a2, a3, a4)
    OBVIOUS
  <1>4. \A a1, a2, a3, a4, b1, b2, b3, b4 \in Int :
           Lex(a1, a2, a3, a4, b1, b2, b3, b4) => ~ Lex(b1, b2, b3, b4, a1, a2, a3, a4)
    OBVIOUS
  <1>5. \A a1, a2, a3, a4, b1, b2, b3, b4, c1, c2, c3, c4 \in Int :
           Lex(a1, a2, a3, a4, c1, c2, c3, c4) =>
               Lex(a1, a2, a3, a4, b1, b2, b3, b4) \/ Lex(b1, b2, b3, b4, c1, c2, c3, c4)
    OBVIOUS
  <1> HIDE DEF Lex
  <1>6. \A a : Weighs(a) => ~ Comes(a, a)
    BY <1>1, <1>3
  <1>7. \A a, b : Weighs(a) /\ Weighs(b) /\ Comes(a, b) => ~ Comes(b, a)
    BY <1>1, <1>4
  <1>8. \A a, b, c : Weighs(a) /\ Weighs(b) /\ Weighs(c) /\ Comes(a, c) => Comes(a, b) \/ Comes(b, c)
    BY <1>1, <1>5
  <1> HIDE DEF Comes
  <1> QED
    BY <1>2, <1>6, <1>7, <1>8

\* The sorted rows are the given ones, each once, and none stands before one that
\* should come first.
Sorted(from, sorted, rows, N) ==
    /\ from \in [1..N -> 1..N]
    /\ sorted = [n \in 1..N |-> rows[from[n]]]
    /\ \A p \in 1..N : \E n \in 1..N : from[n] = p
    /\ \A m, n \in 1..N :
          m < n => from[m] # from[n] /\ ~ Tables!Before(rows[from[n]], rows[from[m]])

\* The page's sort does that.
LEMMA StableSortIs ==
    ASSUME NEW rows, NEW N \in Nat, DOMAIN rows = 1..N,
           \A r \in 1..N : Weighs(rows[r]) /\ rows[r].met \in Int,
           \A r, s \in 1..N : rows[r].met = rows[s].met => r = s
    PROVE  \E from : Sorted(from, Tables!StableSort(rows), rows, N)
  <1> DEFINE Comes(p, q) == \/ Tables!Before(rows[p], rows[q])
                            \/ ~ Tables!Before(rows[q], rows[p]) /\ rows[p].met < rows[q].met
             before == {p \in (DOMAIN rows) \X (DOMAIN rows) : Comes(p[1], p[2])}
  <1>1. Tables!StableSort(rows) = SortBy(rows, before)
    <2>1. Tables!StableSort(rows) = Tables!SortBy(rows, before)
      BY DEF Tables!StableSort
    <2> HIDE DEF before
    <2> QED
      BY <2>1, SameSort
  <1>2. \A p, q \in 1..N : <<p, q>> \in before <=> Comes(p, q)
    <2> HIDE DEF Comes
    <2> QED
      OBVIOUS
  <1> HIDE DEF before
  <1>3. \A p \in 1..N : ~ Comes(p, p)
    BY BeforeOrders
  <1>4. \A p, q \in 1..N : p # q => Comes(p, q) \/ Comes(q, p)
    BY BeforeOrders
  <1>5. ASSUME NEW p \in 1..N, NEW q \in 1..N, NEW r \in 1..N, Comes(p, q), Comes(q, r)
        PROVE  Comes(p, r)
    <2> DEFINE a == rows[p]
               b == rows[q]
               c == rows[r]
    <2>1. Weighs(a) /\ Weighs(b) /\ Weighs(c) /\ a.met \in Int /\ b.met \in Int /\ c.met \in Int
      OBVIOUS
    <2>2. ~ Tables!Before(b, a) /\ ~ Tables!Before(c, b)
      BY <1>5, <2>1, BeforeOrders
    <2>3. ~ Tables!Before(c, a)
      BY <2>1, <2>2, BeforeOrders
    <2>4. CASE Tables!Before(a, b) \/ Tables!Before(b, c)
      BY <2>1, <2>2, <2>4, BeforeOrders
    <2>5. CASE a.met < b.met /\ b.met < c.met
      BY <2>1, <2>3, <2>5
    <2> QED
      BY <1>5, <2>4, <2>5
  <1>6. \A p, q \in 1..N : Comes(p, q) => ~ Tables!Before(rows[q], rows[p])
    BY BeforeOrders
  <1> HIDE DEF Comes
  <1>7. Orders(before, 1..N)
    BY <1>2, <1>3, <1>4, <1>5 DEF Orders
  <1>8. PICK from : Arranges(from, SortBy(rows, before), rows, 1..N, before, N)
    BY <1>7, SortArranges
  <1>9. ASSUME NEW m \in 1..N, NEW n \in 1..N, m < n
        PROVE  from[m] # from[n] /\ ~ Tables!Before(rows[from[n]], rows[from[m]])
    <2>1. from[m] \in 1..N /\ from[n] \in 1..N /\ <<from[m], from[n]>> \in before
      BY <1>8, <1>9 DEF Arranges
    <2>2. Comes(from[m], from[n])
      BY <1>2, <2>1
    <2> QED
      BY <1>3, <1>6, <2>1, <2>2
  <1> QED
    BY <1>1, <1>8, <1>9 DEF Arranges, Sorted

\* What the page has of findings: a row for every key that is shown, of one of its
\* findings, with all their packages, in order.
Page(rows, F, arch) ==
    /\ rows \in Seq({rows[r] : r \in DOMAIN rows})
    /\ \A r \in DOMAIN rows :
          /\ Weighs(rows[r])
          /\ \E m \in DOMAIN F : /\ Tables!BelongsTo(F[m].arch, arch) /\ rows[r].finding = F[m]
                                 /\ Shows(rows[r], F[m].package)
    /\ \A r, s \in DOMAIN rows :
          Tables!Key(rows[r].finding) = Tables!Key(rows[s].finding) => r = s
    /\ \A k \in DOMAIN F :
          Tables!BelongsTo(F[k].arch, arch) =>
              \E r \in DOMAIN rows :
                  Tables!Key(rows[r].finding) = Tables!Key(F[k]) /\ Shows(rows[r], F[k].package)
    /\ \A r \in 1..(Len(rows) - 1) : ~ Tables!Before(rows[r + 1], rows[r])

\* The rows of the fold, tidied.
Tidied(F, arch) ==
    LET folded == Tables!Fold(F, arch) IN [n \in DOMAIN folded |-> Tables!Tidy(folded[n])]

\* NewReport's rows are such a page.
LEMMA RowsArePage ==
    ASSUME NEW F, Sortable(F), NEW arch
    PROVE  Page(Tables!StableSort(Tidied(F, arch)), F, arch)
  <1> DEFINE folded == Tables!Fold(F, arch)
             N == Len(folded)
             tidied == Tidied(F, arch)
             rows == Tables!StableSort(tidied)
  <1>1. Folded(folded, F, arch, Len(F)) /\ DOMAIN F = 1..Len(F) /\ Len(F) \in Nat
    BY FoldIs DEF Sortable
  <1> HIDE DEF folded
  <1>2. /\ N \in Nat /\ DOMAIN folded = 1..N /\ \A r \in 1..N : folded[r] \in RowsOf(F)
    BY <1>1 DEF Folded
  <1>3. tidied = [n \in 1..N |-> Tables!Tidy(folded[n])]
    BY <1>2 DEF Tidied, folded
  <1> HIDE DEF N, tidied
  <1>4. ASSUME NEW r \in 1..N
        PROVE  /\ tidied[r].finding = folded[r].finding /\ tidied[r].met = folded[r].met
               /\ \A p : Has(folded[r], p) => Shows(tidied[r], p)
    <2>1. /\ folded[r].packages \in Seq(Int)
          /\ folded[r] = [finding |-> folded[r].finding, packages |-> folded[r].packages,
                          met |-> folded[r].met]
      BY <1>2 DEF RowsOf
    <2>2. tidied[r] = Tables!Tidy(folded[r])
      BY <1>3
    <2> DEFINE row == folded[r]
               finding == row.finding
               packages == row.packages
               met == row.met
    <2>3. packages \in Seq(Int) /\ row = [finding |-> finding, packages |-> packages, met |-> met]
      BY <2>1
    <2> HIDE DEF row, finding, packages, met
    <2>4. /\ Tables!Tidy(row).finding = finding /\ Tables!Tidy(row).met = met
          /\ \A p : Has(row, p) => Shows(Tables!Tidy(row), p)
      BY <2>3, TidyIs
    <2> QED
      BY <2>2, <2>4 DEF row, finding, met
  <1>5. ASSUME NEW r \in 1..N
        PROVE  /\ Weighs(tidied[r]) /\ tidied[r].met \in DOMAIN F
               /\ \E m \in DOMAIN F : /\ Tables!BelongsTo(F[m].arch, arch)
                                      /\ tidied[r].finding = F[m] /\ m = tidied[r].met
                                      /\ Shows(tidied[r], F[m].package)
    <2> DEFINE m == folded[r].met
    <2>1. /\ m \in DOMAIN F /\ Tables!BelongsTo(F[m].arch, arch)
          /\ folded[r].finding = F[m] /\ Has(folded[r], F[m].package)
      BY <1>1, <1>2 DEF Folded
    <2> HIDE DEF m
    <2>2. tidied[r].finding = F[m] /\ tidied[r].met = m /\ Shows(tidied[r], F[m].package)
      BY <1>4, <2>1 DEF m
    <2> QED
      BY <2>1, <2>2 DEF Sortable, Weighs
  <1>6. \A r, s \in 1..N : Tables!Key(tidied[r].finding) = Tables!Key(tidied[s].finding) => r = s
    BY <1>1, <1>2, <1>4 DEF Folded
  <1>7. ASSUME NEW k \in DOMAIN F, Tables!BelongsTo(F[k].arch, arch)
        PROVE  \E r \in 1..N : /\ Tables!Key(tidied[r].finding) = Tables!Key(F[k])
                               /\ Shows(tidied[r], F[k].package)
    <2>1. PICK r \in 1..N : Tables!Key(folded[r].finding) = Tables!Key(F[k])
                                /\ Has(folded[r], F[k].package)
      BY <1>1, <1>2, <1>7 DEF Folded
    <2> QED
      BY <1>4, <2>1
  <1>8. PICK from : Sorted(from, rows, tidied, N)
    <2>1. \A r, s \in 1..N : tidied[r].met = tidied[s].met => r = s
      BY <1>5, <1>6
    <2>2. DOMAIN tidied = 1..N
      BY <1>3
    <2>3. \A r \in 1..N : Weighs(tidied[r]) /\ tidied[r].met \in Int
      BY <1>1, <1>5
    <2> QED
      BY <1>2, <2>1, <2>2, <2>3, StableSortIs
  <1> HIDE DEF rows
  <1>9. /\ from \in [1..N -> 1..N] /\ rows = [n \in 1..N |-> tidied[from[n]]]
        /\ \A p \in 1..N : \E n \in 1..N : from[n] = p
        /\ \A m, n \in 1..N :
              m < n => from[m] # from[n] /\ ~ Tables!Before(tidied[from[n]], tidied[from[m]])
    BY <1>8 DEF Sorted
  <1>10. DOMAIN rows = 1..N /\ \A n \in 1..N : from[n] \in 1..N /\ rows[n] = tidied[from[n]]
    BY <1>9
  <1>11. rows \in Seq({rows[r] : r \in DOMAIN rows}) /\ Len(rows) = N
    <2> DEFINE S == {rows[r] : r \in DOMAIN rows}
    <2>1. rows = [n \in 1..N |-> rows[n]] /\ \A n \in 1..N : rows[n] \in S
      BY <1>9, <1>10
    <2> HIDE DEF S
    <2>2. rows \in Seq(S) /\ Len(rows) = N
      BY <1>2, <2>1, IsSequence
    <2> QED
      BY <2>2 DEF S
  <1>12. \A r \in DOMAIN rows :
            /\ Weighs(rows[r])
            /\ \E m \in DOMAIN F : /\ Tables!BelongsTo(F[m].arch, arch) /\ rows[r].finding = F[m]
                                   /\ Shows(rows[r], F[m].package)
    BY <1>5, <1>10
  <1>13. ASSUME NEW r \in 1..N, NEW s \in 1..N,
                Tables!Key(rows[r].finding) = Tables!Key(rows[s].finding)
         PROVE  r = s
    <2>1. from[r] = from[s]
      BY <1>6, <1>10, <1>13
    <2>2. ~ (r < s) /\ ~ (s < r)
      BY <1>9, <2>1
    <2> QED
      BY <1>2, <2>2
  <1>14. \A k \in DOMAIN F :
            Tables!BelongsTo(F[k].arch, arch) =>
                \E r \in DOMAIN rows :
                    Tables!Key(rows[r].finding) = Tables!Key(F[k]) /\ Shows(rows[r], F[k].package)
    <2> SUFFICES ASSUME NEW k \in DOMAIN F, Tables!BelongsTo(F[k].arch, arch)
                 PROVE  \E r \in DOMAIN rows : /\ Tables!Key(rows[r].finding) = Tables!Key(F[k])
                                               /\ Shows(rows[r], F[k].package)
      OBVIOUS
    <2>1. PICK p \in 1..N : /\ Tables!Key(tidied[p].finding) = Tables!Key(F[k])
                            /\ Shows(tidied[p], F[k].package)
      BY <1>7
    <2>2. PICK r \in 1..N : from[r] = p
      BY <1>9
    <2>3. r \in DOMAIN rows /\ rows[r] = tidied[p]
      BY <1>10, <2>2
    <2> QED
      BY <2>1, <2>3
  <1>15. \A r \in 1..(Len(rows) - 1) : ~ Tables!Before(rows[r + 1], rows[r])
    <2> SUFFICES ASSUME NEW r \in 1..(N - 1)
                 PROVE  ~ Tables!Before(rows[r + 1], rows[r])
      BY <1>11
    <2>1. r \in 1..N /\ r + 1 \in 1..N /\ r < r + 1
      BY <1>2
    <2> QED
      BY <1>9, <1>10, <2>1
  <1>16. Page(rows, F, arch)
    BY <1>10, <1>11, <1>12, <1>13, <1>14, <1>15 DEF Page
  <1> QED
    BY <1>16 DEF rows, tidied

\* Two parts of a finite set.
LEMMA InTwo ==
    ASSUME NEW A, NEW B, IsFiniteSet(A), IsFiniteSet(B), A \cap B = {}
    PROVE  /\ Cardinality(A) \in Nat /\ Cardinality(B) \in Nat
           /\ Cardinality(A \cup B) = Cardinality(A) + Cardinality(B)
  <1> DEFINE a == Cardinality(A)
             b == Cardinality(B)
             c == Cardinality(A \cup B)
             d == Cardinality(A \cap B)
  <1>1. d = 0
    BY FS_EmptySet
  <1>2. c = a + b - d
    BY FS_Union
  <1>3. a \in Nat /\ b \in Nat
    BY FS_CardinalityType
  <1> HIDE DEF a, b, c, d
  <1>4. a \in Nat /\ b \in Nat /\ c = a + b
    BY <1>1, <1>2, <1>3
  <1> QED
    BY <1>4 DEF a, b, c

\* The open rows of some severities.
OpenOf(rows, severities) ==
    {n \in DOMAIN rows : ~ rows[n].finding.suppressed /\ rows[n].finding.severity \in severities}

\* How many rows there are, open and suppressed, and of each severity.
LEMMA RowsAddUp ==
    ASSUME NEW rows, NEW N \in Nat, DOMAIN rows = 1..N, \A r \in 1..N : Weighs(rows[r])
    PROVE  /\ Cardinality(OpenOf(rows, Tables!Severities))
                 + Cardinality({n \in DOMAIN rows : rows[n].finding.suppressed}) = N
           /\ Cardinality(OpenOf(rows, Tables!Severities))
                 = Cardinality(OpenOf(rows, {"critical"})) + Cardinality(OpenOf(rows, {"high"}))
                   + Cardinality(OpenOf(rows, {"medium"})) + Cardinality(OpenOf(rows, {"low"}))
                   + Cardinality(OpenOf(rows, {"negligible"})) + Cardinality(OpenOf(rows, {"unknown"}))
  <1> DEFINE closed == {n \in DOMAIN rows : rows[n].finding.suppressed}
  <1>1. IsFiniteSet(1..N) /\ Cardinality(1..N) = N
    BY FS_Interval
  <1>2. \A X : IsFiniteSet(OpenOf(rows, X))
    BY <1>1, FS_Subset DEF OpenOf
  <1>3. IsFiniteSet(closed)
    BY <1>1, FS_Subset
  <1>4. OpenOf(rows, Tables!Severities) \cap closed = {}
    BY DEF OpenOf
  <1>5. OpenOf(rows, Tables!Severities) \cup closed = 1..N
    BY DEF OpenOf, Weighs
  <1>6. Cardinality(OpenOf(rows, Tables!Severities)) + Cardinality(closed) = N
    <2> HIDE DEF closed
    <2>1. Cardinality(OpenOf(rows, Tables!Severities) \cup closed)
             = Cardinality(OpenOf(rows, Tables!Severities)) + Cardinality(closed)
      BY <1>2, <1>3, <1>4, InTwo
    <2> QED
      BY <1>1, <1>5, <2>1
  <1>7. ASSUME NEW X, NEW s, s \notin X
        PROVE  /\ Cardinality(OpenOf(rows, X \cup {s}))
                     = Cardinality(OpenOf(rows, X)) + Cardinality(OpenOf(rows, {s}))
               /\ Cardinality(OpenOf(rows, X)) \in Nat /\ Cardinality(OpenOf(rows, {s})) \in Nat
    <2>1. OpenOf(rows, X \cup {s}) = OpenOf(rows, X) \cup OpenOf(rows, {s})
      BY DEF OpenOf
    <2>2. OpenOf(rows, X) \cap OpenOf(rows, {s}) = {}
      BY <1>7 DEF OpenOf
    <2> QED
      BY <1>2, <2>1, <2>2, InTwo
  <1> DEFINE S1 == {"critical"}
             S2 == S1 \cup {"high"}
             S3 == S2 \cup {"medium"}
             S4 == S3 \cup {"low"}
             S5 == S4 \cup {"negligible"}
             S6 == S5 \cup {"unknown"}
             count(X) == Cardinality(OpenOf(rows, X))
  <1>8. /\ "high" \notin S1 /\ "medium" \notin S2 /\ "low" \notin S3 /\ "negligible" \notin S4
        /\ "unknown" \notin S5
    OBVIOUS
  <1>9. Tables!Severities = S6
    BY DEF Tables!Severities, Tables!Scale
  <1> HIDE DEF S1, S2, S3, S4, S5, S6
  <1>10. /\ count(S1 \cup {"high"}) = count(S1) + count({"high"})
         /\ count(S2 \cup {"medium"}) = count(S2) + count({"medium"})
         /\ count(S3 \cup {"low"}) = count(S3) + count({"low"})
         /\ count(S4 \cup {"negligible"}) = count(S4) + count({"negligible"})
         /\ count(S5 \cup {"unknown"}) = count(S5) + count({"unknown"})
    BY <1>7, <1>8
  <1>11. /\ count(S1) \in Nat /\ count({"high"}) \in Nat /\ count({"medium"}) \in Nat
         /\ count({"low"}) \in Nat /\ count({"negligible"}) \in Nat /\ count({"unknown"}) \in Nat
    BY <1>7, <1>8
  <1> HIDE DEF count
  <1>12. /\ count(S2) = count(S1) + count({"high"})
         /\ count(S3) = count(S2) + count({"medium"})
         /\ count(S4) = count(S3) + count({"low"})
         /\ count(S5) = count(S4) + count({"negligible"})
         /\ count(S6) = count(S5) + count({"unknown"})
    BY <1>10 DEF S2, S3, S4, S5, S6
  <1>13. count(S6) = count(S1) + count({"high"}) + count({"medium"}) + count({"low"})
                       + count({"negligible"}) + count({"unknown"})
    <2> DEFINE n1 == count(S1)
               n2 == count({"high"})
               n3 == count({"medium"})
               n4 == count({"low"})
               n5 == count({"negligible"})
               n6 == count({"unknown"})
               m2 == count(S2)
               m3 == count(S3)
               m4 == count(S4)
               m5 == count(S5)
               m6 == count(S6)
    <2>1. n1 \in Nat /\ n2 \in Nat /\ n3 \in Nat /\ n4 \in Nat /\ n5 \in Nat /\ n6 \in Nat
      BY <1>11
    <2>2. m2 = n1 + n2 /\ m3 = m2 + n3 /\ m4 = m3 + n4 /\ m5 = m4 + n5 /\ m6 = m5 + n6
      BY <1>12
    <2> HIDE DEF n1, n2, n3, n4, n5, n6, m2, m3, m4, m5, m6
    <2>3. m6 = n1 + n2 + n3 + n4 + n5 + n6
      BY <2>1, <2>2
    <2> QED
      BY <2>3 DEF n1, n2, n3, n4, n5, n6, m6
  <1> QED
    BY <1>6, <1>9, <1>13 DEF count, S1

\* The findings of a scan can be sorted.
LEMMA FindingsSort ==
    ASSUME Tables!ScanAssumption, NEW matches \in UNION {[1..n -> Matches] : n \in 0..MaxMatches},
           NEW document \in Statements
    PROVE  /\ Sortable(Tables!Findings(matches, document))
           /\ DOMAIN Tables!Findings(matches, document) = DOMAIN matches
           /\ \A n \in DOMAIN matches :
                 Tables!Findings(matches, document)[n] = Tables!Decode(matches[n], document)
  <1> DEFINE F == Tables!Findings(matches, document)
             S == {F[n] : n \in DOMAIN F}
  <1>1. PICK N \in 0..MaxMatches : matches \in [1..N -> Matches]
    OBVIOUS
  <1>2. N \in Nat /\ DOMAIN matches = 1..N
    <2>1. MaxMatches \in Nat
      BY DEF Tables!ScanAssumption
    <2> QED
      BY <1>1, <2>1
  <1>3. F = [n \in 1..N |-> Tables!Decode(matches[n], document)]
    BY <1>2 DEF Tables!Findings
  <1> HIDE DEF F
  <1>4. F \in Seq(S)
    <2>1. F = [n \in 1..N |-> F[n]] /\ \A n \in 1..N : F[n] \in S
      BY <1>3
    <2> HIDE DEF S
    <2> QED
      BY <1>2, <2>1, IsSequence
  <1>5. "unknown" \in Tables!Severities
    BY DEF Tables!Severities, Tables!Scale
  <1>6. ASSUME NEW n \in 1..N
        PROVE  /\ F[n].id \in Int /\ F[n].package \in Int /\ F[n].upstream \in Int
               /\ F[n].severity \in Tables!Severities /\ F[n].suppressed \in BOOLEAN
    <2>1. matches[n] \in Matches /\ F[n] = Tables!Decode(matches[n], document)
      BY <1>1, <1>3
    <2>2. F[n].id = matches[n].id /\ F[n].package = matches[n].package
          /\ F[n].upstream = matches[n].upstream
          /\ F[n].severity = Tables!ParseSeverity(matches[n].label)
          /\ F[n].suppressed = Tables!Silenced(matches[n].id, document)
      BY <2>1 DEF Tables!Decode
    <2>3. matches[n].id \in Int /\ matches[n].package \in Int /\ matches[n].upstream \in Int
      BY <2>1 DEF Tables!ScanAssumption
    <2>4. \A label : Tables!ParseSeverity(label) \in Tables!Severities
      BY <1>5 DEF Tables!ParseSeverity
    <2>5. \A id : Tables!Silenced(id, document) \in BOOLEAN
      BY DEF Tables!Silenced
    <2> QED
      BY <2>2, <2>3, <2>4, <2>5
  <1>7. DOMAIN F = 1..N
    BY <1>3
  <1>8. Sortable(F)
    BY <1>4, <1>6, <1>7 DEF Sortable
  <1> QED
    BY <1>2, <1>3, <1>8 DEF F

\* The report is of the scan and of the newest VEX document.
ReportInv ==
    /\ v1 \in UNION {[1..n -> Matches] : n \in 0..MaxMatches} /\ v2 \in Statements
    /\ pc = "done" => v4 = Tables!NewReport(v3, Tables!Findings(v1, v2))

\* It begins so.
LEMMA ReportBegins ==
    ASSUME Tables!Init
    PROVE  ReportInv
  <1>1. pc # "done"
    BY DEF Tables!Init
  <1>2. v1 \in UNION {[1..n -> Matches] : n \in 0..MaxMatches} /\ v2 \in Statements
    BY DEF Tables!Init
  <1> QED
    BY <1>1, <1>2 DEF ReportInv

\* Rendering keeps to it.
LEMMA ReportGoesOn ==
    ASSUME ReportInv, Tables!Render \/ UNCHANGED <<v1, v2, v3, v4, pc>>
    PROVE  ReportInv'
  <1>1. UNCHANGED <<v1, v2, v3>>
    BY DEF Tables!Render
  <1>2. pc' = "done" => v4' = Tables!NewReport(v3, Tables!Findings(v1, v2))
    BY DEF Tables!Render, ReportInv
  <1> QED
    BY <1>1, <1>2 DEF ReportInv

\* What is the same to the validator is the same report.
LEMMA SameFingerprint ==
    ASSUME Tables!ScanAssumption, ReportInv
    PROVE  Tables!FingerprintTells
  <1> SUFFICES ASSUME NEW other \in Statements,
                      Tables!Fingerprint(Tables!Findings(v1, other))
                         = Tables!Fingerprint(Tables!Findings(v1, v2))
               PROVE  Tables!Findings(v1, other) = Tables!Findings(v1, v2)
    BY DEF Tables!FingerprintTells
  <1> DEFINE F == Tables!Findings(v1, v2)
             G == Tables!Findings(v1, other)
             said(f) == <<f.id, f.package, f.version, f.arch, f.severity, f.fix, f.suppressed>>
  <1>1. F = [n \in DOMAIN v1 |-> Tables!Decode(v1[n], v2)]
        /\ G = [n \in DOMAIN v1 |-> Tables!Decode(v1[n], other)]
    BY DEF Tables!Findings
  <1>2. Tables!Fingerprint(F) = [n \in DOMAIN F |-> said(F[n])]
        /\ Tables!Fingerprint(G) = [n \in DOMAIN G |-> said(G[n])]
    BY DEF Tables!Fingerprint
  <1>3. ASSUME NEW n \in DOMAIN v1
        PROVE  G[n] = F[n]
    <2>1. F[n] = Tables!Decode(v1[n], v2) /\ G[n] = Tables!Decode(v1[n], other)
      BY <1>1
    <2>2. said(F[n]) = said(G[n])
      <3>1. DOMAIN F = DOMAIN v1 /\ DOMAIN G = DOMAIN v1
        BY <1>1
      <3> HIDE DEF F, G, said
      <3>2. Tables!Fingerprint(F)[n] = said(F[n]) /\ Tables!Fingerprint(G)[n] = said(G[n])
        BY <1>2, <3>1
      <3> QED
        BY <3>2 DEF F, G
    <2> HIDE DEF F, G
    <2>3. F[n].suppressed = G[n].suppressed
      BY <2>2
    <2> QED
      BY <2>1, <2>3 DEF Tables!Decode
  <1> HIDE DEF F, G
  <1>4. F = G
    BY <1>1, <1>3
  <1> QED
    BY <1>4 DEF F, G

\* The report shows what it should.
LEMMA ReportShows ==
    ASSUME Tables!ScanAssumption, ReportInv
    PROVE  Tables!ReportExact
  <1> SUFFICES ASSUME pc = "done"
               PROVE  Tables!ReportExact
    BY DEF Tables!ReportExact
  <1> DEFINE F == Tables!Findings(v1, v2)
             arch == v4.arch
             rows == v4.rows
             shown == {n \in DOMAIN v1 : Tables!BelongsTo(v1[n].arch, arch)}
             N == Len(rows)
             closed == {n \in DOMAIN rows : rows[n].finding.suppressed}
  <1>1. /\ Sortable(F) /\ DOMAIN F = DOMAIN v1
        /\ \A n \in DOMAIN v1 : F[n] = Tables!Decode(v1[n], v2)
    BY FindingsSort DEF ReportInv
  <1>2. /\ rows = Tables!StableSort(Tidied(F, arch))
        /\ v4.open = Tables!Cardinality(OpenOf(rows, Tables!Severities))
        /\ v4.suppressed = Tables!Cardinality(closed)
        /\ v4.summary = [s \in Tables!Severities |-> Tables!Cardinality(OpenOf(rows, {s}))]
    <2> DEFINE where == Tables!ResolveArch(v3, Tables!Available(F))
               sorted == Tables!StableSort(Tidied(F, where))
    <2>1. v4 = [arch |-> where, architectures |-> Tables!Available(F), rows |-> sorted,
                open |-> Tables!Cardinality(OpenOf(sorted, Tables!Severities)),
                suppressed |-> Tables!Cardinality({n \in DOMAIN sorted : sorted[n].finding.suppressed}),
                summary |-> [s \in Tables!Severities |-> Tables!Cardinality(OpenOf(sorted, {s}))]]
      <3>1. v4 = Tables!NewReport(v3, F)
        BY DEF ReportInv
      <3> HIDE DEF F
      <3> QED
        BY <3>1 DEF Tables!NewReport, Tidied, OpenOf
    <2> HIDE DEF sorted
    <2>2. arch = where /\ rows = sorted
      BY <2>1
    <2>3. rows = Tables!StableSort(Tidied(F, arch))
      BY <2>2 DEF sorted
    <2> HIDE DEF where, rows, arch
    <2> QED
      BY <2>1, <2>2, <2>3
  <1>3. \A S : Tables!Cardinality(S) = Cardinality(S)
    BY Zenon DEF Tables!Cardinality, Cardinality
  <1> HIDE DEF F, arch, rows
  <1>4. Page(rows, F, arch)
    BY <1>1, <1>2, RowsArePage
  <1>5. /\ N \in Nat /\ DOMAIN rows = 1..N
        /\ \A r \in 1..N : Weighs(rows[r])
    <2> DEFINE S == {rows[r] : r \in DOMAIN rows}
    <2>1. rows \in Seq(S)
      BY <1>4 DEF Page
    <2> HIDE DEF S
    <2>2. N \in Nat /\ DOMAIN rows = 1..N
      BY <2>1
    <2> QED
      BY <1>4, <2>2 DEF Page
  <1>6. ASSUME NEW r \in DOMAIN rows, NEW n \in DOMAIN v1
        PROVE  Tables!Names(rows[r], v1[n]) <=>
                  Tables!Key(rows[r].finding) = Tables!Key(F[n]) /\ Shows(rows[r], F[n].package)
    <2>1. F[n] = Tables!Decode(v1[n], v2)
      BY <1>1
    <2>2. Tables!Key(rows[r].finding) = Tables!Key(F[n]) =>
             Tables!Component(rows[r].finding) = Tables!Component(F[n])
      BY DEF Tables!Key
    <2>3. Tables!Names(rows[r], v1[n]) <=>
             /\ Tables!Key(rows[r].finding) = Tables!Key(F[n])
             /\ F[n].package \in IF rows[r].packages = <<>> THEN {Tables!Component(F[n])}
                                 ELSE {rows[r].packages[k] : k \in DOMAIN rows[r].packages}
      BY <2>1 DEF Tables!Names
    <2> QED
      BY <2>2, <2>3 DEF Shows
  <1>7. \A n \in DOMAIN v1 : F[n].arch = v1[n].arch /\ F[n].id = v1[n].id /\ F[n].fix = v1[n].fix
                             /\ F[n].suppressed = Tables!Silenced(v1[n].id, v2)
    BY <1>1 DEF Tables!Decode
  <1>8. ASSUME NEW n \in shown
        PROVE  \E r \in DOMAIN rows :
                  /\ Tables!Names(rows[r], v1[n]) /\ rows[r].finding.fix = v1[n].fix
                  /\ \A s \in DOMAIN rows : Tables!Names(rows[s], v1[n]) => s = r
                  /\ rows[r].finding.suppressed <=>
                       \E v \in v2 : v.id = v1[n].id /\ v.status \notin {"affected", "under_investigation"}
    <2>1. n \in DOMAIN F /\ Tables!BelongsTo(F[n].arch, arch)
      BY <1>1, <1>7
    <2>2. PICK r \in DOMAIN rows : /\ Tables!Key(rows[r].finding) = Tables!Key(F[n])
                                   /\ Shows(rows[r], F[n].package)
      BY <1>4, <2>1 DEF Page
    <2>3. \A s \in DOMAIN rows : Tables!Names(rows[s], v1[n]) => s = r
      BY <1>4, <1>6, <2>2 DEF Page
    <2>4. PICK m \in DOMAIN F : rows[r].finding = F[m]
      BY <1>4 DEF Page
    <2>5. F[m].id = F[n].id /\ F[m].fix = F[n].fix
      BY <2>2, <2>4 DEF Tables!Key
    <2>6. rows[r].finding.suppressed = Tables!Silenced(v1[n].id, v2)
      BY <1>1, <1>7, <2>4, <2>5
    <2>7. Tables!Silenced(v1[n].id, v2) <=>
             \E v \in v2 : v.id = v1[n].id /\ v.status \notin {"affected", "under_investigation"}
      <3>1. \A v \in v2 : v.status \in {"not_affected", "affected", "fixed", "under_investigation"}
        BY DEF ReportInv, Tables!ScanAssumption, Tables!Statuses
      <3> QED
        BY <3>1 DEF Tables!Silenced
    <2>8. rows[r].finding.fix = v1[n].fix
      BY <1>1, <1>7, <2>4, <2>5
    <2>9. rows[r].finding.suppressed <=>
             \E v \in v2 : v.id = v1[n].id /\ v.status \notin {"affected", "under_investigation"}
      BY <2>6, <2>7
    <2>10. Tables!Names(rows[r], v1[n])
      BY <1>6, <2>2
    <2> QED
      BY <2>3, <2>8, <2>9, <2>10
  <1>9. ASSUME NEW r \in DOMAIN rows
        PROVE  \E n \in shown : Tables!Names(rows[r], v1[n])
    <2>1. PICK m \in DOMAIN F : /\ Tables!BelongsTo(F[m].arch, arch) /\ rows[r].finding = F[m]
                                /\ Shows(rows[r], F[m].package)
      BY <1>4 DEF Page
    <2>2. m \in shown
      BY <1>1, <1>7, <2>1
    <2> QED
      BY <1>6, <2>1, <2>2
  <1>10. \A r \in 1..(N - 1) : ~ Tables!Before(rows[r + 1], rows[r])
    BY <1>4 DEF Page
  <1>11. v4.open + v4.suppressed = N
    BY <1>2, <1>3, <1>5, RowsAddUp
  <1>12. v4.open = v4.summary.critical + v4.summary.high + v4.summary.medium + v4.summary.low
                   + v4.summary.negligible + v4.summary.unknown
    <2> DEFINE count(s) == Cardinality(OpenOf(rows, {s}))
    <2>1. /\ v4.summary.critical = count("critical") /\ v4.summary.high = count("high")
          /\ v4.summary.medium = count("medium") /\ v4.summary.low = count("low")
          /\ v4.summary.negligible = count("negligible") /\ v4.summary.unknown = count("unknown")
      <3>1. /\ "critical" \in Tables!Severities /\ "high" \in Tables!Severities
            /\ "medium" \in Tables!Severities /\ "low" \in Tables!Severities
            /\ "negligible" \in Tables!Severities /\ "unknown" \in Tables!Severities
        BY DEF Tables!Severities, Tables!Scale
      <3>2. \A s \in Tables!Severities : v4.summary[s] = count(s)
        BY <1>2, <1>3
      <3> HIDE DEF count
      <3> QED
        BY <3>1, <3>2
    <2>2. Cardinality(OpenOf(rows, Tables!Severities))
             = count("critical") + count("high") + count("medium") + count("low")
               + count("negligible") + count("unknown")
      BY <1>5, RowsAddUp
    <2> HIDE DEF count
    <2> QED
      BY <1>2, <1>3, <2>1, <2>2
  <1> QED
    BY <1>8, <1>9, <1>10, <1>11, <1>12 DEF Tables!ReportExact, arch, rows

-----------------------------------------------------------------------------
(* The versions page *)

\* s is the sequence of the K elements of E in their order.
Increasing(s, K, E, less) ==
    /\ s = [n \in 1..K |-> s[n]]
    /\ \A n \in 1..K : s[n] \in E
    /\ \A e \in E : \E n \in 1..K : s[n] = e
    /\ \A m, n \in 1..K : m < n => <<s[m], s[n]>> \in less

\* There is one.
LEMMA OnlyOne ==
    ASSUME NEW s, NEW K \in Nat, NEW t, NEW M \in Nat, NEW E, NEW less, Orders(less, E),
           Increasing(s, K, E, less), Increasing(t, M, E, less)
    PROVE  s = t /\ K = M
  <1> DEFINE Both(n) == n \in 1..K /\ n \in 1..M /\ s[n] = t[n]
             Bad == {n \in (1..K) \cup (1..M) : ~ Both(n)}
  <1>1. CASE Bad = {}
    <2>1. \A n \in (1..K) \cup (1..M) : Both(n)
      BY <1>1
    <2>2. K = M
      <3>1. K \in 1..K => K \in 1..M
        BY <2>1
      <3>2. M \in 1..M => M \in 1..K
        BY <2>1
      <3> QED
        BY <3>1, <3>2
    <2>3. s = [n \in 1..K |-> s[n]] /\ t = [n \in 1..K |-> t[n]]
      BY <2>2 DEF Increasing
    <2>4. \A n \in 1..K : s[n] = t[n]
      BY <2>1
    <2> QED
      BY <2>2, <2>3, <2>4
  <1>2. ASSUME Bad # {}
        PROVE  FALSE
    <2>1. PICK n \in Bad : \A m \in Bad : n <= m
      <3>1. Bad \subseteq Nat
        OBVIOUS
      <3> HIDE DEF Bad
      <3> QED
        BY <1>2, <3>1, LeastOne
    <2>2. n \in Nat /\ n # 0 /\ ~ Both(n) /\ (n \in 1..K \/ n \in 1..M)
      BY <2>1
    <2>3. \A m \in (1..K) \cup (1..M) : m < n => Both(m)
      BY <2>1, <2>2
    <2> HIDE DEF Both, Bad
    <2>4. ASSUME n \in 1..K
          PROVE  \E m \in 1..M : s[n] = t[m] /\ ~ (m < n)
      <3>1. PICK m \in 1..M : s[n] = t[m]
        BY <2>4 DEF Increasing
      <3>2. ASSUME m < n
            PROVE  FALSE
        <4>1. m \in 1..K /\ s[m] = t[m]
          BY <2>3, <3>2 DEF Both
        <4>2. <<s[m], s[n]>> \in less /\ s[n] \in E
          BY <2>4, <3>2, <4>1 DEF Increasing
        <4> QED
          BY <3>1, <4>1, <4>2 DEF Orders
      <3> QED
        BY <3>1, <3>2
    <2>5. ASSUME n \in 1..M
          PROVE  \E k \in 1..K : t[n] = s[k] /\ ~ (k < n)
      <3>1. PICK k \in 1..K : t[n] = s[k]
        BY <2>5 DEF Increasing
      <3>2. ASSUME k < n
            PROVE  FALSE
        <4>1. k \in 1..M /\ s[k] = t[k]
          BY <2>3, <3>2 DEF Both
        <4>2. <<t[k], t[n]>> \in less /\ t[n] \in E
          BY <2>5, <3>2, <4>1 DEF Increasing
        <4> QED
          BY <3>1, <4>1, <4>2 DEF Orders
      <3> QED
        BY <3>1, <3>2
    <2>6. n \in 1..K /\ n \in 1..M
      <3>1. n \in 1..K => n \in 1..M
        BY <2>2, <2>4
      <3>2. n \in 1..M => n \in 1..K
        BY <2>2, <2>5
      <3> QED
        BY <2>2, <3>1, <3>2
    <2>7. PICK m \in 1..M : s[n] = t[m] /\ ~ (m < n)
      BY <2>4, <2>6
    <2>8. PICK k \in 1..K : t[n] = s[k] /\ ~ (k < n)
      BY <2>5, <2>6
    <2>9. n < m /\ n < k
      BY <2>2, <2>6, <2>7, <2>8 DEF Both
    <2>10. <<t[n], s[n]>> \in less /\ <<s[n], t[n]>> \in less /\ s[n] \in E /\ t[n] \in E
      BY <2>6, <2>7, <2>8, <2>9 DEF Increasing
    <2> QED
      BY <2>10 DEF Orders
  <1> QED
    BY <1>1, <1>2

\* What is arranged by the order of its elements is that sequence.
LEMMA ArrangeIncreases ==
    ASSUME NEW s, NEW P, IsFiniteSet(P), NEW E, NEW less, Orders(less, E), NEW before,
           \A p \in P : s[p] \in E /\ <<p, p>> \notin before,
           \A e \in E : \E p \in P : s[p] = e,
           \A p, q \in P : s[p] = s[q] => p = q,
           \A p, q \in P : p # q => (<<p, q>> \in before <=> <<s[p], s[q]>> \in less)
    PROVE  \E K \in Nat : Increasing(Arrange(s, P, before), K, E, less)
  <1> DEFINE N == Cardinality(P)
             sorted == Arrange(s, P, before)
  <1>1. Orders(before, P)
    <2>1. \A p \in P : <<p, p>> \notin before
      OBVIOUS
    <2>2. \A p, q \in P : p # q => <<p, q>> \in before \/ <<q, p>> \in before
      BY DEF Orders
    <2>3. ASSUME NEW p \in P, NEW q \in P, NEW r \in P, <<p, q>> \in before, <<q, r>> \in before
          PROVE  <<p, r>> \in before
      <3>1. p # q /\ q # r
        BY <2>1, <2>3
      <3>2. <<s[p], s[q]>> \in less /\ <<s[q], s[r]>> \in less
        BY <2>3, <3>1
      <3>3. <<s[p], s[r]>> \in less
        BY <3>2 DEF Orders
      <3>4. p # r
        BY <3>3 DEF Orders
      <3> QED
        BY <3>3, <3>4
    <2> QED
      BY <2>1, <2>2, <2>3 DEF Orders
  <1> HIDE DEF N, sorted
  <1>2. N \in Nat /\ \E from : Arranges(from, sorted, s, P, before, N)
    BY <1>1, ArrangeArranges DEF N, sorted
  <1>3. PICK from : Arranges(from, sorted, s, P, before, N)
    BY <1>2
  <1>4. /\ \A n \in 1..N : from[n] \in P
        /\ sorted = [n \in 1..N |-> s[from[n]]]
        /\ \A p \in P : \E n \in 1..N : from[n] = p
        /\ \A m, n \in 1..N : m < n => <<from[m], from[n]>> \in before
    BY <1>3 DEF Arranges
  <1>5. \A n \in 1..N : sorted[n] = s[from[n]]
    BY <1>4
  <1>6. sorted = [n \in 1..N |-> sorted[n]]
    BY <1>4
  <1>7. \A n \in 1..N : sorted[n] \in E
    BY <1>4, <1>5
  <1>8. \A e \in E : \E n \in 1..N : sorted[n] = e
    BY <1>4, <1>5
  <1>9. \A m, n \in 1..N : m < n => <<sorted[m], sorted[n]>> \in less
    BY <1>4, <1>5
  <1>10. Increasing(sorted, N, E, less)
    BY <1>6, <1>7, <1>8, <1>9 DEF Increasing
  <1> QED
    BY <1>2, <1>10 DEF sorted

\* The page arranges so.
LEMMA SameArrange ==
    ASSUME NEW s, NEW P, NEW before
    PROVE  List!Arrange(s, P, before) = Arrange(s, P, before)
  BY Zenon DEF List!Arrange, Arrange, List!Cardinality, Cardinality

\* What compareTag compares, as numbers.
Place1(t) == IF List!TagRank(t) = 2 THEN - t.upstream ELSE t.place
Place2(t) == IF List!TagRank(t) = 2 THEN t.variant ELSE 0
Less == {p \in Tags \X Tags : List!CompareTag(p[1], p[2]) < 0}

\* The rank of a tag.
LEMMA TagRankIs ==
    ASSUME List!ListAssumption, NEW t \in Tags
    PROVE  /\ List!TagRank(t) \in {0, 1, 2} /\ (t.kind = "latest" <=> List!TagRank(t) = 0)
  <1>1. t.kind \in {"latest", "name", "version"}
    BY DEF List!ListAssumption
  <1>2. "latest" # "name" /\ "latest" # "version" /\ "name" # "version"
    OBVIOUS
  <1>3. CASE t.kind = "latest"
    <2>1. List!TagRank(t) = 0
      BY Zenon, <1>2, <1>3 DEF List!TagRank
    <2> QED
      BY <1>3, <2>1
  <1>4. CASE t.kind = "name"
    <2>1. List!TagRank(t) = 1
      BY Zenon, <1>2, <1>4 DEF List!TagRank
    <2> QED
      BY <1>4, <2>1
  <1>5. CASE t.kind = "version"
    <2>1. List!TagRank(t) = 2
      BY Zenon, <1>2, <1>5 DEF List!TagRank
    <2> QED
      BY <1>5, <2>1
  <1> QED
    BY <1>1, <1>3, <1>4, <1>5

\* compareTag compares them one after the other.
LEMMA CompareTagIs ==
    ASSUME List!ListAssumption, NEW t \in Tags, NEW u \in Tags
    PROVE  /\ List!CompareTag(t, u) \in Int
           /\ List!CompareTag(t, u) < 0 <=>
                \/ List!TagRank(t) < List!TagRank(u)
                \/ List!TagRank(t) = List!TagRank(u) /\ Place1(t) < Place1(u)
                \/ List!TagRank(t) = List!TagRank(u) /\ Place1(t) = Place1(u) /\ Place2(t) < Place2(u)
           /\ List!CompareTag(t, u) = 0 <=>
                List!TagRank(t) = List!TagRank(u) /\ Place1(t) = Place1(u) /\ Place2(t) = Place2(u)
           /\ List!TagRank(t) \in Int /\ Place1(t) \in Int /\ Place2(t) \in Int
  <1>1. List!TagRank(t) \in {0, 1, 2} /\ List!TagRank(u) \in {0, 1, 2}
    BY TagRankIs
  <1>2. /\ t.upstream \in Nat /\ t.variant \in Nat /\ t.place \in Nat
        /\ u.upstream \in Nat /\ u.variant \in Nat /\ u.place \in Nat
    BY DEF List!ListAssumption
  <1>3. CASE List!TagRank(t) # List!TagRank(u)
    BY <1>1, <1>2, <1>3 DEF List!CompareTag, Place1, Place2
  <1>4. CASE List!TagRank(t) = 2 /\ List!TagRank(u) = 2
    BY <1>1, <1>2, <1>4 DEF List!CompareTag, List!CompareVersionTag, Place1, Place2
  <1>5. CASE List!TagRank(t) = List!TagRank(u) /\ List!TagRank(t) # 2
    BY <1>1, <1>2, <1>5 DEF List!CompareTag, Place1, Place2
  <1> QED
    BY <1>1, <1>3, <1>4, <1>5

\* It orders the tags of a family.
LEMMA TagsOrdered ==
    ASSUME List!ListAssumption
    PROVE  Orders(Less, Tags)
  <1> DEFINE Lex(a1, a2, a3, b1, b2, b3) ==
                a1 < b1 \/ (a1 = b1 /\ a2 < b2) \/ (a1 = b1 /\ a2 = b2 /\ a3 < b3)
             Comes(t, u) == Lex(List!TagRank(t), Place1(t), Place2(t),
                                List!TagRank(u), Place1(u), Place2(u))
  <1>1. \A t \in Tags : List!TagRank(t) \in Int /\ Place1(t) \in Int /\ Place2(t) \in Int
    BY CompareTagIs
  <1>2. \A t, u \in Tags : <<t, u>> \in Less <=> Comes(t, u)
    BY CompareTagIs DEF Less
  <1>3. \A t, u \in Tags : t # u => Comes(t, u) \/ Comes(u, t)
    <2> SUFFICES ASSUME NEW t \in Tags, NEW u \in Tags, t # u, ~ Comes(t, u), ~ Comes(u, t)
                 PROVE  FALSE
      OBVIOUS
    <2>1. List!CompareTag(t, u) # 0
      BY DEF List!ListAssumption
    <2>2. List!TagRank(t) = List!TagRank(u) /\ Place1(t) = Place1(u) /\ Place2(t) = Place2(u)
      BY <1>1
    <2> QED
      BY <2>1, <2>2, CompareTagIs
  <1>4. \A a1, a2, a3 \in Int : ~ Lex(a1, a2, a3, a1, a2, a3)
    OBVIOUS
  <1>5. \A a1, a2, a3, b1, b2, b3, c1, c2, c3 \in Int :
           Lex(a1, a2, a3, b1, b2, b3) /\ Lex(b1, b2, b3, c1, c2, c3) => Lex(a1, a2, a3, c1, c2, c3)
    OBVIOUS
  <1> HIDE DEF Lex
  <1>6. \A t \in Tags : ~ Comes(t, t)
    BY <1>1, <1>4
  <1>7. \A t, u, v \in Tags : Comes(t, u) /\ Comes(u, v) => Comes(t, v)
    BY <1>1, <1>5
  <1> HIDE DEF Comes
  <1> QED
    BY <1>2, <1>3, <1>6, <1>7 DEF Orders

\* N tags as the registry may list them, each once.
Listing(L, N) ==
    /\ N \in Nat /\ L \in [1..N -> [tag : Tags, digest : Digests]]
    /\ \A m, n \in 1..N : L[m].tag = L[n].tag => m = n

\* The tags of a build.
Named(L, d) == {L[n].tag : n \in {k \in DOMAIN L : L[k].digest = d}}

\* They are listed in order.
LEMMA TagsOfIs ==
    ASSUME List!ListAssumption, NEW L, NEW N, Listing(L, N), NEW d
    PROVE  \E K \in Nat : Increasing(List!TagsOf(L, d), K, Named(L, d), Less)
  <1> DEFINE own == {n \in DOMAIN L : L[n].digest = d}
             s == [n \in DOMAIN L |-> L[n].tag]
             before == {p \in own \X own :
                           LET c == List!CompareTag(L[p[1]].tag, L[p[2]].tag)
                           IN  c < 0 \/ (c = 0 /\ p[1] < p[2])}
  <1>1. N \in Nat /\ DOMAIN L = 1..N
    BY DEF Listing
  <1>2. List!TagsOf(L, d) = Arrange(s, own, before)
    <2>1. List!TagsOf(L, d) = List!Arrange(s, own, before)
      BY DEF List!TagsOf
    <2> HIDE DEF s, own, before
    <2> QED
      BY <2>1, SameArrange
  <1>3. IsFiniteSet(own)
    <2>1. IsFiniteSet(1..N)
      BY <1>1, FS_Interval
    <2> QED
      BY <1>1, <2>1, FS_Subset
  <1>4. \A p \in own : p \in 1..N /\ s[p] = L[p].tag /\ L[p].tag \in Tags /\ L[p].digest = d
    BY <1>1 DEF Listing
  <1>5. \A p, q \in own : <<p, q>> \in before <=>
             \/ List!CompareTag(L[p].tag, L[q].tag) < 0
             \/ List!CompareTag(L[p].tag, L[q].tag) = 0 /\ p < q
    OBVIOUS
  <1>6. \A p, q \in own : s[p] = s[q] => p = q
    BY <1>4 DEF Listing
  <1>7. Named(L, d) = {s[p] : p \in own}
    BY DEF Named
  <1> HIDE DEF own, s, before
  <1>8. \A p \in own : <<p, p>> \notin before
    <2> SUFFICES ASSUME NEW p \in own PROVE <<p, p>> \notin before
      OBVIOUS
    <2>1. L[p].tag \in Tags /\ p \in Int
      BY <1>1, <1>4
    <2>2. ~ (List!CompareTag(L[p].tag, L[p].tag) < 0)
      BY <2>1, CompareTagIs
    <2> QED
      BY <1>5, <2>1, <2>2
  <1>9. \A p, q \in own : p # q => (<<p, q>> \in before <=> <<s[p], s[q]>> \in Less)
    <2> SUFFICES ASSUME NEW p \in own, NEW q \in own, p # q
                 PROVE  <<p, q>> \in before <=> <<s[p], s[q]>> \in Less
      OBVIOUS
    <2>1. s[p] \in Tags /\ s[q] \in Tags /\ s[p] # s[q] /\ s[p] = L[p].tag /\ s[q] = L[q].tag
      BY <1>4, <1>6
    <2>2. List!CompareTag(s[p], s[q]) # 0
      BY <2>1 DEF List!ListAssumption
    <2> QED
      BY <1>5, <2>1, <2>2 DEF Less
  <1>10. Orders(Less, Named(L, d))
    <2>1. Named(L, d) \subseteq Tags
      BY <1>4, <1>7
    <2> QED
      BY <2>1, TagsOrdered DEF Orders
  <1>11. \A p \in own : s[p] \in Named(L, d)
    BY <1>7
  <1>12. \A e \in Named(L, d) : \E p \in own : s[p] = e
    BY <1>7
  <1>13. \E K \in Nat : Increasing(Arrange(s, own, before), K, Named(L, d), Less)
    BY <1>3, <1>6, <1>8, <1>9, <1>10, <1>11, <1>12, ArrangeIncreases
  <1> QED
    BY <1>2, <1>13

\* The builds of a page.
Build(L, d) == [digest |-> d, tags |-> List!TagsOf(L, d)]
Builds(L) == {Build(L, L[n].digest) : n \in DOMAIN L}
Sooner(E) == {p \in E \X E : List!CompareRelease(p[1], p[2]) < 0}

\* A build of some K tags, T, in their order.
Fits(a, K, T) ==
    /\ K \in Nat \ {0} /\ T \subseteq Tags /\ Increasing(a.tags, K, T, Less)

\* So is each of a page.
LEMMA BuildFits ==
    ASSUME List!ListAssumption, NEW L, NEW N, Listing(L, N), NEW n \in DOMAIN L
    PROVE  \E K : Fits(Build(L, L[n].digest), K, Named(L, L[n].digest))
  <1> DEFINE d == L[n].digest
  <1>1. PICK K \in Nat : Increasing(List!TagsOf(L, d), K, Named(L, d), Less)
    BY TagsOfIs
  <1>2. Named(L, d) \subseteq Tags /\ L[n].tag \in Named(L, d)
    BY DEF Named, Listing
  <1>3. K # 0
    BY <1>1, <1>2 DEF Increasing
  <1>4. Build(L, d).tags = List!TagsOf(L, d)
    BY DEF Build
  <1>5. Fits(Build(L, d), K, Named(L, d))
    BY <1>1, <1>2, <1>3, <1>4 DEF Fits
  <1> QED
    BY <1>5

\* The version of a build is the newest of its version tags, or none.
LEMMA VersionIs ==
    ASSUME List!ListAssumption, NEW a, NEW K, NEW T, Fits(a, K, T)
    PROVE  /\ a.tags[1] \in T
           /\ List!VersionOf(a).upstream \in Int /\ List!VersionOf(a).variant \in Int
           /\ \A t \in T : List!TagRank(t) = 2 =>
                 /\ List!VersionOf(a) \in T /\ List!TagRank(List!VersionOf(a)) = 2
                 /\ List!VersionOf(a) = t \/ <<List!VersionOf(a), t>> \in Less
           /\ List!VersionOf(a) = List!NoVersion
                 \/ (List!VersionOf(a) \in T /\ List!TagRank(List!VersionOf(a)) = 2)
  <1> DEFINE tags == a.tags
             v == List!VersionOf(a)
             pinned == {n \in DOMAIN tags : List!TagRank(tags[n]) = 2}
  <1>1. /\ K \in Nat /\ K # 0 /\ DOMAIN tags = 1..K
        /\ \A n \in 1..K : tags[n] \in T
        /\ \A t \in T : \E n \in 1..K : tags[n] = t
        /\ \A m, n \in 1..K : m < n => <<tags[m], tags[n]>> \in Less
    BY DEF Fits, Increasing
  <1>2. v = IF pinned = {} THEN List!NoVersion
            ELSE tags[CHOOSE n \in pinned : \A m \in pinned : n <= m]
    BY DEF List!VersionOf
  <1> HIDE DEF v, tags
  <1>3. tags[1] \in T
    BY <1>1
  <1>4. CASE pinned = {}
    <2>1. v = List!NoVersion
      BY <1>2, <1>4
    <2>2. v.upstream \in Int /\ v.variant \in Int
      BY <2>1 DEF List!NoVersion
    <2>3. \A t \in T : List!TagRank(t) # 2
      BY <1>1, <1>4
    <2> QED
      BY <1>3, <2>1, <2>2, <2>3 DEF v, tags
  <1>5. CASE pinned # {}
    <2> DEFINE l == CHOOSE n \in pinned : \A m \in pinned : n <= m
    <2>1. l \in pinned /\ \A m \in pinned : l <= m
      <3>1. pinned \subseteq Nat
        BY <1>1
      <3> HIDE DEF pinned
      <3>2. \E n \in pinned : \A m \in pinned : n <= m
        BY <1>5, <3>1, LeastOne
      <3> QED
        BY <3>2
    <2>2. v = tags[l]
      BY <1>2, <1>5
    <2> HIDE DEF l
    <2>3. l \in 1..K /\ v \in T /\ List!TagRank(v) = 2
      BY <1>1, <2>1, <2>2
    <2>4. v.upstream \in Int /\ v.variant \in Int
      BY <2>3 DEF List!ListAssumption, Fits
    <2>5. ASSUME NEW t \in T, List!TagRank(t) = 2
          PROVE  v = t \/ <<v, t>> \in Less
      <3>1. PICK m \in 1..K : tags[m] = t
        BY <1>1
      <3>2. l <= m
        BY <1>1, <2>1, <2>5, <3>1
      <3>3. CASE l = m
        BY <2>2, <3>1, <3>3
      <3>4. CASE l < m
        BY <1>1, <2>2, <2>3, <3>1, <3>4
      <3> QED
        BY <1>1, <2>3, <3>2, <3>3, <3>4
    <2> QED
      BY <1>3, <2>3, <2>4, <2>5 DEF v, tags
  <1> QED
    BY <1>4, <1>5

\* What compareRelease compares, as numbers.
After(a) == IF List!NamesLatest(a) THEN 0 ELSE 1

\* One after the other.
LEMMA CompareReleaseIs ==
    ASSUME List!ListAssumption, NEW a, NEW K, NEW T, Fits(a, K, T), NEW b, NEW M, NEW U, Fits(b, M, U)
    PROVE  LET v == List!VersionOf(a)
               w == List!VersionOf(b)
               c == List!CompareTag(a.tags[1], b.tags[1])
           IN  /\ List!CompareRelease(a, b) < 0 <=>
                    \/ After(a) < After(b)
                    \/ After(a) = After(b) /\ v.upstream > w.upstream
                    \/ After(a) = After(b) /\ v.upstream = w.upstream /\ v.variant < w.variant
                    \/ After(a) = After(b) /\ v.upstream = w.upstream /\ v.variant = w.variant /\ c < 0
               /\ List!CompareRelease(a, b) = 0 <=>
                    After(a) = After(b) /\ v.upstream = w.upstream /\ v.variant = w.variant /\ c = 0
  <1> DEFINE v == List!VersionOf(a)
             w == List!VersionOf(b)
             c == List!CompareTag(a.tags[1], b.tags[1])
             e == List!CompareVersionTag(v, w)
  <1>1. v.upstream \in Int /\ v.variant \in Int /\ w.upstream \in Int /\ w.variant \in Int
    BY VersionIs
  <1>2. c \in Int
    <2>1. a.tags[1] \in Tags /\ b.tags[1] \in Tags
      BY VersionIs DEF Fits
    <2> QED
      BY <2>1, CompareTagIs
  <1>3. List!CompareRelease(a, b) =
           IF List!NamesLatest(a) # List!NamesLatest(b)
           THEN (IF List!NamesLatest(a) THEN -1 ELSE 1)
           ELSE IF e # 0 THEN e ELSE c
    BY DEF List!CompareRelease
  <1> HIDE DEF v, w, c
  <1>4. /\ e \in Int
        /\ e < 0 <=> v.upstream > w.upstream \/ (v.upstream = w.upstream /\ v.variant < w.variant)
        /\ e = 0 <=> v.upstream = w.upstream /\ v.variant = w.variant
    BY <1>1 DEF List!CompareVersionTag
  <1> HIDE DEF e
  <1>5. CASE List!NamesLatest(a) # List!NamesLatest(b)
    <2>1. \/ List!CompareRelease(a, b) = -1 /\ After(a) = 0 /\ After(b) = 1
          \/ List!CompareRelease(a, b) = 1 /\ After(a) = 1 /\ After(b) = 0
      BY <1>3, <1>5 DEF After, List!NamesLatest
    <2> QED
      BY <2>1 DEF v, w, c
  <1>6. CASE List!NamesLatest(a) = List!NamesLatest(b)
    <2>1. After(a) = After(b) /\ After(a) \in Int
      BY <1>6 DEF After, List!NamesLatest
    <2>2. List!CompareRelease(a, b) = IF e # 0 THEN e ELSE c
      BY <1>3, <1>6
    <2>3. /\ List!CompareRelease(a, b) < 0 <=> e < 0 \/ (e = 0 /\ c < 0)
          /\ List!CompareRelease(a, b) = 0 <=> e = 0 /\ c = 0
      BY <1>2, <1>4, <2>2
    <2> QED
      BY <1>1, <1>4, <2>1, <2>3 DEF v, w, c
  <1> QED
    BY <1>5, <1>6

\* It orders the builds of a page.
LEMMA BuildsOrdered ==
    ASSUME List!ListAssumption, NEW L, NEW N, Listing(L, N)
    PROVE  Orders(Sooner(Builds(L)), Builds(L))
  <1> DEFINE Lex(a1, a2, a3, a4, a5, a6, b1, b2, b3, b4, b5, b6) ==
                \/ a1 < b1
                \/ a1 = b1 /\ a2 > b2
                \/ a1 = b1 /\ a2 = b2 /\ a3 < b3
                \/ /\ a1 = b1 /\ a2 = b2 /\ a3 = b3
                   /\ a4 < b4 \/ (a4 = b4 /\ a5 < b5) \/ (a4 = b4 /\ a5 = b5 /\ a6 < b6)
             V(a) == List!VersionOf(a)
             Top(a) == a.tags[1]
             Comes(a, b) == Lex(After(a), V(a).upstream, V(a).variant,
                                List!TagRank(Top(a)), Place1(Top(a)), Place2(Top(a)),
                                After(b), V(b).upstream, V(b).variant,
                                List!TagRank(Top(b)), Place1(Top(b)), Place2(Top(b)))
             E == Builds(L)
  <1>1. \A a \in E : \E K : Fits(a, K, Named(L, a.digest)) /\ a = Build(L, a.digest)
    <2> SUFFICES ASSUME NEW n \in DOMAIN L
                 PROVE  LET a == Build(L, L[n].digest)
                        IN  \E K : Fits(a, K, Named(L, a.digest)) /\ a = Build(L, a.digest)
      BY DEF Builds
    <2>1. Build(L, L[n].digest).digest = L[n].digest
      BY DEF Build
    <2> QED
      BY <2>1, BuildFits
  <1>2. \A a \in E : /\ Top(a) \in Tags /\ Top(a) \in Named(L, a.digest) /\ After(a) \in Int
                     /\ V(a).upstream \in Int /\ V(a).variant \in Int
    <2> SUFFICES ASSUME NEW a \in E
                 PROVE  /\ Top(a) \in Tags /\ Top(a) \in Named(L, a.digest) /\ After(a) \in Int
                        /\ V(a).upstream \in Int /\ V(a).variant \in Int
      OBVIOUS
    <2>1. PICK K : Fits(a, K, Named(L, a.digest))
      BY <1>1
    <2> HIDE DEF E
    <2>2. Top(a) \in Named(L, a.digest) /\ V(a).upstream \in Int /\ V(a).variant \in Int
      BY <2>1, VersionIs
    <2>3. Named(L, a.digest) \subseteq Tags
      BY <2>1 DEF Fits
    <2>4. After(a) \in Int
      BY DEF After
    <2> QED
      BY <2>2, <2>3, <2>4
  <1>3. \A a \in E : List!TagRank(Top(a)) \in Int /\ Place1(Top(a)) \in Int /\ Place2(Top(a)) \in Int
    BY <1>2, CompareTagIs
  <1>4. ASSUME NEW a \in E, NEW b \in E
        PROVE  <<a, b>> \in Sooner(E) <=> Comes(a, b)
    <2>1. PICK K : Fits(a, K, Named(L, a.digest))
      BY <1>1
    <2>2. PICK M : Fits(b, M, Named(L, b.digest))
      BY <1>1
    <2>3. <<a, b>> \in Sooner(E) <=> List!CompareRelease(a, b) < 0
      BY DEF Sooner
    <2> HIDE DEF E
    <2> DEFINE c == List!CompareTag(Top(a), Top(b))
               less == \/ List!TagRank(Top(a)) < List!TagRank(Top(b))
                       \/ List!TagRank(Top(a)) = List!TagRank(Top(b)) /\ Place1(Top(a)) < Place1(Top(b))
                       \/ /\ List!TagRank(Top(a)) = List!TagRank(Top(b))
                          /\ Place1(Top(a)) = Place1(Top(b)) /\ Place2(Top(a)) < Place2(Top(b))
    <2>4. c < 0 <=> less
      BY <1>2, CompareTagIs DEF E
    <2>5. List!CompareRelease(a, b) < 0 <=>
             \/ After(a) < After(b)
             \/ After(a) = After(b) /\ V(a).upstream > V(b).upstream
             \/ After(a) = After(b) /\ V(a).upstream = V(b).upstream /\ V(a).variant < V(b).variant
             \/ After(a) = After(b) /\ V(a).upstream = V(b).upstream /\ V(a).variant = V(b).variant /\ c < 0
      BY <2>1, <2>2, CompareReleaseIs
    <2> QED
      BY <2>3, <2>4, <2>5
  <1>5. ASSUME NEW a \in E, NEW b \in E, a # b
        PROVE  Comes(a, b) \/ Comes(b, a)
    <2>1. a.digest # b.digest
      BY <1>1, <1>5
    <2>2. Top(a) # Top(b)
      <3>1. PICK m \in DOMAIN L : L[m].digest = a.digest /\ L[m].tag = Top(a)
        BY <1>2 DEF Named
      <3>2. PICK n \in DOMAIN L : L[n].digest = b.digest /\ L[n].tag = Top(b)
        BY <1>2 DEF Named
      <3> QED
        BY <2>1, <3>1, <3>2 DEF Listing
    <2>3. List!CompareTag(Top(a), Top(b)) # 0
      BY <1>2, <2>2 DEF List!ListAssumption
    <2>4. ~ (/\ List!TagRank(Top(a)) = List!TagRank(Top(b)) /\ Place1(Top(a)) = Place1(Top(b))
             /\ Place2(Top(a)) = Place2(Top(b)))
      BY <1>2, <2>3, CompareTagIs
    <2> HIDE DEF V, Top
    <2> QED
      BY <1>2, <1>3, <2>4
  <1>6. \A a1, a2, a3, a4, a5, a6 \in Int : ~ Lex(a1, a2, a3, a4, a5, a6, a1, a2, a3, a4, a5, a6)
    OBVIOUS
  <1>7. \A a1, a2, a3, a4, a5, a6, b1, b2, b3, b4, b5, b6, c1, c2, c3, c4, c5, c6 \in Int :
           /\ Lex(a1, a2, a3, a4, a5, a6, b1, b2, b3, b4, b5, b6)
           /\ Lex(b1, b2, b3, b4, b5, b6, c1, c2, c3, c4, c5, c6)
           => Lex(a1, a2, a3, a4, a5, a6, c1, c2, c3, c4, c5, c6)
    OBVIOUS
  <1> HIDE DEF Lex, V, Top, E
  <1>8. \A a \in E : ~ Comes(a, a)
    BY <1>2, <1>3, <1>6
  <1>9. \A a, b, c \in E : Comes(a, b) /\ Comes(b, c) => Comes(a, c)
    BY <1>2, <1>3, <1>7
  <1> HIDE DEF Comes
  <1>10. Orders(Sooner(E), E)
    BY <1>4, <1>5, <1>8, <1>9 DEF Orders
  <1> QED
    BY <1>10 DEF E

\* The page lists them in that order.
LEMMA ReleasesAre ==
    ASSUME List!ListAssumption, NEW L, NEW N, Listing(L, N)
    PROVE  \E K \in Nat :
              Increasing(List!NewVersions(L).releases, K, Builds(L), Sooner(Builds(L)))
  <1> DEFINE E == Builds(L)
             met == {n \in DOMAIN L : \A m \in 1..(n - 1) : L[m].digest # L[n].digest}
             built == [n \in met |-> Build(L, L[n].digest)]
             before == {p \in met \X met :
                           LET c == List!CompareRelease(built[p[1]], built[p[2]])
                           IN  c < 0 \/ (c = 0 /\ p[1] < p[2])}
  <1>1. N \in Nat /\ DOMAIN L = 1..N
    BY DEF Listing
  <1>2. List!NewVersions(L).releases = Arrange(built, met, before)
    <2>1. List!NewVersions(L).releases = List!Arrange(built, met, before)
      BY DEF List!NewVersions, Build
    <2> HIDE DEF built, met, before
    <2> QED
      BY <2>1, SameArrange
  <1>3. IsFiniteSet(met)
    <2>1. IsFiniteSet(1..N)
      BY <1>1, FS_Interval
    <2> QED
      BY <1>1, <2>1, FS_Subset
  <1>4. \A p \in met : p \in 1..N /\ built[p] = Build(L, L[p].digest) /\ built[p] \in E
    BY <1>1 DEF Builds
  <1>5. \A p, q \in met : <<p, q>> \in before <=>
             \/ List!CompareRelease(built[p], built[q]) < 0
             \/ List!CompareRelease(built[p], built[q]) = 0 /\ p < q
    OBVIOUS
  <1>6. \A p, q \in met : built[p] = built[q] => p = q
    <2> SUFFICES ASSUME NEW p \in met, NEW q \in met, built[p] = built[q]
                 PROVE  p = q
      OBVIOUS
    <2>1. L[p].digest = L[q].digest
      BY <1>4 DEF Build
    <2>2. ~ (p < q) /\ ~ (q < p)
      BY <1>1, <2>1
    <2> QED
      BY <1>1, <1>4, <2>2
  <1>7. \A e \in E : \E p \in met : built[p] = e
    <2> SUFFICES ASSUME NEW n \in DOMAIN L
                 PROVE  \E p \in met : built[p] = Build(L, L[n].digest)
      BY DEF Builds
    <2> DEFINE own == {m \in 1..N : L[m].digest = L[n].digest}
    <2>1. n \in own /\ own \subseteq Nat
      BY <1>1
    <2>2. PICK p \in own : \A m \in own : p <= m
      <3> HIDE DEF own
      <3> QED
        BY <2>1, LeastOne
    <2>3. p \in met
      BY <1>1, <2>2
    <2> QED
      BY <1>4, <2>2, <2>3
  <1>8. ASSUME NEW p \in met
        PROVE  \E K : Fits(built[p], K, Named(L, L[p].digest))
    <2>1. p \in DOMAIN L /\ built[p] = Build(L, L[p].digest)
      BY <1>1, <1>4
    <2> QED
      BY <2>1, BuildFits
  <1> HIDE DEF E, met, built, before
  <1>9. Orders(Sooner(E), E)
    BY BuildsOrdered DEF E
  <1>10. \A p \in met : <<p, p>> \notin before
    <2> SUFFICES ASSUME NEW p \in met PROVE <<p, p>> \notin before
      OBVIOUS
    <2>1. <<built[p], built[p]>> \notin Sooner(E)
      BY <1>4, <1>9 DEF Orders
    <2>2. ~ (List!CompareRelease(built[p], built[p]) < 0)
      BY <1>4, <2>1 DEF Sooner
    <2>3. ~ (p < p)
      BY <1>1, <1>4
    <2> QED
      BY <1>5, <2>2, <2>3
  <1>11. ASSUME NEW p \in met, NEW q \in met, p # q
         PROVE  List!CompareRelease(built[p], built[q]) # 0
    <2> DEFINE a == built[p]
               b == built[q]
    <2> SUFFICES ASSUME List!CompareRelease(a, b) = 0
                 PROVE  FALSE
      OBVIOUS
    <2>1. PICK K : Fits(a, K, Named(L, L[p].digest))
      BY <1>8
    <2>2. PICK M : Fits(b, M, Named(L, L[q].digest))
      BY <1>8
    <2> HIDE DEF a, b
    <2>3. List!CompareTag(a.tags[1], b.tags[1]) = 0
      BY <2>1, <2>2, CompareReleaseIs
    <2>4. /\ a.tags[1] \in Named(L, L[p].digest) /\ b.tags[1] \in Named(L, L[q].digest)
          /\ a.tags[1] \in Tags /\ b.tags[1] \in Tags
      <3>1. a.tags[1] \in Named(L, L[p].digest) /\ b.tags[1] \in Named(L, L[q].digest)
        BY <2>1, <2>2, VersionIs
      <3> QED
        BY <2>1, <2>2, <3>1 DEF Fits
    <2>5. a.tags[1] = b.tags[1]
      BY <2>3, <2>4 DEF List!ListAssumption
    <2>6. L[p].digest = L[q].digest
      <3>1. PICK m \in 1..N : L[m].digest = L[p].digest /\ L[m].tag = a.tags[1]
        BY <1>1, <2>4 DEF Named
      <3>2. PICK n \in 1..N : L[n].digest = L[q].digest /\ L[n].tag = b.tags[1]
        BY <1>1, <2>4 DEF Named
      <3> QED
        BY <2>5, <3>1, <3>2 DEF Listing
    <2> QED
      BY <1>4, <1>6, <1>11, <2>6
  <1>12. \A p, q \in met : p # q => (<<p, q>> \in before <=> <<built[p], built[q]>> \in Sooner(E))
    BY <1>4, <1>5, <1>11 DEF Sooner
  <1>13. \A p \in met : built[p] \in E
    BY <1>4
  <1>14. \E K \in Nat : Increasing(Arrange(built, met, before), K, E, Sooner(E))
    BY <1>3, <1>6, <1>7, <1>9, <1>10, <1>12, <1>13, ArrangeIncreases
  <1> QED
    BY <1>2, <1>14 DEF E

\* The order in which the registry lists the tags makes no difference.
LEMMA SameListing ==
    ASSUME List!ListAssumption, NEW L, NEW N, Listing(L, N), NEW L2, NEW N2, Listing(L2, N2),
           {L[n] : n \in DOMAIN L} = {L2[n] : n \in DOMAIN L2}
    PROVE  List!NewVersions(L) = List!NewVersions(L2)
  <1>1. /\ \A n \in DOMAIN L : \E m \in DOMAIN L2 : L[n] = L2[m]
        /\ \A m \in DOMAIN L2 : \E n \in DOMAIN L : L[n] = L2[m]
    <2>1. \A n \in DOMAIN L : L[n] \in {L2[k] : k \in DOMAIN L2}
      OBVIOUS
    <2>2. \A m \in DOMAIN L2 : L2[m] \in {L[k] : k \in DOMAIN L}
      OBVIOUS
    <2>3. \A n \in DOMAIN L : \E m \in DOMAIN L2 : L[n] = L2[m]
      BY <2>1
    <2>4. \A m \in DOMAIN L2 : \E n \in DOMAIN L : L[n] = L2[m]
      BY <2>2
    <2> QED
      BY <2>3, <2>4
  <1>2. ASSUME NEW d
        PROVE  Named(L, d) = Named(L2, d)
    BY <1>1 DEF Named
  <1>3. ASSUME NEW d
        PROVE  List!TagsOf(L, d) = List!TagsOf(L2, d)
    <2>1. PICK K \in Nat : Increasing(List!TagsOf(L, d), K, Named(L, d), Less)
      BY TagsOfIs
    <2>2. PICK M \in Nat : Increasing(List!TagsOf(L2, d), M, Named(L2, d), Less)
      BY TagsOfIs
    <2>3. Named(L, d) \subseteq Tags
      BY DEF Named, Listing
    <2>4. Orders(Less, Named(L, d))
      BY <2>3, TagsOrdered DEF Orders
    <2>5. Increasing(List!TagsOf(L2, d), M, Named(L, d), Less)
      BY <1>2, <2>2
    <2> QED
      BY <2>1, <2>4, <2>5, OnlyOne
  <1>4. \A d : Build(L, d) = Build(L2, d)
    BY <1>3 DEF Build
  <1>5. Builds(L) = Builds(L2)
    BY <1>1, <1>4 DEF Builds
  <1>6. List!NewVersions(L).releases = List!NewVersions(L2).releases
    <2>1. PICK K \in Nat : Increasing(List!NewVersions(L).releases, K, Builds(L), Sooner(Builds(L)))
      BY ReleasesAre
    <2>2. PICK M \in Nat : Increasing(List!NewVersions(L2).releases, M, Builds(L2), Sooner(Builds(L2)))
      BY ReleasesAre
    <2>3. Increasing(List!NewVersions(L2).releases, M, Builds(L), Sooner(Builds(L)))
      BY <1>5, <2>2
    <2>4. Orders(Sooner(Builds(L)), Builds(L))
      BY BuildsOrdered
    <2> QED
      BY <2>1, <2>3, <2>4, OnlyOne
  <1> DEFINE carried(l) == UNION {ArchesOf[l[n].digest] : n \in DOMAIN l}
             page(l) == [architectures |-> carried(l), releases |-> List!NewVersions(l).releases]
  <1>7. carried(L) = carried(L2)
    <2>1. \A x : (\E n \in DOMAIN L : x \in ArchesOf[L[n].digest])
                     <=> \E n \in DOMAIN L2 : x \in ArchesOf[L2[n].digest]
      BY <1>1
    <2> QED
      BY Zenon, <2>1
  <1>8. List!NewVersions(L) = page(L) /\ List!NewVersions(L2) = page(L2)
    BY DEF List!NewVersions
  <1> HIDE DEF carried
  <1>9. page(L) = page(L2)
    BY <1>6, <1>7
  <1> HIDE DEF page
  <1> QED
    BY <1>8, <1>9

\* The list is of the tags as they were listed, each once.
ListInv ==
    /\ \E N : Listing(v1, N)
    /\ pc = "done" => v2 = List!NewVersions(v1)

\* It begins so.
LEMMA ListBegins ==
    ASSUME List!ListAssumption, List!Init
    PROVE  ListInv
  <1>1. PICK names \in [Tags -> Digests \cup {"absent"}] :
             LET there == {t \in Tags : names[t] \in Digests}
             IN  \E order \in [1..List!Cardinality(there) -> there] :
                     /\ \A m, n \in DOMAIN order : order[m] = order[n] => m = n
                     /\ v1 = [n \in DOMAIN order |-> [tag |-> order[n], digest |-> names[order[n]]]]
    BY DEF List!Init
  <1> DEFINE there == {t \in Tags : names[t] \in Digests}
             N == Cardinality(there)
  <1>2. N \in Nat
    <2>1. IsFiniteSet(Tags)
      BY Zenon DEF List!ListAssumption, List!IsFiniteSet, IsFiniteSet
    <2>2. IsFiniteSet(there)
      BY <2>1, FS_Subset
    <2> HIDE DEF there
    <2> QED
      BY <2>2, FS_CardinalityType
  <1>3. List!Cardinality(there) = N
    BY Zenon DEF List!Cardinality, Cardinality
  <1>4. PICK order \in [1..N -> there] :
             /\ \A m, n \in DOMAIN order : order[m] = order[n] => m = n
             /\ v1 = [n \in DOMAIN order |-> [tag |-> order[n], digest |-> names[order[n]]]]
    BY <1>1, <1>3
  <1> HIDE DEF N
  <1>5. \A n \in 1..N : order[n] \in Tags /\ names[order[n]] \in Digests
    BY <1>4
  <1>6. v1 = [n \in 1..N |-> [tag |-> order[n], digest |-> names[order[n]]]]
    BY <1>4
  <1>7. v1 \in [1..N -> [tag : Tags, digest : Digests]]
    BY <1>5, <1>6
  <1>8. \A m, n \in 1..N : v1[m].tag = v1[n].tag => m = n
    BY <1>4, <1>6
  <1>9. Listing(v1, N)
    BY <1>2, <1>7, <1>8 DEF Listing
  <1>10. pc # "done"
    BY DEF List!Init
  <1> QED
    BY <1>9, <1>10 DEF ListInv

\* Grouping keeps to it.
LEMMA ListGoesOn ==
    ASSUME ListInv, List!Group \/ UNCHANGED <<v1, v2, pc>>
    PROVE  ListInv'
  <1>1. v1' = v1
    BY DEF List!Group
  <1>2. pc' = "done" => v2' = List!NewVersions(v1)
    BY DEF List!Group, ListInv
  <1> QED
    BY <1>1, <1>2 DEF ListInv, Listing

\* The list shows what it should.
LEMMA ListShows ==
    ASSUME List!ListAssumption, ListInv
    PROVE  List!ListExact
  <1> SUFFICES ASSUME pc = "done"
               PROVE  List!ListExact
    BY DEF List!ListExact
  <1> DEFINE releases == v2.releases
             E == Builds(v1)
             Holds(r) == {releases[r].tags[n] : n \in DOMAIN releases[r].tags}
             Newest(r) == {t \in Holds(r) : List!TagRank(t) = 2}
             reversed == [n \in DOMAIN v1 |-> v1[Len(v1) + 1 - n]]
  <1>1. PICK N : Listing(v1, N)
    BY DEF ListInv
  <1>2. v2 = List!NewVersions(v1)
    BY DEF ListInv
  <1>3. N \in Nat /\ DOMAIN v1 = 1..N /\ v1 \in [1..N -> [tag : Tags, digest : Digests]]
    BY <1>1 DEF Listing
  <1>4. List!NewVersions(reversed) = v2
    <2>1. Len(v1) = N
      <3>1. v1 = [n \in 1..N |-> v1[n]] /\ \A n \in 1..N : v1[n] \in [tag : Tags, digest : Digests]
        BY <1>3
      <3> QED
        BY <1>3, <3>1, IsSequence
    <2>2. reversed = [n \in 1..N |-> v1[N + 1 - n]]
      BY <1>3, <2>1
    <2> HIDE DEF reversed
    <2>3. \A n \in 1..N : N + 1 - n \in 1..N /\ reversed[n] = v1[N + 1 - n]
      BY <1>3, <2>2
    <2>4. Listing(reversed, N)
      <3>1. \A n \in 1..N : reversed[n] \in [tag : Tags, digest : Digests]
        BY <1>3, <2>3
      <3>2. reversed \in [1..N -> [tag : Tags, digest : Digests]]
        BY <2>2, <2>3, <3>1
      <3>3. \A m, n \in 1..N : reversed[m].tag = reversed[n].tag => m = n
        <4> SUFFICES ASSUME NEW m \in 1..N, NEW n \in 1..N, reversed[m].tag = reversed[n].tag
                     PROVE  m = n
          OBVIOUS
        <4>1. N + 1 - m = N + 1 - n
          BY <1>1, <2>3 DEF Listing
        <4> QED
          BY <1>3, <4>1
      <3> QED
        BY <1>3, <3>2, <3>3 DEF Listing
    <2>5. {v1[n] : n \in DOMAIN v1} = {reversed[n] : n \in DOMAIN reversed}
      <3>1. DOMAIN reversed = 1..N
        BY <2>2
      <3>2. \A n \in 1..N : v1[n] = reversed[N + 1 - n]
        BY <1>3, <2>3
      <3> QED
        BY <1>3, <2>3, <3>1, <3>2
    <2> QED
      BY <1>1, <1>2, <2>4, <2>5, SameListing
  <1>5. PICK K \in Nat : Increasing(releases, K, E, Sooner(E))
    BY <1>1, <1>2, ReleasesAre
  <1>6. Orders(Sooner(E), E)
    BY <1>1, BuildsOrdered
  <1>7. /\ DOMAIN releases = 1..K /\ \A r \in 1..K : releases[r] \in E
        /\ \A e \in E : \E r \in 1..K : releases[r] = e
        /\ \A r, s \in 1..K : r < s => <<releases[r], releases[s]>> \in Sooner(E)
    BY <1>5 DEF Increasing
  <1> HIDE DEF reversed, releases
  <1>8. \A r, s \in 1..K : releases[r] = releases[s] => r = s
    <2> SUFFICES ASSUME NEW r \in 1..K, NEW s \in 1..K, releases[r] = releases[s], r # s
                 PROVE  FALSE
      OBVIOUS
    <2>1. r < s \/ s < r
      OBVIOUS
    <2> HIDE DEF E
    <2> QED
      BY <1>6, <1>7, <2>1 DEF Orders
  <1>9. ASSUME NEW r \in 1..K
        PROVE  /\ releases[r].tags = List!TagsOf(v1, releases[r].digest)
               /\ releases[r] = Build(v1, releases[r].digest)
               /\ \E M : Fits(releases[r], M, Named(v1, releases[r].digest))
    <2>1. PICK n \in DOMAIN v1 : releases[r] = Build(v1, v1[n].digest)
      BY <1>7 DEF Builds
    <2>2. releases[r].digest = v1[n].digest /\ releases[r].tags = List!TagsOf(v1, v1[n].digest)
      BY <2>1 DEF Build
    <2>3. \E M : Fits(Build(v1, v1[n].digest), M, Named(v1, v1[n].digest))
      BY <1>1, BuildFits
    <2> QED
      BY <2>1, <2>2, <2>3
  <1>10. ASSUME NEW r \in 1..K
         PROVE  Holds(r) = Named(v1, releases[r].digest)
    <2>1. PICK M : Fits(releases[r], M, Named(v1, releases[r].digest))
      BY <1>9
    <2> QED
      BY <2>1 DEF Fits, Increasing
  <1> HIDE DEF E
  <1>11. ASSUME NEW n \in DOMAIN v1
         PROVE  \E r \in DOMAIN releases : /\ releases[r].digest = v1[n].digest
                                           /\ v1[n].tag \in Holds(r)
                                           /\ \A s \in DOMAIN releases :
                                                v1[n].tag \in Holds(s) => s = r
    <2>1. Build(v1, v1[n].digest) \in E
      BY DEF E, Builds
    <2>2. PICK r \in 1..K : releases[r] = Build(v1, v1[n].digest)
      BY <1>7, <2>1
    <2>3. releases[r].digest = v1[n].digest
      BY <2>2 DEF Build
    <2>4. v1[n].tag \in Named(v1, v1[n].digest)
      BY DEF Named
    <2>5. v1[n].tag \in Holds(r)
      BY <1>10, <2>3, <2>4
    <2>6. ASSUME NEW s \in 1..K, v1[n].tag \in Holds(s)
          PROVE  s = r
      <3>1. v1[n].tag \in Named(v1, releases[s].digest)
        BY <1>10, <2>6
      <3>2. PICK m \in 1..N : v1[m].digest = releases[s].digest /\ v1[m].tag = v1[n].tag
        BY <1>3, <3>1 DEF Named
      <3>3. m = n
        BY <1>1, <1>3, <3>2 DEF Listing
      <3>4. releases[s] = releases[r]
        BY <1>9, <2>3, <3>2, <3>3
      <3> QED
        BY <1>8, <3>4
    <2> HIDE DEF Holds
    <2> QED
      BY <1>7, <2>3, <2>5, <2>6
  <1>12. ASSUME NEW r \in DOMAIN releases, NEW m \in DOMAIN releases[r].tags
         PROVE  /\ \A n \in DOMAIN releases[r].tags :
                      releases[r].tags[m] = releases[r].tags[n] => m = n
                /\ \E n \in DOMAIN v1 :
                      v1[n] = [tag |-> releases[r].tags[m], digest |-> releases[r].digest]
    <2> DEFINE tags == releases[r].tags
               d == releases[r].digest
    <2>1. PICK M : Fits(releases[r], M, Named(v1, d))
      BY <1>7, <1>9
    <2>2. /\ M \in Nat /\ DOMAIN tags = 1..M /\ \A n \in 1..M : tags[n] \in Named(v1, d)
          /\ Named(v1, d) \subseteq Tags
          /\ \A k, n \in 1..M : k < n => <<tags[k], tags[n]>> \in Less
      BY <2>1 DEF Fits, Increasing
    <2> HIDE DEF tags, d
    <2>3. \A n \in 1..M : tags[m] = tags[n] => m = n
      <3> SUFFICES ASSUME NEW n \in 1..M, tags[m] = tags[n], m # n
                   PROVE  FALSE
        OBVIOUS
      <3>1. m \in 1..M
        BY <2>2 DEF tags
      <3>2. m < n \/ n < m
        BY <2>2, <3>1
      <3>3. tags[m] \in Tags
        BY <2>2, <3>1
      <3> QED
        BY <2>2, <3>1, <3>2, <3>3, TagsOrdered DEF Orders
    <2>4. m \in 1..M
      BY <2>2 DEF tags
    <2>5. PICK n \in 1..N : v1[n].digest = d /\ v1[n].tag = tags[m]
      BY <1>3, <2>2, <2>4 DEF Named
    <2>6. v1[n] = [tag |-> tags[m], digest |-> d]
      BY <1>3, <2>5
    <2> QED
      BY <1>3, <2>2, <2>3, <2>6 DEF tags, d
  <1>13. ASSUME NEW r \in DOMAIN releases, NEW s \in DOMAIN releases, r < s
         PROVE  /\ ~ List!NamesLatest(releases[s])
                /\ List!NamesLatest(releases[r]) \/ \A t \in Newest(s) : \E u \in Newest(r) :
                      u.upstream > t.upstream \/ (u.upstream = t.upstream /\ u.variant <= t.variant)
    <2> DEFINE a == releases[r]
               b == releases[s]
               T == Named(v1, a.digest)
               U == Named(v1, b.digest)
               v == List!VersionOf(a)
               w == List!VersionOf(b)
    <2>1. r \in 1..K /\ s \in 1..K
      BY <1>7
    <2>2. PICK M : Fits(a, M, T)
      BY <1>9, <2>1
    <2>3. PICK O : Fits(b, O, U)
      BY <1>9, <2>1
    <2>4. Holds(r) = T /\ Holds(s) = U
      BY <1>10, <2>1
    <2>5. a # b /\ <<a, b>> \in Sooner(E)
      BY <1>7, <1>8, <1>13, <2>1
    <2>6. List!CompareRelease(a, b) < 0
      BY <2>5 DEF Sooner
    <2>7. T \subseteq Tags /\ U \subseteq Tags /\ \A t \in T : t \notin U
      <3>1. ASSUME NEW t \in T, t \in U
            PROVE  FALSE
        <4>1. PICK m \in 1..N : v1[m].digest = a.digest /\ v1[m].tag = t
          BY <1>3, <3>1 DEF Named
        <4>2. PICK n \in 1..N : v1[n].digest = b.digest /\ v1[n].tag = t
          BY <1>3, <3>1 DEF Named
        <4>3. a.digest = b.digest
          BY <1>1, <4>1, <4>2 DEF Listing
        <4> QED
          BY <1>9, <2>1, <2>5, <4>3
      <3> QED
        BY <2>2, <2>3, <3>1 DEF Fits
    <2> HIDE DEF T, U, a, b, v, w
    <2>8. /\ a.tags[1] \in T /\ b.tags[1] \in U
          /\ v.upstream \in Int /\ v.variant \in Int /\ w.upstream \in Int /\ w.variant \in Int
          /\ v = List!NoVersion \/ (v \in T /\ List!TagRank(v) = 2)
      BY <2>2, <2>3, VersionIs DEF v, w
    <2>9. \/ After(a) < After(b)
          \/ After(a) = After(b) /\ v.upstream > w.upstream
          \/ After(a) = After(b) /\ v.upstream = w.upstream /\ v.variant <= w.variant
      <3>1. \/ After(a) < After(b)
            \/ After(a) = After(b) /\ v.upstream > w.upstream
            \/ After(a) = After(b) /\ v.upstream = w.upstream /\ v.variant < w.variant
            \/ After(a) = After(b) /\ v.upstream = w.upstream /\ v.variant = w.variant
        BY <2>2, <2>3, <2>6, CompareReleaseIs DEF v, w
      <3> QED
        BY <2>8, <3>1
    <2>10. ~ List!NamesLatest(b)
      <3> SUFFICES ASSUME List!NamesLatest(b)
                   PROVE  FALSE
        OBVIOUS
      <3>1. After(b) = 0
        BY DEF After
      <3>2. List!NamesLatest(a)
        BY <2>9, <3>1 DEF After
      <3>3. a.tags[1].kind = "latest" /\ b.tags[1].kind = "latest"
        BY <3>2 DEF List!NamesLatest
      <3>4. {a.tags[1].kind, b.tags[1].kind} = {"latest"}
        BY <3>3
      <3>5. a.tags[1] \in Tags /\ b.tags[1] \in Tags
        BY <2>7, <2>8
      <3>6. a.tags[1] = b.tags[1]
        BY <3>4, <3>5 DEF List!ListAssumption
      <3> QED
        BY <2>7, <2>8, <3>6
    <2>11. ASSUME ~ List!NamesLatest(a), NEW t \in U, List!TagRank(t) = 2
           PROVE  \E u \in T : /\ List!TagRank(u) = 2
                               /\ u.upstream > t.upstream
                                     \/ (u.upstream = t.upstream /\ u.variant <= t.variant)
      <3>1. After(a) = 1 /\ After(b) = 1
        BY <2>10, <2>11 DEF After
      <3>2. w \in U /\ List!TagRank(w) = 2 /\ (w = t \/ <<w, t>> \in Less)
        BY <2>3, <2>11, VersionIs DEF w
      <3>3. t \in Tags /\ w \in Tags /\ t.upstream \in Nat /\ t.variant \in Nat /\ w.upstream \in Nat
        BY <2>7, <2>11, <3>2 DEF List!ListAssumption
      <3>4. w.upstream > t.upstream \/ (w.upstream = t.upstream /\ w.variant <= t.variant)
        <4>1. CASE w = t
          BY <2>8, <3>3, <4>1
        <4>2. CASE <<w, t>> \in Less
          <5>1. List!CompareTag(w, t) < 0
            BY <4>2 DEF Less
          <5>2. Place1(w) < Place1(t) \/ (Place1(w) = Place1(t) /\ Place2(w) < Place2(t))
            BY <2>11, <3>2, <3>3, <5>1, CompareTagIs
          <5>3. /\ Place1(w) = - w.upstream /\ Place1(t) = - t.upstream
                /\ Place2(w) = w.variant /\ Place2(t) = t.variant
            BY <2>11, <3>2 DEF Place1, Place2
          <5> QED
            BY <2>8, <3>3, <5>2, <5>3
        <4> QED
          BY <3>2, <4>1, <4>2
      <3>5. v.upstream > t.upstream \/ (v.upstream = t.upstream /\ v.variant <= t.variant)
        BY <2>8, <2>9, <3>1, <3>3, <3>4
      <3>6. v # List!NoVersion
        <4>1. v.upstream # -1
          BY <2>8, <3>3, <3>5
        <4> QED
          BY <4>1 DEF List!NoVersion
      <3> QED
        BY <2>8, <3>5, <3>6
    <2>12. List!NamesLatest(a) \/ \A t \in Newest(s) : \E u \in Newest(r) :
              u.upstream > t.upstream \/ (u.upstream = t.upstream /\ u.variant <= t.variant)
      BY <2>4, <2>11
    <2> QED
      BY <2>10, <2>12 DEF a, b
  <1> QED
    BY <1>4, <1>11, <1>12, <1>13 DEF List!ListExact, releases, reversed

-----------------------------------------------------------------------------
(* The certificates of a bundle *)

\* The lines of an object, one by one.
Lines(o, T) ==
    /\ Len(T) = IF o.flaw = "none" THEN 10 ELSE 11
    /\ T[1] = [kind |-> "header"]
    /\ T[2] = [kind |-> "attr", key |-> "class", value |-> o.class]
    /\ T[3] = [kind |-> "attr", key |-> "trusted", value |-> o.trusted]
    /\ T[4] = [kind |-> "attr", key |-> "after", value |-> o.after]
    /\ T[5] = [kind |-> "begin", type |-> o.pem.type]
    /\ T[6] = [kind |-> "body", der |-> o.pem.der]
    /\ T[7] = [kind |-> "end"]
    /\ T[8] = [kind |-> "comment"]
    /\ T[9] = [kind |-> "attr", key |-> "distrusted", value |-> o.distrusted]
    /\ T[10] = [kind |-> "attr", key |-> "value", value |-> o.value]
    /\ o.flaw = "bare" => T[11] = [kind |-> "bare"]
    /\ o.flaw = "open" => T[11] = [kind |-> "begin", type |-> "CERTIFICATE"]

\* Its text is those.
LEMMA TextIs ==
    ASSUME NEW o, o.flaw \in {"none", "bare", "open"}
    PROVE  Lines(o, Bundle!Text(o))
  <1> DEFINE S == << [kind |-> "header"], Bundle!Attr("class", o.class),
                     Bundle!Attr("trusted", o.trusted), Bundle!Attr("after", o.after),
                     [kind |-> "begin", type |-> o.pem.type], [kind |-> "body", der |-> o.pem.der],
                     [kind |-> "end"], [kind |-> "comment"],
                     Bundle!Attr("distrusted", o.distrusted), Bundle!Attr("value", o.value) >>
             F == Bundle!Flaws[o.flaw]
             T == Bundle!Text(o)
  <1>1. T = S \o F
    BY DEF Bundle!Text
  <1>2. /\ o.flaw = "none" => F = <<>>
        /\ o.flaw = "bare" => F = << [kind |-> "bare"] >>
        /\ o.flaw = "open" => F = << [kind |-> "begin", type |-> "CERTIFICATE"] >>
    BY DEF Bundle!Flaws
  <1>3. S \in Seq({S[n] : n \in 1..10}) /\ Len(S) = 10
    OBVIOUS
  <1>4. F \in Seq({F[n] : n \in 1..1}) /\ Len(F) = IF o.flaw = "none" THEN 0 ELSE 1
    <2> HIDE DEF F
    <2>1. CASE o.flaw = "none"
      BY <1>2, <2>1
    <2>2. CASE o.flaw # "none"
      <3>1. PICK x : F = <<x>>
        BY <1>2, <2>2
      <3>2. F = [n \in 1..1 |-> F[n]]
        BY <3>1
      <3>3. Len(F) = 1
        BY <3>1
      <3> QED
        BY <2>2, <3>2, <3>3, IsSequence
    <2> QED
      BY <2>1, <2>2
  <1>5. /\ S[1] = [kind |-> "header"]
        /\ S[2] = [kind |-> "attr", key |-> "class", value |-> o.class]
        /\ S[3] = [kind |-> "attr", key |-> "trusted", value |-> o.trusted]
        /\ S[4] = [kind |-> "attr", key |-> "after", value |-> o.after]
        /\ S[5] = [kind |-> "begin", type |-> o.pem.type]
        /\ S[6] = [kind |-> "body", der |-> o.pem.der]
        /\ S[7] = [kind |-> "end"]
        /\ S[8] = [kind |-> "comment"]
        /\ S[9] = [kind |-> "attr", key |-> "distrusted", value |-> o.distrusted]
        /\ S[10] = [kind |-> "attr", key |-> "value", value |-> o.value]
    BY DEF Bundle!Attr
  <1>6. /\ o.flaw = "bare" => F[1] = [kind |-> "bare"]
        /\ o.flaw = "open" => F[1] = [kind |-> "begin", type |-> "CERTIFICATE"]
    BY <1>2
  <1> HIDE DEF S, F
  <1>7. /\ Len(S \o F) = 10 + Len(F)
        /\ \A n \in 1..10 : (S \o F)[n] = S[n]
        /\ Len(F) = 1 => (S \o F)[11] = F[1]
    <2> DEFINE E == {S[n] : n \in 1..10} \cup {F[n] : n \in 1..1}
    <2>1. S \in Seq(E) /\ F \in Seq(E)
      BY <1>3, <1>4, SeqMonotonic
    <2> HIDE DEF E
    <2>2. /\ Len(S \o F) = Len(S) + Len(F)
          /\ \A n \in 1..(Len(S) + Len(F)) :
                (S \o F)[n] = IF n <= Len(S) THEN S[n] ELSE F[n - Len(S)]
      BY <2>1, ConcatProperties
    <2>3. Len(F) \in Nat /\ Len(S) = 10
      BY <1>3, <1>4
    <2>4. \A n \in 1..10 : (S \o F)[n] = S[n]
      BY <2>2, <2>3
    <2>5. Len(F) = 1 => (S \o F)[11] = F[1]
      BY <2>2, <2>3
    <2> QED
      BY <2>2, <2>3, <2>4, <2>5
  <1>8. Len(T) = IF o.flaw = "none" THEN 10 ELSE 11
    BY <1>1, <1>4, <1>7
  <1>9. \A n \in 1..10 : T[n] = S[n]
    BY <1>1, <1>7
  <1>10. /\ T[1] = S[1] /\ T[2] = S[2] /\ T[3] = S[3] /\ T[4] = S[4] /\ T[5] = S[5]
         /\ T[6] = S[6] /\ T[7] = S[7] /\ T[8] = S[8] /\ T[9] = S[9] /\ T[10] = S[10]
    BY <1>9
  <1>11. o.flaw # "none" => T[11] = F[1]
    BY <1>1, <1>4, <1>7
  <1> HIDE DEF T
  <1>12. /\ o.flaw = "bare" => T[11] = [kind |-> "bare"]
         /\ o.flaw = "open" => T[11] = [kind |-> "begin", type |-> "CERTIFICATE"]
    BY Zenon, <1>6, <1>11
  <1>13. /\ T[1] = [kind |-> "header"]
         /\ T[2] = [kind |-> "attr", key |-> "class", value |-> o.class]
         /\ T[3] = [kind |-> "attr", key |-> "trusted", value |-> o.trusted]
         /\ T[4] = [kind |-> "attr", key |-> "after", value |-> o.after]
         /\ T[5] = [kind |-> "begin", type |-> o.pem.type]
         /\ T[6] = [kind |-> "body", der |-> o.pem.der]
         /\ T[7] = [kind |-> "end"]
         /\ T[8] = [kind |-> "comment"]
         /\ T[9] = [kind |-> "attr", key |-> "distrusted", value |-> o.distrusted]
         /\ T[10] = [kind |-> "attr", key |-> "value", value |-> o.value]
    BY Zenon, <1>5, <1>10
  <1> QED
    BY Zenon, <1>8, <1>12, <1>13 DEF T, Lines

\* What is known of an object d that p lines of the text of o have been read into.
Holds(d, key, value) == key \in DOMAIN d.attrs /\ d.attrs[key] = value
ReadInto(o, p, d) ==
    /\ d = [attrs |-> d.attrs, pems |-> d.pems]
    /\ p >= 2 => Holds(d, "class", o.class)
    /\ p >= 3 => Holds(d, "trusted", o.trusted)
    /\ p >= 4 => Holds(d, "after", o.after)
    /\ p >= 9 => Holds(d, "distrusted", o.distrusted)
    /\ p >= 10 => Holds(d, "value", o.value)
    /\ d.pems = IF p >= 7 THEN <<o.pem>> ELSE <<>>
    /\ p >= 7 => o.pem.der # <<>>

\* The block that is open then.
OpenBlock(o, p) ==
    IF p = 5 THEN <<[kind |-> "begin", type |-> o.pem.type]>>
    ELSE IF p = 6 THEN <<[kind |-> "begin", type |-> o.pem.type], [kind |-> "body", der |-> o.pem.der]>>
    ELSE IF p = 11 /\ o.flaw = "open" THEN <<[kind |-> "begin", type |-> "CERTIFICATE"]>>
    ELSE <<>>

\* The objects before the k-th are read, and p lines of that one.
ReadUpTo(k, p) ==
    /\ k \in 1..Len(v1) /\ p \in 1..Len(Bundle!Text(v1[k])) /\ Len(v3) = k
    /\ \A m \in 1..(k - 1) : ReadInto(v1[m], 10, v3[m])
    /\ ReadInto(v1[k], p, v3[k])
    /\ v4 = OpenBlock(v1[k], p)
    /\ v2 = IF p < Len(Bundle!Text(v1[k])) THEN [part |-> k, line |-> p + 1]
            ELSE [part |-> k + 1, line |-> 1]

\* The reader of a trust file.
AtHead == /\ v3 = <<>> /\ v4 = <<>>
          /\ \/ v2 = [part |-> 0, line |-> 1]
             \/ v2 = [part |-> 0, line |-> 2]
             \/ v2 = [part |-> 1, line |-> 1]
BundleInv ==
    /\ v1 \in Seq(Objects) /\ v3 \in Seq({v3[n] : n \in DOMAIN v3})
    /\ \A n \in DOMAIN v1 : v1[n].flaw = "open" => n = Len(v1)
    /\ pc \in {"parse", "extract", "done", "failed"}
    /\ pc = "parse" => AtHead \/ \E k, p \in Nat : ReadUpTo(k, p)
    /\ pc = "extract" => /\ Len(v3) = Len(v1)
                         /\ \A n \in DOMAIN v1 : ReadInto(v1[n], 10, v3[n])
    /\ Bundle!AnchorsExact

\* It begins at the head of the file.
LEMMA BundleBegins ==
    ASSUME Bundle!BundleAssumption, Bundle!Init
    PROVE  BundleInv
  <1>1. v1 \in Seq(Objects)
    <2>1. PICK n \in 0..MaxObjects : v1 \in [1..n -> Objects]
      BY DEF Bundle!Init
    <2> QED
      <3>1. MaxObjects \in Nat
        BY Zenon DEF Bundle!BundleAssumption
      <3>2. n \in Nat
        BY <3>1
      <3> QED
        BY <2>1, <3>2, SeqDef
  <1>2. AtHead /\ pc = "parse" /\ v3 = <<>>
    BY DEF Bundle!Init, AtHead
  <1>3. v3 \in Seq({v3[n] : n \in DOMAIN v3})
    BY <1>2
  <1> QED
    BY <1>1, <1>2, <1>3 DEF Bundle!Init, BundleInv, Bundle!AnchorsExact

\* What the assumption says of an object.
LEMMA ObjectIs ==
    ASSUME Bundle!BundleAssumption, NEW o \in Objects
    PROVE  /\ o.trusted \in BOOLEAN /\ o.distrusted \in BOOLEAN
           /\ o.after.form \in {"unset", "date", "unquoted"} /\ o.after.day \in Nat
           /\ o.flaw \in {"none", "bare", "open"}
           /\ o.pem = [type |-> o.pem.type, der |-> o.pem.der]
           /\ \E D : o.pem.der \in Seq(D)
           /\ o.class = "certificate" =>
                /\ o.pem.type = "CERTIFICATE"
                /\ o.pem.der # <<>> => Len(o.pem.der) <= Bundle!Whole(o.pem.der)
           /\ o.class # "certificate" => o.pem.type = "PUBLIC KEY" /\ Len(o.pem.der) <= 1
  BY Zenon DEF Bundle!BundleAssumption

\* What the reader does with a line.
LEMMA ReaderReads ==
    ASSUME pc = "parse", Bundle!Next
    PROVE  LET line == Bundle!Line
               k == Len(v3)
               scans == Bundle!Scan /\ UNCHANGED <<v1, v5, pc>>
               fails == pc' = "failed" /\ UNCHANGED <<v1, v2, v3, v4, v5>>
           IN  /\ Bundle!AtEnd =>
                    /\ pc' = IF v4 = <<>> THEN "extract" ELSE "failed"
                    /\ UNCHANGED <<v1, v2, v3, v4, v5>>
               /\ ~Bundle!AtEnd /\ v4 # <<>> /\ line.kind # "end" =>
                    v4' = Append(v4, line) /\ v3' = v3 /\ scans
               /\ ~Bundle!AtEnd /\ v4 # <<>> /\ line.kind = "end" =>
                    \/ v4[2].der = <<>> /\ fails
                    \/ /\ v4[2].der # <<>> /\ v4' = <<>> /\ scans
                       /\ v3' = [v3 EXCEPT ![k].pems =
                                    Append(@, [type |-> v4[1].type, der |-> v4[2].der])]
               /\ ~Bundle!AtEnd /\ v4 = <<>> /\ line.kind = "header" =>
                    v3' = Append(v3, [attrs |-> <<>>, pems |-> <<>>]) /\ v4' = v4 /\ scans
               /\ ~Bundle!AtEnd /\ v4 = <<>> /\ line.kind = "begin" /\ v3 # <<>> =>
                    v4' = <<line>> /\ v3' = v3 /\ scans
               /\ ~Bundle!AtEnd /\ v4 = <<>> /\ (line.kind = "comment" \/ (line.kind = "bare" /\ v3 = <<>>)) =>
                    v3' = v3 /\ v4' = v4 /\ scans
               /\ ~Bundle!AtEnd /\ v4 = <<>> /\ line.kind = "bare" /\ v3 # <<>> => fails
               /\ ~Bundle!AtEnd /\ v4 = <<>> /\ line.kind = "attr" /\ v3 # <<>> =>
                    /\ v3' = [v3 EXCEPT ![k].attrs = Bundle!Put(@, line.key, line.value)]
                    /\ v4' = v4 /\ scans
  <1> DEFINE line == Bundle!Line
  <1>1. \/ Bundle!InPEM \/ Bundle!Header \/ Bundle!Begin \/ Bundle!Skip \/ Bundle!Attribute
        \/ Bundle!EndOfFile
    BY DEF Bundle!Next, Bundle!Extract
  <1> HIDE DEF line
  <1>2. CASE Bundle!InPEM
    BY <1>2 DEF Bundle!InPEM, Bundle!Fail, line
  <1>3. CASE Bundle!Header
    BY <1>3 DEF Bundle!Header, Bundle!Reading, line
  <1>4. CASE Bundle!Begin
    BY <1>4 DEF Bundle!Begin, Bundle!Reading, Bundle!Fail, line
  <1>5. CASE Bundle!Skip
    BY <1>5 DEF Bundle!Skip, Bundle!Reading, line
  <1>6. CASE Bundle!Attribute
    BY <1>6 DEF Bundle!Attribute, Bundle!Reading, Bundle!Fail, line
  <1>7. CASE Bundle!EndOfFile
    BY <1>7 DEF Bundle!EndOfFile
  <1> QED
    BY <1>1, <1>2, <1>3, <1>4, <1>5, <1>6, <1>7

\* A line more of the k-th object.
LEMMA ReadOn ==
    ASSUME BundleInv, NEW k \in Nat, NEW p \in Nat, ReadUpTo(k, p), p < Len(Bundle!Text(v1[k])),
           NEW d, ReadInto(v1[k], p + 1, d), v1' = v1, v3' = [v3 EXCEPT ![k] = d],
           v4' = OpenBlock(v1[k], p + 1), Bundle!Scan
    PROVE  /\ ReadUpTo(k, p + 1)'
           /\ v3' \in Seq({v3'[n] : n \in DOMAIN v3'})
  <1> DEFINE T == Bundle!Text(v1[k])
  <1>1. k \in 1..Len(v1) /\ k \in 1..Len(v3) /\ p \in 1..Len(T) /\ Len(v3) = k
    BY DEF ReadUpTo, BundleInv
  <1>2. Len(v1) \in Nat /\ Len(v3) \in Nat /\ DOMAIN v3 = 1..Len(v3)
    BY DEF BundleInv
  <1>3. v2 = [part |-> k, line |-> p + 1]
    BY DEF ReadUpTo
  <1>4. Bundle!Part(k) = T
    BY <1>1 DEF Bundle!Part
  <1> HIDE DEF T
  <1>5. v2' = IF p + 1 < Len(T) THEN [part |-> k, line |-> p + 2] ELSE [part |-> k + 1, line |-> 1]
    BY <1>1, <1>3, <1>4 DEF Bundle!Scan
  <1>6. p + 1 \in 1..Len(T)
    BY <1>1 DEF T
  <1>7. /\ DOMAIN v3' = 1..k /\ v3'[k] = d /\ \A m \in 1..(k - 1) : v3'[m] = v3[m]
    <2>1. DOMAIN v3' = DOMAIN v3 /\ \A m \in DOMAIN v3 : v3'[m] = IF m = k THEN d ELSE v3[m]
      OBVIOUS
    <2> QED
      BY <1>1, <1>2, <2>1
  <1>8. v3' \in Seq({v3'[n] : n \in DOMAIN v3'}) /\ Len(v3') = k
    <2> DEFINE E == {v3'[n] : n \in DOMAIN v3'}
    <2>1. v3' = [n \in DOMAIN v3' |-> v3'[n]]
      OBVIOUS
    <2>2. v3' = [n \in 1..k |-> v3'[n]] /\ \A n \in 1..k : v3'[n] \in E
      BY <1>7, <2>1
    <2> HIDE DEF E
    <2>3. \A w : w = [n \in 1..k |-> w[n]] /\ (\A n \in 1..k : w[n] \in E) => w \in Seq(E) /\ Len(w) = k
      BY IsSequence
    <2>4. v3' \in Seq(E) /\ Len(v3') = k
      BY <2>2, <2>3, Zenon
    <2> QED
      BY <2>4 DEF E
  <1>9. \A m \in 1..(k - 1) : ReadInto(v1[m], 10, v3'[m])
    BY <1>7 DEF ReadUpTo
  <1>10. (p + 1) + 1 = p + 2
    OBVIOUS
  <1> QED
    BY <1>1, <1>5, <1>6, <1>7, <1>8, <1>9, <1>10 DEF ReadUpTo, T

\* An attribute of it.
LEMMA AttributeRead ==
    ASSUME NEW o, NEW p \in {1, 2, 3, 8, 9}, NEW d, ReadInto(o, p, d), NEW key, NEW value,
           <<key, value>> = CASE p = 1 -> <<"class", o.class>> [] p = 2 -> <<"trusted", o.trusted>>
                              [] p = 3 -> <<"after", o.after>>
                              [] p = 8 -> <<"distrusted", o.distrusted>>
                              [] p = 9 -> <<"value", o.value>>
    PROVE  ReadInto(o, p + 1, [d EXCEPT !.attrs = Bundle!Put(@, key, value)])
  <1> DEFINE e == [d EXCEPT !.attrs = Bundle!Put(@, key, value)]
  <1>1. /\ p = 1 => key = "class" /\ value = o.class
        /\ p = 2 => key = "trusted" /\ value = o.trusted
        /\ p = 3 => key = "after" /\ value = o.after
        /\ p = 8 => key = "distrusted" /\ value = o.distrusted
        /\ p = 9 => key = "value" /\ value = o.value
    OBVIOUS
  <1>2. d = [attrs |-> d.attrs, pems |-> d.pems]
    BY DEF ReadInto
  <1>3. /\ e = [attrs |-> e.attrs, pems |-> e.pems]
        /\ e.attrs = Bundle!Put(d.attrs, key, value) /\ e.pems = d.pems
    BY <1>2
  <1> HIDE DEF e
  <1>4. \A k, v : Holds(d, k, v) /\ k # key => Holds(e, k, v)
    BY <1>3 DEF Holds, Bundle!Put
  <1>5. Holds(e, key, value)
    BY <1>3 DEF Holds, Bundle!Put
  <1>6. e.pems = IF p + 1 >= 7 THEN <<o.pem>> ELSE <<>>
    BY <1>3 DEF ReadInto
  <1>7. p + 1 >= 7 => o.pem.der # <<>>
    BY DEF ReadInto
  <1>8. CASE p = 1
    BY <1>1, <1>3, <1>5, <1>6, <1>7, <1>8 DEF ReadInto
  <1>9. CASE p = 2
    BY <1>1, <1>3, <1>4, <1>5, <1>6, <1>7, <1>9 DEF ReadInto
  <1>10. CASE p = 3
    BY <1>1, <1>3, <1>4, <1>5, <1>6, <1>7, <1>10 DEF ReadInto
  <1>11. CASE p = 8
    BY <1>1, <1>3, <1>4, <1>5, <1>6, <1>7, <1>11 DEF ReadInto
  <1>12. CASE p = 9
    BY <1>1, <1>3, <1>4, <1>5, <1>6, <1>7, <1>12 DEF ReadInto
  <1> QED
    BY <1>8, <1>9, <1>10, <1>11, <1>12 DEF e

\* The next line of an object, if it has one: read, or the file is refused for it.
LEMMA LineRead ==
    ASSUME Bundle!BundleAssumption, BundleInv, pc = "parse", Bundle!Next,
           NEW k \in Nat, NEW p \in Nat, ReadUpTo(k, p), p < Len(Bundle!Text(v1[k]))
    PROVE  \/ /\ v1' = v1 /\ pc' = "parse" /\ ReadUpTo(k, p + 1)'
              /\ v3' \in Seq({v3'[n] : n \in DOMAIN v3'})
           \/ /\ pc' = "failed" /\ v1' = v1 /\ v3' = v3
              /\ \E n \in DOMAIN v1 : Bundle!Defective(v1[n])
  <1> DEFINE o == v1[k]
             T == Bundle!Text(o)
             d == v3[k]
             line == T[p + 1]
             scans == Bundle!Scan /\ v1' = v1 /\ pc' = "parse"
             fails == pc' = "failed" /\ UNCHANGED <<v1, v2, v3, v4, v5>>
  <1>1. k \in 1..Len(v1) /\ o \in Objects /\ DOMAIN v1 = 1..Len(v1) /\ Len(v1) \in Nat
    BY DEF ReadUpTo, BundleInv
  <1>2. /\ o.flaw \in {"none", "bare", "open"} /\ o.pem = [type |-> o.pem.type, der |-> o.pem.der]
    BY <1>1, ObjectIs
  <1>3. Lines(o, T)
    BY <1>2, TextIs
  <1>4. /\ p < Len(T) /\ p >= 1 /\ ReadInto(o, p, d) /\ v4 = OpenBlock(o, p)
        /\ v2 = [part |-> k, line |-> p + 1] /\ Len(v3) = k
    BY DEF ReadUpTo
  <1>5. v3 # <<>>
    BY <1>1, <1>4
  <1>6. Bundle!Line = line /\ ~Bundle!AtEnd
    BY <1>1, <1>4 DEF Bundle!Line, Bundle!AtEnd, Bundle!Part
  <1> HIDE DEF T, o, d
  <1>7. p \in 1..10 /\ (p = 10 => o.flaw \in {"bare", "open"})
    BY <1>2, <1>3, <1>4 DEF Lines
  <1>8. /\ v4 # <<>> /\ line.kind # "end" => v4' = Append(v4, line) /\ v3' = v3 /\ scans
        /\ v4 # <<>> /\ line.kind = "end" =>
             \/ v4[2].der = <<>> /\ fails
             \/ /\ v4[2].der # <<>> /\ v4' = <<>> /\ scans
                /\ v3' = [v3 EXCEPT ![k].pems =
                             Append(@, [type |-> v4[1].type, der |-> v4[2].der])]
        /\ v4 = <<>> /\ line.kind = "begin" => v4' = <<line>> /\ v3' = v3 /\ scans
        /\ v4 = <<>> /\ line.kind = "comment" => v3' = v3 /\ v4' = v4 /\ scans
        /\ v4 = <<>> /\ line.kind = "bare" => fails
        /\ v4 = <<>> /\ line.kind = "attr" =>
             /\ v3' = [v3 EXCEPT ![k].attrs = Bundle!Put(@, line.key, line.value)]
             /\ v4' = v4 /\ scans
    BY <1>4, <1>5, <1>6, ReaderReads
  <1> HIDE DEF line
  <1>9. d = [attrs |-> d.attrs, pems |-> d.pems]
    BY <1>4 DEF ReadInto
  <1>10. ASSUME NEW e, ReadInto(o, p + 1, e), v3' = [v3 EXCEPT ![k] = e],
                v4' = OpenBlock(o, p + 1), scans
         PROVE  /\ v1' = v1 /\ pc' = "parse" /\ ReadUpTo(k, p + 1)'
                /\ v3' \in Seq({v3'[n] : n \in DOMAIN v3'})
    BY <1>4, <1>10, ReadOn DEF o, T
  <1>11. v3 = [v3 EXCEPT ![k] = d]
    <2>1. v3 = [n \in DOMAIN v3 |-> v3[n]]
      BY DEF BundleInv
    <2> QED
      BY <2>1 DEF d
  <1>12. CASE p \in {1, 2, 3, 8, 9}
    <2> DEFINE e == [d EXCEPT !.attrs = Bundle!Put(@, line.key, line.value)]
    <2>1. /\ line.kind = "attr"
          /\ p = 1 => line.key = "class" /\ line.value = o.class
          /\ p = 2 => line.key = "trusted" /\ line.value = o.trusted
          /\ p = 3 => line.key = "after" /\ line.value = o.after
          /\ p = 8 => line.key = "distrusted" /\ line.value = o.distrusted
          /\ p = 9 => line.key = "value" /\ line.value = o.value
      BY <1>3, <1>12 DEF line, Lines
    <2>2. ReadInto(o, p + 1, e)
      BY <1>4, <1>12, <2>1, AttributeRead
    <2>3. v4 = <<>> /\ OpenBlock(o, p + 1) = <<>>
      BY <1>4, <1>12 DEF OpenBlock
    <2>4. v3' = [v3 EXCEPT ![k] = e] /\ v4' = <<>> /\ scans
      BY <1>8, <2>1, <2>3 DEF d
    <2> HIDE DEF e
    <2> QED
      BY <1>10, <2>2, <2>3, <2>4
  <1>13. CASE p = 4
    <2>1. line = [kind |-> "begin", type |-> o.pem.type] /\ line.kind = "begin"
      BY <1>3, <1>13 DEF line, Lines
    <2>2. v4 = <<>> /\ OpenBlock(o, p + 1) = <<line>>
      BY <1>4, <1>13, <2>1 DEF OpenBlock
    <2>3. ReadInto(o, p + 1, d)
      BY <1>4, <1>13 DEF ReadInto
    <2> QED
      BY <1>8, <1>10, <1>11, <2>1, <2>2, <2>3
  <1>14. CASE p = 5
    <2>1. line = [kind |-> "body", der |-> o.pem.der] /\ line.kind = "body"
      BY <1>3, <1>14 DEF line, Lines
    <2>2. v4 = <<[kind |-> "begin", type |-> o.pem.type]>>
      BY <1>4, <1>14 DEF OpenBlock
    <2>3. v4 # <<>> /\ OpenBlock(o, p + 1) = Append(v4, line)
      BY <1>14, <2>1, <2>2 DEF OpenBlock
    <2>4. ReadInto(o, p + 1, d)
      BY <1>4, <1>14 DEF ReadInto
    <2> QED
      BY <1>8, <1>10, <1>11, <2>1, <2>3, <2>4
  <1>15. CASE p = 6
    <2>1. line.kind = "end"
      BY <1>3, <1>15 DEF line, Lines
    <2>2. v4 = <<[kind |-> "begin", type |-> o.pem.type], [kind |-> "body", der |-> o.pem.der]>>
      BY <1>4, <1>15 DEF OpenBlock
    <2>3. v4 # <<>> /\ v4[1].type = o.pem.type /\ v4[2].der = o.pem.der
      BY <2>2
    <2>4. CASE o.pem.der = <<>>
      <3>1. fails
        BY <1>8, <2>1, <2>3, <2>4
      <3>2. Bundle!Defective(o)
        BY <2>4 DEF Bundle!Defective
      <3> QED
        BY <1>1, <3>1, <3>2 DEF o
    <2>5. CASE o.pem.der # <<>>
      <3> DEFINE e == [d EXCEPT !.pems = Append(@, o.pem)]
      <3>1. v3' = [v3 EXCEPT ![k] = e] /\ v4' = <<>> /\ scans
        BY <1>2, <1>8, <2>1, <2>3, <2>5 DEF d
      <3>2. e = [attrs |-> d.attrs, pems |-> Append(d.pems, o.pem)]
        <4>1. ASSUME NEW x
              PROVE  [d EXCEPT !.pems = x] = [attrs |-> d.attrs, pems |-> x]
          <5> DEFINE f == [d EXCEPT !.pems = x]
          <5>1. DOMAIN d = {"attrs", "pems"}
            BY <1>9
          <5>2. f = [n \in {"attrs", "pems"} |-> f[n]] /\ f.attrs = d.attrs /\ f.pems = x
            BY <5>1
          <5> QED
            BY <5>2
        <4> QED
          BY <4>1
      <3>3. d.pems = <<>>
        BY <1>4, <1>15 DEF ReadInto
      <3>4. e.attrs = d.attrs /\ e.pems = <<o.pem>> /\ e = [attrs |-> e.attrs, pems |-> e.pems]
        BY <3>2, <3>3
      <3> HIDE DEF e
      <3>5. ReadInto(o, p + 1, e)
        BY <1>4, <1>15, <2>5, <3>4 DEF ReadInto, Holds
      <3>6. OpenBlock(o, p + 1) = <<>>
        BY <1>15 DEF OpenBlock
      <3> QED
        BY <1>10, <3>1, <3>5, <3>6
    <2> QED
      BY <2>4, <2>5
  <1>16. CASE p = 7
    <2>1. line.kind = "comment"
      BY <1>3, <1>16 DEF line, Lines
    <2>2. v4 = <<>> /\ OpenBlock(o, p + 1) = <<>>
      BY <1>4, <1>16 DEF OpenBlock
    <2>3. ReadInto(o, p + 1, d)
      BY <1>4, <1>16 DEF ReadInto
    <2> QED
      BY <1>8, <1>10, <1>11, <2>1, <2>2, <2>3
  <1>17. CASE p = 10
    <2>1. v4 = <<>>
      BY <1>4, <1>17 DEF OpenBlock
    <2>2. CASE o.flaw = "bare"
      <3>1. line.kind = "bare"
        BY <1>3, <1>17, <2>2 DEF line, Lines
      <3>2. Bundle!Defective(o)
        BY <2>2 DEF Bundle!Defective
      <3> QED
        BY <1>1, <1>8, <2>1, <3>1, <3>2 DEF o
    <2>3. CASE o.flaw = "open"
      <3>1. line = [kind |-> "begin", type |-> "CERTIFICATE"] /\ line.kind = "begin"
        BY <1>3, <1>17, <2>3 DEF line, Lines
      <3>2. OpenBlock(o, p + 1) = <<line>>
        BY <1>17, <2>3, <3>1 DEF OpenBlock
      <3>3. ReadInto(o, p + 1, d)
        BY <1>4, <1>17 DEF ReadInto
      <3> QED
        BY <1>8, <1>10, <1>11, <2>1, <3>1, <3>2, <3>3
    <2> QED
      BY <1>7, <1>17, <2>2, <2>3
  <1> QED
    BY <1>7, <1>12, <1>13, <1>14, <1>15, <1>16, <1>17

\* The header of the next object, when all those before it are read.
LEMMA HeaderRead ==
    ASSUME Bundle!BundleAssumption, BundleInv, pc = "parse", Bundle!Next, NEW k \in Nat, k < Len(v1),
           Len(v3) = k, v4 = <<>>, v2 = [part |-> k + 1, line |-> 1],
           \A m \in 1..k : ReadInto(v1[m], 10, v3[m])
    PROVE  /\ v1' = v1 /\ pc' = "parse" /\ ReadUpTo(k + 1, 1)'
           /\ v3' \in Seq({v3'[n] : n \in DOMAIN v3'})
  <1> DEFINE o == v1[k + 1]
             T == Bundle!Text(o)
             d == [attrs |-> <<>>, pems |-> <<>>]
  <1>1. k + 1 \in 1..Len(v1) /\ o \in Objects /\ DOMAIN v1 = 1..Len(v1) /\ Len(v1) \in Nat
    BY DEF BundleInv
  <1>2. Lines(o, T)
    <2>1. o.flaw \in {"none", "bare", "open"}
      BY <1>1, ObjectIs
    <2> QED
      BY <2>1, TextIs
  <1>3. Len(T) \in Nat /\ 1 < Len(T) /\ T[1].kind = "header"
    BY <1>2 DEF Lines
  <1>4. Bundle!Line = T[1] /\ ~Bundle!AtEnd
    BY <1>1 DEF Bundle!Line, Bundle!AtEnd, Bundle!Part
  <1> HIDE DEF T
  <1>5. v3' = Append(v3, d) /\ v4' = v4 /\ Bundle!Scan /\ v1' = v1 /\ pc' = "parse"
    BY <1>3, <1>4, ReaderReads
  <1>6. Bundle!Part(k + 1) = T
    BY <1>1 DEF Bundle!Part, T
  <1>7. v2' = [part |-> k + 1, line |-> 2]
    BY <1>3, <1>5, <1>6 DEF Bundle!Scan
  <1>8. ReadInto(o, 1, d)
    BY DEF ReadInto
  <1> HIDE DEF d
  <1>9. /\ DOMAIN v3' = 1..(k + 1) /\ Len(v3') = k + 1 /\ v3'[k + 1] = d
        /\ \A m \in 1..k : v3'[m] = v3[m]
    <2>1. v3 \in Seq({v3[n] : n \in DOMAIN v3} \cup {d}) /\ d \in {v3[n] : n \in DOMAIN v3} \cup {d}
      BY SeqMonotonic DEF BundleInv
    <2> QED
      BY <1>5, <2>1, AppendProperties
  <1>10. v3' \in Seq({v3'[n] : n \in DOMAIN v3'})
    <2> DEFINE E == {v3'[n] : n \in DOMAIN v3'}
    <2>1. v3' = [n \in 1..Len(v3') |-> v3'[n]]
      <3>1. v3 \in Seq({v3[n] : n \in DOMAIN v3} \cup {d})
        BY SeqMonotonic DEF BundleInv
      <3>2. v3' \in Seq({v3[n] : n \in DOMAIN v3} \cup {d})
        BY <1>5, <3>1, AppendProperties
      <3> QED
        BY <3>2
    <2>2. v3' = [n \in 1..(k + 1) |-> v3'[n]] /\ \A n \in 1..(k + 1) : v3'[n] \in E
      BY <1>9, <2>1
    <2> HIDE DEF E
    <2>3. k + 1 \in Nat
      OBVIOUS
    <2>4. \A w : w = [n \in 1..(k + 1) |-> w[n]] /\ (\A n \in 1..(k + 1) : w[n] \in E) => w \in Seq(E)
      BY <2>3, IsSequence
    <2>5. v3' \in Seq(E)
      BY <2>2, <2>4, Zenon
    <2> QED
      BY <2>5 DEF E
  <1>11. OpenBlock(o, 1) = <<>> /\ (k + 1) - 1 = k /\ 1 + 1 = 2
    BY DEF OpenBlock
  <1>12. \A m \in 1..k : ReadInto(v1[m], 10, v3'[m])
    BY <1>9
  <1> QED
    <2>1. k + 1 \in 1..Len(v1') /\ 1 \in 1..Len(Bundle!Text(v1'[k + 1])) /\ Len(v3') = k + 1
      BY <1>1, <1>3, <1>5, <1>9 DEF T
    <2>2. \A m \in 1..((k + 1) - 1) : ReadInto(v1'[m], 10, v3'[m])
      BY <1>5, <1>11, <1>12
    <2>3. ReadInto(v1'[k + 1], 1, v3'[k + 1]) /\ v4' = OpenBlock(v1'[k + 1], 1)
      BY <1>5, <1>8, <1>9, <1>11
    <2>4. v2' = IF 1 < Len(Bundle!Text(v1'[k + 1])) THEN [part |-> k + 1, line |-> 1 + 1]
                ELSE [part |-> (k + 1) + 1, line |-> 1]
      BY <1>3, <1>5, <1>7, <1>11 DEF T
    <2>5. ReadUpTo(k + 1, 1)'
      BY <2>1, <2>2, <2>3, <2>4 DEF ReadUpTo
    <2> QED
      BY <1>5, <1>10, <2>5

\* Reading keeps to it.
LEMMA ReadingGoesOn ==
    ASSUME Bundle!BundleAssumption, BundleInv, pc = "parse", Bundle!Next
    PROVE  BundleInv'
  <1>1. v1 \in Seq(Objects) /\ Len(v1) \in Nat /\ DOMAIN v1 = 1..Len(v1)
    BY DEF BundleInv
  <1>2. SUFFICES /\ v1' = v1 /\ v3' \in Seq({v3'[n] : n \in DOMAIN v3'})
                 /\ \/ pc' = "parse" /\ (AtHead' \/ \E k, p \in Nat : ReadUpTo(k, p)')
                    \/ /\ pc' = "extract" /\ Len(v3') = Len(v1)
                       /\ \A n \in DOMAIN v1 : ReadInto(v1[n], 10, v3'[n])
                    \/ pc' = "failed" /\ \E n \in DOMAIN v1 : Bundle!Defective(v1[n])
    <2>1. Bundle!AnchorsExact'
      BY <1>2 DEF Bundle!AnchorsExact
    <2> QED
      BY <1>2, <2>1 DEF BundleInv
  <1>3. CASE AtHead
    <2>1. v3 = <<>> /\ v4 = <<>> /\ Len(v3) = 0
      BY <1>3 DEF AtHead
    <2>2. CASE v2 = [part |-> 0, line |-> 1]
      <3>1. Bundle!Part(0) = Bundle!Preamble
        BY DEF Bundle!Part
      <3>2. Bundle!Line.kind = "comment" /\ ~Bundle!AtEnd /\ Len(Bundle!Part(0)) = 2
        BY <1>1, <2>2, <3>1 DEF Bundle!Line, Bundle!AtEnd, Bundle!Preamble
      <3>3. v3' = v3 /\ v4' = v4 /\ Bundle!Scan /\ v1' = v1 /\ pc' = "parse"
        BY <2>1, <3>2, ReaderReads
      <3>4. v2' = [part |-> 0, line |-> 2]
        BY <2>2, <3>2, <3>3 DEF Bundle!Scan
      <3>5. AtHead'
        BY <2>1, <3>3, <3>4 DEF AtHead
      <3>6. v3' \in Seq({v3'[n] : n \in DOMAIN v3'})
        BY <2>1, <3>3
      <3> QED
        BY <3>3, <3>5, <3>6
    <2>3. CASE v2 = [part |-> 0, line |-> 2]
      <3>1. Bundle!Part(0) = Bundle!Preamble
        BY DEF Bundle!Part
      <3>2. Bundle!Line.kind = "bare" /\ ~Bundle!AtEnd /\ Len(Bundle!Part(0)) = 2
        BY <1>1, <2>3, <3>1 DEF Bundle!Line, Bundle!AtEnd, Bundle!Preamble
      <3>3. v3' = v3 /\ v4' = v4 /\ Bundle!Scan /\ v1' = v1 /\ pc' = "parse"
        BY <2>1, <3>2, ReaderReads
      <3>4. v2' = [part |-> 1, line |-> 1]
        <4>1. v2.part = 0 /\ v2.line = 2
          BY <2>3
        <4>2. Len(Bundle!Part(v2.part)) = 2
          BY <3>2, <4>1, Zenon
        <4>3. ~(v2.line < Len(Bundle!Part(v2.part)))
          <5>1. ~(2 < 2)
            OBVIOUS
          <5> QED
            BY <4>1, <4>2, <5>1, Zenon
        <4>4. v2.part + 1 = 1
          BY <4>1
        <4> QED
          BY <3>3, <4>3, <4>4, Zenon DEF Bundle!Scan
      <3>5. AtHead'
        BY <2>1, <3>3, <3>4 DEF AtHead
      <3>6. v3' \in Seq({v3'[n] : n \in DOMAIN v3'})
        BY <2>1, <3>3
      <3> QED
        BY <3>3, <3>5, <3>6
    <2>4. CASE v2 = [part |-> 1, line |-> 1]
      <3>1. CASE Len(v1) = 0
        <4>1. Bundle!AtEnd
          BY <2>4, <3>1 DEF Bundle!AtEnd
        <4>2. pc' = "extract" /\ v1' = v1 /\ v3' = v3
          BY <2>1, <4>1, ReaderReads
        <4>3. v3' \in Seq({v3'[n] : n \in DOMAIN v3'})
          BY <2>1, <4>2
        <4> QED
          BY <1>1, <2>1, <3>1, <4>2, <4>3
      <3>2. CASE Len(v1) # 0
        <4>1. 0 \in Nat /\ 0 < Len(v1) /\ 0 + 1 = 1 /\ \A m \in 1..0 : ReadInto(v1[m], 10, v3[m])
          BY <1>1, <3>2
        <4>2. /\ v1' = v1 /\ pc' = "parse" /\ ReadUpTo(0 + 1, 1)'
              /\ v3' \in Seq({v3'[n] : n \in DOMAIN v3'})
          BY <2>1, <2>4, <4>1, HeaderRead
        <4> QED
          BY <4>1, <4>2
      <3> QED
        BY <3>1, <3>2
    <2> QED
      BY <1>3, <2>2, <2>3, <2>4 DEF AtHead
  <1>4. ASSUME NEW k \in Nat, NEW p \in Nat, ReadUpTo(k, p)
        PROVE  /\ v1' = v1 /\ v3' \in Seq({v3'[n] : n \in DOMAIN v3'})
               /\ \/ pc' = "parse" /\ \E i, j \in Nat : ReadUpTo(i, j)'
                  \/ /\ pc' = "extract" /\ Len(v3') = Len(v1)
                     /\ \A n \in DOMAIN v1 : ReadInto(v1[n], 10, v3'[n])
                  \/ pc' = "failed" /\ \E n \in DOMAIN v1 : Bundle!Defective(v1[n])
    <2> DEFINE o == v1[k]
               T == Bundle!Text(o)
    <2>1. k \in 1..Len(v1) /\ o \in Objects /\ p \in 1..Len(T) /\ Len(v3) = k
      BY <1>1, <1>4 DEF ReadUpTo
    <2>2. o.flaw \in {"none", "bare", "open"}
      BY <2>1, ObjectIs
    <2>3. Len(T) = IF o.flaw = "none" THEN 10 ELSE 11
      <3>1. Lines(o, T)
        BY <2>2, TextIs
      <3> QED
        BY <3>1, Zenon DEF Lines
    <2>4. CASE p < Len(T)
      BY <1>4, <2>4, LineRead DEF BundleInv
    <2>5. CASE p = Len(T)
      <3>1. v2 = [part |-> k + 1, line |-> 1]
        BY <1>4, <2>2, <2>3, <2>5 DEF ReadUpTo
      <3>2. ReadInto(o, p, v3[k]) /\ p >= 10
        BY <1>4, <2>2, <2>3, <2>5 DEF ReadUpTo
      <3>3. ReadInto(o, 10, v3[k])
        BY <3>2 DEF ReadInto
      <3>4. \A m \in 1..k : ReadInto(v1[m], 10, v3[m])
        BY <1>4, <2>1, <3>3 DEF ReadUpTo
      <3>5. v4 = IF o.flaw = "open" THEN <<[kind |-> "begin", type |-> "CERTIFICATE"]>> ELSE <<>>
        BY <1>4, <2>2, <2>3, <2>5 DEF ReadUpTo, OpenBlock
      <3>6. CASE k = Len(v1)
        <4>1. Bundle!AtEnd
          BY <1>1, <3>1, <3>6 DEF Bundle!AtEnd
        <4>2. /\ pc' = IF v4 = <<>> THEN "extract" ELSE "failed"
              /\ v1' = v1 /\ v3' = v3
          BY <4>1, ReaderReads
        <4>3. v3' \in Seq({v3'[n] : n \in DOMAIN v3'})
          BY <4>2 DEF BundleInv
        <4>4. CASE v4 = <<>>
          BY <1>1, <2>1, <3>4, <3>6, <4>2, <4>3, <4>4
        <4>5. CASE v4 # <<>>
          <5>1. Bundle!Defective(o) /\ k \in DOMAIN v1
            BY <1>1, <2>1, <3>5, <4>5 DEF Bundle!Defective
          <5> QED
            BY <4>2, <4>3, <4>5, <5>1
        <4> QED
          BY <4>4, <4>5
      <3>7. CASE k < Len(v1)
        <4>1. o.flaw # "open"
          BY <1>1, <2>1, <3>7 DEF BundleInv
        <4>2. v4 = <<>>
          BY <3>5, <4>1
        <4>3. /\ v1' = v1 /\ pc' = "parse" /\ ReadUpTo(k + 1, 1)'
              /\ v3' \in Seq({v3'[n] : n \in DOMAIN v3'})
          BY <2>1, <3>1, <3>4, <3>7, <4>2, HeaderRead
        <4>4. k + 1 \in Nat /\ 1 \in Nat
          OBVIOUS
        <4> QED
          BY <4>3, <4>4
      <3>8. k = Len(v1) \/ k < Len(v1)
        <4>1. k \in 1..Len(v1)
          BY <2>1, Zenon
        <4>2. \A m \in Nat : \A n \in 1..m : n = m \/ n < m
          OBVIOUS
        <4> QED
          BY <1>1, <4>1, <4>2, Zenon
      <3> QED
        BY <3>6, <3>7, <3>8
    <2> QED
      BY <2>1, <2>3, <2>4, <2>5
  <1> QED
    BY <1>3, <1>4 DEF BundleInv

\* Selecting from one element is keeping it or not.
LEMMA SelectOne ==
    ASSUME NEW b, NEW P, P \subseteq {1}
    PROVE  Bundle!Select(<<b>>, P) = IF 1 \in P THEN <<b>> ELSE <<>>
  <1> DEFINE s == <<b>>
             before == {p \in P \X P : p[1] < p[2]}
             A == Arrange(s, P, before)
             N == Cardinality(P)
  <1>1. Bundle!Select(<<b>>, P) = A
    BY Zenon DEF Bundle!Select, Bundle!Arrange, Arrange, Bundle!Cardinality, Cardinality
  <1>2. /\ IsFiniteSet(P) /\ P = IF 1 \in P THEN {1} ELSE {}
    <2>1. P = IF 1 \in P THEN {1} ELSE {}
      OBVIOUS
    <2>2. IsFiniteSet({1}) /\ IsFiniteSet({})
      BY FS_Singleton, FS_EmptySet
    <2>3. IsFiniteSet(P)
      BY <2>1, <2>2, Zenon
    <2> QED
      BY <2>1, <2>3
  <1>3. Orders(before, P)
    BY DEF Orders
  <1>4. N = IF 1 \in P THEN 1 ELSE 0
    BY <1>2, FS_Singleton, FS_EmptySet
  <1> HIDE DEF before, A, N
  <1>5. PICK from : Arranges(from, A, s, P, before, N)
    BY <1>2, <1>3, ArrangeArranges DEF A, N
  <1>6. A = [n \in 1..N |-> s[from[n]]] /\ \A n \in 1..N : from[n] = 1
    BY <1>5 DEF Arranges
  <1>7. A = [n \in 1..N |-> b]
    BY <1>6
  <1>8. (1 \in P => A = <<b>>) /\ (1 \notin P => A = <<>>)
    BY <1>4, <1>7
  <1> QED
    BY <1>1, <1>8, Zenon

\* What is known of an object that was read.
LEMMA IsRead ==
    ASSUME NEW o, NEW d, ReadInto(o, 10, d)
    PROVE  /\ d.attrs["class"] = o.class /\ d.attrs["trusted"] = o.trusted
           /\ d.attrs["after"] = o.after /\ d.attrs["distrusted"] = o.distrusted
           /\ d.attrs["value"] = o.value /\ d.pems = <<o.pem>> /\ o.pem.der # <<>>
  BY DEF ReadInto, Holds

\* The blocks of each kind in it.
LEMMA BlocksAre ==
    ASSUME Bundle!BundleAssumption, NEW o \in Objects, NEW d, ReadInto(o, 10, d)
    PROVE  /\ Bundle!Keys(d) = IF o.class = "certificate" THEN {} ELSE {o.pem.der}
           /\ Bundle!Certificates(d) = IF o.class = "certificate" THEN {1} ELSE {}
  <1>1. d.pems = <<o.pem>> /\ DOMAIN d.pems = {1} /\ d.pems[1] = o.pem
    <2>1. d.pems = <<o.pem>>
      BY IsRead
    <2> QED
      BY <2>1
  <1>2. o.pem.type = IF o.class = "certificate" THEN "CERTIFICATE" ELSE "PUBLIC KEY"
    BY ObjectIs
  <1>3. "CERTIFICATE" # "PUBLIC KEY"
    OBVIOUS
  <1> QED
    BY <1>1, <1>2, <1>3 DEF Bundle!Keys, Bundle!Certificates

\* A public key is the key it is about; so is what the walk finds in a whole
\* certificate.
LEMMA KeysAre ==
    ASSUME Bundle!BundleAssumption, NEW o \in Objects, o.pem.der # <<>>
    PROVE  /\ o.class # "certificate" => o.pem.der = Bundle!KeyOf(o)
           /\ o.class = "certificate" =>
                \/ /\ Bundle!SubjectPublicKeyInfo(o.pem.der) = <<>>
                   /\ Len(o.pem.der) < Bundle!Whole(o.pem.der)
                \/ /\ Bundle!SubjectPublicKeyInfo(o.pem.der) # <<>>
                   /\ Bundle!SubjectPublicKeyInfo(o.pem.der) = Bundle!KeyOf(o)
  <1> DEFINE der == o.pem.der
  <1>1. PICK D : der \in Seq(D)
    BY ObjectIs
  <1>2. Bundle!KeyOf(o) = <<der[Len(der)]>>
    BY DEF Bundle!KeyOf
  <1>3. ASSUME o.class # "certificate"
        PROVE  der = <<der[Len(der)]>>
    <2>1. Len(der) <= 1
      BY <1>3, ObjectIs
    <2> HIDE DEF der
    <2>2. der # <<>>
      BY DEF der
    <2>3. Len(der) = 1
      BY <1>1, <2>1, <2>2
    <2> QED
      BY <1>1, <2>3
  <1>4. ASSUME o.class = "certificate"
        PROVE  \/ /\ Bundle!SubjectPublicKeyInfo(der) = <<>>
                  /\ Len(der) < Bundle!Whole(der)
               \/ /\ Bundle!SubjectPublicKeyInfo(der) # <<>>
                  /\ Bundle!SubjectPublicKeyInfo(der) = <<der[Len(der)]>>
    <2> DEFINE place == IF der[1] = "version" THEN 7 ELSE 6
    <2>1. Len(der) <= Bundle!Whole(der)
      BY <1>4, ObjectIs
    <2> HIDE DEF der
    <2>2. Len(der) \in Nat /\ place \in Nat
      BY <1>1
    <2>3. Bundle!Whole(der) = place
      BY DEF Bundle!Whole
    <2>4. Bundle!SubjectPublicKeyInfo(der) = IF Len(der) < place THEN <<>> ELSE <<der[place]>>
      BY DEF Bundle!SubjectPublicKeyInfo
    <2>5. <<der[place]>> # <<>>
      OBVIOUS
    <2> HIDE DEF place
    <2>6. Len(der) < place \/ Len(der) = place
      BY <2>1, <2>2, <2>3
    <2> QED
      BY <2>3, <2>4, <2>5, <2>6, Zenon
  <1> QED
    BY <1>2, <1>3, <1>4

\* A bounded set of naturals has a greatest.
LEMMA GreatestOne ==
    ASSUME NEW N \in Nat, NEW T, T \subseteq 1..N, T # {}
    PROVE  \E x \in T : \A y \in T : y <= x
  <1> DEFINE U == {N - y : y \in T}
  <1>1. U \subseteq Nat /\ U # {}
    <2>1. \A y \in T : N - y \in Nat
      OBVIOUS
    <2>2. U \subseteq Nat
      BY <2>1
    <2> QED
      BY <2>2
  <1>2. PICK u \in U : \A v \in U : u <= v
    BY <1>1, LeastOne
  <1>3. PICK x \in T : u = N - x
    BY <1>2
  <1>4. ASSUME NEW y \in T
        PROVE  y <= x
    <2>1. N - x <= N - y
      BY <1>2, <1>3
    <2>2. x \in Int /\ y \in Int
      OBVIOUS
    <2> QED
      BY <2>1, <2>2
  <1> QED
    BY <1>4

\* A restriction on a key is the one of the last object that names it.
LEMMA RestrictedIs ==
    ASSUME Bundle!BundleAssumption, v1 \in Seq(Objects), Len(v3) = Len(v1), DOMAIN v3 = 1..Len(v3),
           \A n \in DOMAIN v1 : ReadInto(v1[n], 10, v3[n]),
           NEW key, NEW about,
           about = {m \in DOMAIN v1 : v1[m].class = "usage" /\ Bundle!KeyOf(v1[m]) = key}
    PROVE  ~Bundle!Restricted(key) <=>
               (about # {} => \E m \in about : v1[m].value # "mail" /\ \A l \in about : l <= m)
  <1> DEFINE N == Len(v1)
             named == {n \in Bundle!UsageObjects : key \in Bundle!Keys(v3[n])}
             last == CHOOSE n \in named : \A m \in named : m <= n
  <1>1. N \in Nat /\ DOMAIN v1 = 1..N /\ DOMAIN v3 = 1..N
    OBVIOUS
  <1>2. ASSUME NEW n \in 1..N
        PROVE  /\ v3[n].attrs["class"] = v1[n].class /\ v3[n].attrs["value"] = v1[n].value
               /\ v1[n].class = "usage" => Bundle!Keys(v3[n]) = {Bundle!KeyOf(v1[n])}
    <2>1. v1[n] \in Objects /\ ReadInto(v1[n], 10, v3[n])
      BY <1>1
    <2>2. /\ v3[n].attrs["class"] = v1[n].class /\ v3[n].attrs["value"] = v1[n].value
          /\ v1[n].pem.der # <<>>
      BY <2>1, IsRead
    <2>3. Bundle!Keys(v3[n]) = IF v1[n].class = "certificate" THEN {} ELSE {v1[n].pem.der}
      BY <2>1, BlocksAre
    <2>4. v1[n].class # "certificate" => v1[n].pem.der = Bundle!KeyOf(v1[n])
      BY <2>1, <2>2, KeysAre
    <2>5. "usage" # "certificate"
      OBVIOUS
    <2> QED
      BY <2>2, <2>3, <2>4, <2>5, Zenon
  <1>3. Bundle!UsageObjects = {n \in 1..N : v1[n].class = "usage"}
    BY <1>1, <1>2 DEF Bundle!UsageObjects
  <1>4. named = about
    BY <1>1, <1>2, <1>3
  <1>5. Bundle!Restricted(key) <=> named # {} /\ v3[last].attrs["value"] = "mail"
    BY DEF Bundle!Restricted
  <1> HIDE DEF named, last
  <1>6. CASE about = {}
    BY <1>4, <1>5, <1>6
  <1>7. CASE about # {}
    <2>1. about \subseteq 1..N
      BY <1>1
    <2>2. \E x \in about : \A y \in about : y <= x
      BY <1>1, <1>7, <2>1, GreatestOne
    <2>3. last \in about /\ \A y \in about : y <= last
      BY <1>4, <2>2 DEF last
    <2>4. v3[last].attrs["value"] = v1[last].value
      BY <1>2, <2>1, <2>3
    <2>5. \A m \in about : (\A l \in about : l <= m) => m = last
      BY <2>1, <2>3
    <2> QED
      BY <1>4, <1>5, <1>7, <2>3, <2>4, <2>5, Zenon
  <1> QED
    BY <1>6, <1>7

\* The bundle is of the anchors, and a file is refused only for a defect.
LEMMA BundleExtracts ==
    ASSUME Bundle!BundleAssumption, BundleInv, pc = "extract", Bundle!Extract
    PROVE  BundleInv'
  <1> DEFINE N == Len(v1)
             Want(n) == IF Bundle!IsAnchor(n) THEN <<v1[n].pem>> ELSE <<>>
  <1>1. /\ v1 \in Seq(Objects) /\ N \in Nat /\ DOMAIN v1 = 1..N /\ DOMAIN v3 = 1..N /\ Len(v3) = N
        /\ \A n \in DOMAIN v1 : ReadInto(v1[n], 10, v3[n])
    BY DEF BundleInv
  <1>2. ASSUME NEW n \in 1..N
        PROVE  /\ v1[n] \in Objects /\ ReadInto(v1[n], 10, v3[n])
               /\ v3[n].attrs["class"] = v1[n].class /\ v3[n].attrs["trusted"] = v1[n].trusted
               /\ v3[n].attrs["after"] = v1[n].after
               /\ v3[n].attrs["distrusted"] = v1[n].distrusted
               /\ v3[n].attrs["value"] = v1[n].value
               /\ v3[n].pems = <<v1[n].pem>> /\ v1[n].pem.der # <<>>
    <2>1. v1[n] \in Objects /\ ReadInto(v1[n], 10, v3[n])
      BY <1>1
    <2> QED
      BY <2>1, IsRead
  <1>3. ASSUME NEW n \in 1..N
        PROVE  /\ Bundle!Alive(v3[n]) <=> /\ v1[n].trusted /\ ~v1[n].distrusted
                                          /\ ~Bundle!Dead(v1[n].after)
               /\ Bundle!Dead(v1[n].after) <=>
                    ~(v1[n].after.form = "date" => Now <= v1[n].after.day + Lifetime)
    <2>1. Now \in Nat /\ Lifetime \in Nat
      BY Zenon DEF Bundle!BundleAssumption
    <2>2. v1[n].after.day \in Nat
      BY <1>2, ObjectIs
    <2>3. v1[n].after.day + Lifetime < Now <=> ~(Now <= v1[n].after.day + Lifetime)
      BY <2>1, <2>2
    <2>4. Bundle!Dead(v1[n].after) <=>
            ~(v1[n].after.form = "date" => Now <= v1[n].after.day + Lifetime)
      BY <2>3, Zenon DEF Bundle!Dead
    <2>5. Bundle!Alive(v3[n]) <=> /\ v1[n].trusted /\ ~v1[n].distrusted
                                  /\ ~Bundle!Dead(v1[n].after)
      BY <1>2, Zenon DEF Bundle!Alive, Bundle!Considered
    <2> QED
      BY <2>4, <2>5
  <1>4. CASE Bundle!Refuses
    <2>1. pc' = "failed" /\ UNCHANGED <<v1, v2, v3, v4, v5>>
      BY <1>4 DEF Bundle!Extract, Bundle!Fail
    <2>2. \E n \in 1..N : Bundle!Defective(v1[n])
      <3>1. ASSUME NEW n \in Bundle!UsageObjects, Bundle!Undecodable(v3[n].attrs["value"])
            PROVE  n \in 1..N /\ Bundle!Defective(v1[n])
        <4>1. n \in 1..N /\ v3[n].attrs["class"] = "usage"
          BY <1>1 DEF Bundle!UsageObjects
        <4>2. v1[n].class = "usage" /\ v1[n].value \notin {"server", "any", "mail"}
          BY <1>2, <3>1, <4>1 DEF Bundle!Undecodable
        <4> QED
          BY <4>1, <4>2 DEF Bundle!Defective
      <3>2. ASSUME NEW n \in DOMAIN v3, Bundle!BadDate(v3[n].attrs["after"])
            PROVE  n \in 1..N /\ Bundle!Defective(v1[n])
        BY <1>1, <1>2, <3>2 DEF Bundle!BadDate, Bundle!Defective
      <3>3. ASSUME NEW n \in DOMAIN v3, NEW m \in Bundle!Certificates(v3[n]),
                   Bundle!SubjectPublicKeyInfo(v3[n].pems[m].der) = <<>>
            PROVE  n \in 1..N /\ Bundle!Defective(v1[n])
        <4>1. n \in 1..N
          BY <1>1
        <4>2. v1[n].class = "certificate" /\ m = 1
          BY <1>2, <4>1, BlocksAre
        <4>3. v3[n].pems[m] = v1[n].pem
          BY <1>2, <4>1, <4>2
        <4>4. Len(v1[n].pem.der) < Bundle!Whole(v1[n].pem.der)
          BY <1>2, <3>3, <4>1, <4>2, <4>3, KeysAre
        <4> QED
          BY <4>1, <4>2, <4>4 DEF Bundle!Defective
      <3> QED
        BY <1>4, <3>1, <3>2, <3>3 DEF Bundle!Refuses
    <2>3. Bundle!AnchorsExact'
      BY <1>1, <2>1, <2>2 DEF Bundle!AnchorsExact
    <2> QED
      BY <2>1, <2>3 DEF BundleInv
  <1>5. CASE ~Bundle!Refuses
    <2>1. /\ v5' = Bundle!FlattenSeq([n \in DOMAIN v3 |-> Bundle!Anchors(v3[n])])
          /\ pc' = "done" /\ UNCHANGED <<v1, v2, v3, v4>>
      BY <1>5 DEF Bundle!Extract
    <2>2. ASSUME NEW n \in 1..N
          PROVE  Bundle!Anchors(v3[n]) = Want(n)
      <3> DEFINE o == v1[n]
                 about == {m \in DOMAIN v1 : v1[m].class = "usage"
                                             /\ Bundle!KeyOf(v1[m]) = Bundle!KeyOf(o)}
                 kept == {m \in Bundle!Certificates(v3[n]) :
                             ~Bundle!Restricted(Bundle!SubjectPublicKeyInfo(v3[n].pems[m].der))}
      <3>1. Bundle!IsAnchor(n) <=>
              /\ o.class = "certificate" /\ o.trusted /\ ~o.distrusted
              /\ o.after.form = "date" => Now <= o.after.day + Lifetime
              /\ about # {} => \E m \in about : v1[m].value # "mail" /\ \A l \in about : l <= m
        BY Zenon DEF Bundle!IsAnchor
      <3>2. Bundle!Anchors(v3[n]) = IF Bundle!Alive(v3[n]) THEN Bundle!Select(<<o.pem>>, kept) ELSE <<>>
        BY <1>2, Zenon DEF Bundle!Anchors
      <3>3. Bundle!Certificates(v3[n]) = IF o.class = "certificate" THEN {1} ELSE {}
        BY <1>2, BlocksAre
      <3>4. kept \subseteq {1}
        BY <3>3
      <3>5. ASSUME Bundle!Alive(v3[n])
            PROVE  1 \in kept <=> Bundle!IsAnchor(n)
        <4>1. CASE o.class # "certificate"
          BY <3>1, <3>3, <4>1
        <4>2. CASE o.class = "certificate"
          <5>1. 1 \in Bundle!Certificates(v3[n]) /\ v3[n].pems[1] = o.pem
            BY <1>2, <3>3, <4>2
          <5>2. Bundle!SubjectPublicKeyInfo(o.pem.der) # <<>>
            BY <1>1, <1>5, <3>5, <5>1 DEF Bundle!Refuses
          <5>3. Bundle!SubjectPublicKeyInfo(o.pem.der) = Bundle!KeyOf(o)
            BY <1>2, <4>2, <5>2, KeysAre
          <5>4. 1 \in kept <=> ~Bundle!Restricted(Bundle!KeyOf(o))
            BY <5>1, <5>3
          <5> DEFINE key == Bundle!KeyOf(o)
                     ofKey == {m \in DOMAIN v1 : v1[m].class = "usage" /\ Bundle!KeyOf(v1[m]) = key}
          <5>5. ~Bundle!Restricted(key) <=>
                  (ofKey # {} => \E m \in ofKey : v1[m].value # "mail" /\ \A l \in ofKey : l <= m)
            <6> HIDE DEF key
            <6> QED
              BY <1>1, RestrictedIs
          <5> QED
            BY <1>3, <3>1, <3>5, <4>2, <5>4, <5>5, Zenon
        <4> QED
          BY <4>1, <4>2
      <3>6. Bundle!Select(<<o.pem>>, kept) = IF 1 \in kept THEN <<o.pem>> ELSE <<>>
        <4> HIDE DEF kept
        <4> QED
          BY <3>4, SelectOne
      <3> HIDE DEF kept, about
      <3>7. Bundle!IsAnchor(n) => Bundle!Alive(v3[n])
        BY <1>3, <3>1, Zenon
      <3> QED
        BY <3>2, <3>5, <3>6, <3>7, Zenon
    <2>3. [n \in DOMAIN v3 |-> Bundle!Anchors(v3[n])] = [n \in DOMAIN v1 |-> Want(n)]
      <3> HIDE DEF Want
      <3> QED
        BY <1>1, <2>2
    <2>4. v5' = Bundle!FlattenSeq([n \in DOMAIN v1 |-> Want(n)])
      BY <2>1, <2>3, Zenon
    <2>5. \A n : Bundle!IsAnchor(n)' <=> Bundle!IsAnchor(n)
      BY <2>1 DEF Bundle!IsAnchor
    <2>6. [n \in DOMAIN v1' |-> IF Bundle!IsAnchor(n)' THEN <<v1'[n].pem>> ELSE <<>>]
            = [n \in DOMAIN v1 |-> Want(n)]
      BY <2>1, <2>5
    <2>7. Bundle!AnchorsExact'
      BY <2>1, <2>4, <2>6 DEF Bundle!AnchorsExact
    <2> QED
      BY <2>1, <2>7 DEF BundleInv
  <1> QED
    BY <1>4, <1>5

\* A step keeps to it.
LEMMA BundleGoesOn ==
    ASSUME Bundle!BundleAssumption, BundleInv, Bundle!Next \/ UNCHANGED <<v1, v2, v3, v4, v5, pc>>
    PROVE  BundleInv'
  <1>1. CASE Bundle!Next
    <2>1. pc = "parse" \/ Bundle!Extract
      BY <1>1 DEF Bundle!Next, Bundle!InPEM, Bundle!Header, Bundle!Begin, Bundle!Skip,
                  Bundle!Attribute, Bundle!EndOfFile, Bundle!Reading
    <2>2. Bundle!Extract => pc = "extract"
      BY DEF Bundle!Extract
    <2> QED
      BY <1>1, <2>1, <2>2, ReadingGoesOn, BundleExtracts
  <1>2. CASE UNCHANGED <<v1, v2, v3, v4, v5, pc>>
    <2>1. \A n : Bundle!IsAnchor(n)' <=> Bundle!IsAnchor(n)
      BY <1>2 DEF Bundle!IsAnchor
    <2>2. Bundle!AnchorsExact' <=> Bundle!AnchorsExact
      BY <1>2, <2>1 DEF Bundle!AnchorsExact
    <2>3. AtHead' <=> AtHead
      BY <1>2 DEF AtHead
    <2>4. \A k, p : ReadUpTo(k, p)' <=> ReadUpTo(k, p)
      BY <1>2 DEF ReadUpTo
    <2> QED
      BY <1>2, <2>2, <2>3, <2>4 DEF BundleInv
  <1> QED
    BY <1>1, <1>2

-----------------------------------------------------------------------------
(* The order of versions *)

Chars == DOMAIN Compare!Code
DigitOf(c) == Compare!Code[c] - 48

\* What the characters count for.
LEMMA DigitIs ==
    ASSUME NEW c \in Compare!Digits
    PROVE  c \in Chars /\ DigitOf(c) \in 0..9 /\ (c = "0" <=> DigitOf(c) = 0)
  <1>1. c = "0" \/ c = "1" \/ c = "2"
    BY DEF Compare!Digits
  <1>2. "0" # "1" /\ "0" # "2" /\ "1" # "2"
    OBVIOUS
  <1>3. c \in Chars
    BY DEF Chars, Compare!Code
  <1>4. CASE c = "0"
    <2>1. Compare!Code[c] = 48
      BY Zenon, <1>3, <1>4 DEF Compare!Code, Chars
    <2> QED
      BY <1>3, <1>4, <2>1 DEF DigitOf
  <1>5. CASE c = "1"
    <2>1. Compare!Code[c] = 49
      BY Zenon, <1>2, <1>3, <1>5 DEF Compare!Code, Chars
    <2> QED
      BY <1>2, <1>3, <1>5, <2>1 DEF DigitOf
  <1>6. CASE c = "2"
    <2>1. Compare!Code[c] = 50
      BY Zenon, <1>2, <1>3, <1>6 DEF Compare!Code, Chars
    <2> QED
      BY <1>2, <1>3, <1>6, <2>1 DEF DigitOf
  <1> QED
    BY <1>1, <1>4, <1>5, <1>6

\* A separator or letter has a rank, and not the one of the end.
LEMMA OtherIs ==
    ASSUME NEW c \in Chars, c \notin Compare!Digits
    PROVE  Compare!Rank(c) \in Int /\ Compare!Rank(c) # 0
  <1>1. c \in {"a", "b", "~", ".", "+", "-", ":"}
    BY DEF Chars, Compare!Code, Compare!Digits, Compare!Letters, Compare!Marks
  <1>2. c # "0" /\ c # "1" /\ c # "2"
    BY <1>1
  <1>3. c # "~" => Compare!Code[c] \in {97, 98, 46, 43, 45, 58}
    <2>1. /\ "a" # "b" /\ "a" # "~" /\ "a" # "." /\ "a" # "+" /\ "a" # "-" /\ "a" # ":"
          /\ "b" # "~" /\ "b" # "." /\ "b" # "+" /\ "b" # "-" /\ "b" # ":"
          /\ "." # "~" /\ "." # "+" /\ "." # "-" /\ "." # ":"
          /\ "+" # "~" /\ "+" # "-" /\ "+" # ":" /\ "-" # "~" /\ "-" # ":" /\ ":" # "~"
      OBVIOUS
    <2>2. c = "a" => Compare!Code[c] = 97
      BY Zenon, <1>2, <2>1 DEF Compare!Code, Chars
    <2>3. c = "b" => Compare!Code[c] = 98
      BY Zenon, <1>2, <2>1 DEF Compare!Code, Chars
    <2>4. c = "." => Compare!Code[c] = 46
      BY Zenon, <1>2, <2>1 DEF Compare!Code, Chars
    <2>5. c = "+" => Compare!Code[c] = 43
      BY Zenon, <1>2, <2>1 DEF Compare!Code, Chars
    <2>6. c = "-" => Compare!Code[c] = 45
      BY Zenon, <1>2, <2>1 DEF Compare!Code, Chars
    <2>7. c = ":" => Compare!Code[c] = 58
      BY Zenon, <1>2, <2>1 DEF Compare!Code, Chars
    <2> QED
      BY <1>1, <2>2, <2>3, <2>4, <2>5, <2>6, <2>7
  <1>4. CASE c = "~"
    BY <1>4 DEF Compare!Rank
  <1>5. CASE c # "~"
    <2>1. Compare!Rank(c) = Compare!Code[c] \/ Compare!Rank(c) = Compare!Code[c] + 256
      BY <1>5 DEF Compare!Rank
    <2> QED
      BY <1>3, <1>5, <2>1
  <1> QED
    BY <1>4, <1>5

\* Where a run ends, and that nothing else is its end.
Ends(s, n, digits, m) ==
    /\ m \in n..(Len(s) + 1)
    /\ \A k \in n..(m - 1) : (s[k] \in Compare!Digits) = digits
    /\ m <= Len(s) => (s[m] \in Compare!Digits) # digits

\* There is such an end.
LEMMA RunEnds ==
    ASSUME NEW N \in Nat, NEW s, Len(s) = N, NEW n \in 1..(N + 1), NEW digits \in BOOLEAN
    PROVE  Ends(s, n, digits, Compare!RunEnd(s, n, digits))
  <1> DEFINE T == {m \in n..(N + 1) : m <= N => (s[m] \in Compare!Digits) # digits}
  <1>1. T \subseteq Nat /\ N + 1 \in T
    OBVIOUS
  <1>2. PICK m \in T : \A k \in T : m <= k
    BY <1>1, LeastOne
  <1>3. \A k \in n..(m - 1) : k \in n..(N + 1) /\ k <= N /\ ~(m <= k)
    BY <1>1
  <1>4. \A k \in n..(m - 1) : (s[k] \in Compare!Digits) = digits
    BY <1>2, <1>3
  <1>5. Ends(s, n, digits, m)
    BY <1>4 DEF Ends
  <1> QED
    BY <1>5, Zenon DEF Compare!RunEnd, Ends

\* No other.
LEMMA OneEnd ==
    ASSUME NEW N \in Nat, NEW s, Len(s) = N, NEW n \in 1..(N + 1), NEW digits \in BOOLEAN,
           NEW l, Ends(s, n, digits, l)
    PROVE  Compare!RunEnd(s, n, digits) = l
  <1> DEFINE m == Compare!RunEnd(s, n, digits)
  <1>1. Ends(s, n, digits, m)
    BY RunEnds
  <1> HIDE DEF m
  <1>2. l \in n..(N + 1) /\ m \in n..(N + 1)
    BY <1>1 DEF Ends
  <1>3. ~(l < m)
    <2> SUFFICES ASSUME l < m PROVE FALSE
      OBVIOUS
    <2>1. l \in n..(m - 1) /\ l <= Len(s)
      BY <1>2
    <2> QED
      BY <1>1, <2>1 DEF Ends
  <1>4. ~(m < l)
    <2> SUFFICES ASSUME m < l PROVE FALSE
      OBVIOUS
    <2>1. m \in n..(l - 1) /\ m <= Len(s)
      BY <1>2
    <2> QED
      BY <1>1, <2>1 DEF Ends
  <1> QED
    BY <1>2, <1>3, <1>4 DEF m

\* The rank at x of a run that ends at e and is at most one character.
At(s, x, e) == IF e = x THEN 0 ELSE Compare!Rank(s[x])

\* A run w whose only rank is v, if it is not empty.
OneRank(w, n, v) ==
    /\ Len(w) = n /\ n \in {0, 1} /\ v \in Int /\ (v = 0 <=> n = 0)
    /\ Compare!Weight(w, 1) = v /\ \A m \in Nat : m > 1 => Compare!Weight(w, m) = 0

\* Such is a run of at most one character.
LEMMA ShortRun ==
    ASSUME NEW s \in Seq(Chars), NEW x \in Nat \ {0}, NEW e \in {x, x + 1}, e <= Len(s) + 1,
           e # x => s[x] \notin Compare!Digits
    PROVE  OneRank(SubSeq(s, x, e - 1), e - x, At(s, x, e))
  <1> DEFINE w == SubSeq(s, x, e - 1)
  <1>1. Len(s) \in Nat
    OBVIOUS
  <1>2. CASE e = x
    <2>1. w = <<>>
      BY <1>2
    <2> HIDE DEF w
    <2>2. Len(w) = 0
      BY <2>1
    <2>3. \A n \in Nat : n > 0 => Compare!Weight(w, n) = 0
      BY <2>2 DEF Compare!Weight
    <2>4. At(s, x, e) = 0 /\ e - x = 0
      BY <1>2 DEF At
    <2> QED
      BY <2>2, <2>3, <2>4 DEF OneRank, w
  <1>3. CASE e = x + 1
    <2>1. x \in 1..Len(s) /\ e - 1 = x
      BY <1>1, <1>3
    <2>2. x \in 1..(Len(s) + 1) /\ e - 1 \in 0..Len(s) /\ e - 1 >= x /\ (e - 1) - x + 1 = 1
      BY <1>1, <1>3
    <2>3. Len(w) = 1 /\ w[1] = s[x]
      <3>1. x \in 1..Len(s) /\ x \in (x)..Len(s)
        BY <1>1, <2>1
      <3>2. w = SubSeq(s, x, x)
        BY <2>1
      <3> HIDE DEF w
      <3>3. w = [n \in 1..((x - x) + 1) |-> s[n + x - 1]] /\ Len(w) = (x - x) + 1
        BY <3>1, <3>2, SubSeqProperties
      <3> QED
        BY <1>1, <3>1, <3>3
    <2> HIDE DEF w
    <2>4. s[x] \in Chars /\ s[x] \notin Compare!Digits
      BY <1>3, <2>1
    <2>5. Compare!Rank(s[x]) \in Int /\ Compare!Rank(s[x]) # 0
      BY <2>4, OtherIs
    <2>6. Compare!Weight(w, 1) = Compare!Rank(s[x])
      BY <2>3 DEF Compare!Weight, Compare!Rank
    <2>7. \A n \in Nat : n > 1 => Compare!Weight(w, n) = 0
      BY <2>3 DEF Compare!Weight
    <2>8. At(s, x, e) = Compare!Rank(s[x]) /\ e - x = 1
      BY <1>3 DEF At
    <2>9. OneRank(w, 1, Compare!Rank(s[x]))
      BY <2>3, <2>5, <2>6, <2>7 DEF OneRank
    <2> QED
      BY <2>8, <2>9 DEF w
  <1> QED
    BY <1>2, <1>3

\* Two of them compare by it.
LEMMA ShortRuns ==
    ASSUME NEW p, NEW m, NEW u, OneRank(p, m, u), NEW q, NEW n, NEW v, OneRank(q, n, v)
    PROVE  Compare!CompareRuns(p, q) = Compare!Sign(u - v)
  <1> DEFINE differ == {k \in 1..(Len(p) + Len(q)) : Compare!Weight(p, k) # Compare!Weight(q, k)}
  <1>1. /\ Len(p) = m /\ m \in {0, 1} /\ u \in Int /\ (u = 0 <=> m = 0)
        /\ Compare!Weight(p, 1) = u /\ \A k \in Nat : k > 1 => Compare!Weight(p, k) = 0
    BY DEF OneRank
  <1>2. /\ Len(q) = n /\ n \in {0, 1} /\ v \in Int /\ (v = 0 <=> n = 0)
        /\ Compare!Weight(q, 1) = v /\ \A k \in Nat : k > 1 => Compare!Weight(q, k) = 0
    BY DEF OneRank
  <1>3. Compare!CompareRuns(p, q) =
            IF differ = {} THEN 0
            ELSE LET k == CHOOSE k \in differ : \A l \in differ : k <= l
                 IN  Compare!Sign(Compare!Weight(p, k) - Compare!Weight(q, k))
    BY Zenon DEF Compare!CompareRuns
  <1>4. \A k \in differ : k \in 1..(Len(p) + Len(q)) /\ Compare!Weight(p, k) # Compare!Weight(q, k)
    OBVIOUS
  <1>5. \A k \in 1..(Len(p) + Len(q)) : Compare!Weight(p, k) # Compare!Weight(q, k) => k \in differ
    OBVIOUS
  <1> HIDE DEF differ
  <1>6. differ \subseteq {1}
    BY <1>1, <1>2, <1>4
  <1>7. CASE u = v
    <2>1. differ = {}
      BY <1>1, <1>2, <1>4, <1>6, <1>7
    <2>2. Compare!Sign(u - v) = 0
      BY <1>1, <1>2, <1>7 DEF Compare!Sign
    <2> QED
      BY <1>3, <2>1, <2>2
  <1>8. CASE u # v
    <2>1. 1 \in 1..(Len(p) + Len(q))
      BY <1>1, <1>2, <1>8
    <2>2. differ = {1}
      BY <1>1, <1>2, <1>5, <1>6, <1>8, <2>1
    <2>3. (CHOOSE k \in differ : \A l \in differ : k <= l) = 1
      BY <2>2
    <2> QED
      BY <1>1, <1>2, <1>3, <2>2, <2>3
  <1> QED
    BY <1>7, <1>8

\* The numbers that m digits d count up to.
CountsUp(f, d, m) ==
    /\ m \in Nat /\ f \in [0..m -> Nat] /\ d \in [1..m -> 0..9] /\ f[0] = 0
    /\ \A k \in 1..m : f[k] = 10 * f[k - 1] + d[k]

\* What satisfies the recursion does.
LEMMA CountsAre ==
    ASSUME NEW m \in Nat, NEW f, NEW d \in [1..m -> 0..9], f = [k \in 0..m |-> f[k]], f[0] = 0,
           \A k \in 1..m : f[k] = 10 * f[k - 1] + d[k]
    PROVE  CountsUp(f, d, m)
  <1> DEFINE T == {k \in Nat : k <= m => f[k] \in Nat}
  <1>1. 0 \in T
    OBVIOUS
  <1>2. ASSUME NEW k \in Nat, k \in T
        PROVE  k + 1 \in T
    <2> SUFFICES ASSUME k + 1 <= m PROVE f[k + 1] \in Nat
      OBVIOUS
    <2>1. k + 1 \in 1..m /\ (k + 1) - 1 = k /\ f[k] \in Nat
      BY <1>2
    <2>2. f[k + 1] = 10 * f[k] + d[k + 1]
      BY <2>1
    <2>3. d[k + 1] \in 0..9
      BY <2>1
    <2>4. \A n \in Nat : \A c \in 0..9 : 10 * n + c \in Nat
      OBVIOUS
    <2> QED
      BY <2>1, <2>2, <2>3, <2>4, Zenon
  <1>3. Nat \subseteq T
    <2> HIDE DEF T
    <2> QED
      BY <1>1, <1>2, Induction
  <1>4. \A k \in 0..m : f[k] \in Nat
    BY <1>3
  <1>5. f \in [0..m -> Nat]
    BY <1>4
  <1> QED
    BY <1>5 DEF CountsUp

\* A run of digits from x up to e, as their values.
DigitsOf(s, x, e) == [k \in 1..(e - x) |-> DigitOf(s[x + k - 1])]
\* There is one.
LEMMA NumberIs ==
    ASSUME NEW s \in Seq(Chars), NEW x \in 1..(Len(s) + 1), NEW e \in x..(Len(s) + 1),
           \A k \in x..(e - 1) : s[k] \in Compare!Digits
    PROVE  \E f : /\ CountsUp(f, DigitsOf(s, x, e), e - x)
                  /\ Compare!Number(SubSeq(s, x, e - 1)) = f[e - x]
  <1> DEFINE w == SubSeq(s, x, e - 1)
             m == e - x
             d == DigitsOf(s, x, e)
             Rec(f) == [n \in 0..m |-> IF n = 0 THEN 0 ELSE 10 * f[n - 1] + Compare!Code[w[n]] - 48]
             value == CHOOSE f : f = Rec(f)
             step == [k \in 1..m |-> [v \in Nat |-> 10 * v + d[k]]]
  <1>1. Len(s) \in Nat /\ x \in Int /\ e \in Int /\ m \in Nat
    OBVIOUS
  <1>2. /\ Len(w) = m /\ \A k \in 1..m : w[k] = s[x + k - 1]
    <2>1. \A k \in x..(e - 1) : s[k] \in Chars
      BY <1>1
    <2>2. /\ Len(w) = IF x <= e - 1 THEN (e - 1) - x + 1 ELSE 0
          /\ \A k \in 1..((e - 1) - x + 1) : w[k] = s[x + k - 1]
      BY <1>1, <2>1, SubSeqProperties
    <2> HIDE DEF w
    <2> QED
      BY <1>1, <2>2
  <1>3. \A k \in 1..m : /\ s[x + k - 1] \in Compare!Digits /\ d[k] = DigitOf(s[x + k - 1])
                        /\ d[k] \in 0..9
    <2> SUFFICES ASSUME NEW k \in 1..m
                 PROVE  /\ s[x + k - 1] \in Compare!Digits /\ d[k] = DigitOf(s[x + k - 1])
                        /\ d[k] \in 0..9
      OBVIOUS
    <2>1. x + k - 1 \in x..(e - 1)
      BY <1>1
    <2>2. s[x + k - 1] \in Compare!Digits
      BY <2>1
    <2>3. d[k] = DigitOf(s[x + k - 1])
      BY DEF DigitsOf
    <2> QED
      BY <2>2, <2>3, DigitIs
  <1>4. d \in [1..m -> 0..9]
    BY <1>3 DEF DigitsOf
  <1>5. \A k \in 1..m : \A v \in Nat : 10 * v + Compare!Code[w[k]] - 48 = 10 * v + d[k]
    <2> SUFFICES ASSUME NEW k \in 1..m, NEW v \in Nat
                 PROVE  10 * v + Compare!Code[w[k]] - 48 = 10 * v + d[k]
      OBVIOUS
    <2>1. d[k] = Compare!Code[w[k]] - 48 /\ d[k] \in 0..9
      BY <1>2, <1>3 DEF DigitOf
    <2>2. w[k] \in Compare!Digits
      BY <1>2, <1>3
    <2>3. Compare!Code[w[k]] \in Int
      <3>1. w[k] = "0" \/ w[k] = "1" \/ w[k] = "2"
        BY <2>2 DEF Compare!Digits
      <3>2. Compare!Code["0"] \in Int /\ Compare!Code["1"] \in Int /\ Compare!Code["2"] \in Int
        <4>1. "0" \in Chars /\ "1" \in Chars /\ "2" \in Chars
          BY DEF Chars, Compare!Code, Compare!Digits
        <4>2. "0" # "1" /\ "0" # "2" /\ "1" # "2"
          OBVIOUS
        <4>3. Compare!Code["0"] = 48 /\ Compare!Code["1"] = 49 /\ Compare!Code["2"] = 50
          BY Zenon, <4>1, <4>2 DEF Compare!Code, Chars
        <4> QED
          BY <4>3
      <3> QED
        BY <3>1, <3>2
    <2> HIDE DEF w, d
    <2> QED
      BY <2>1, <2>3
  <1> HIDE DEF w, d, m
  <1>6. PICK g : Stepwise(g, m, 0, step)
    BY <1>1, Recursion
  <1>7. CountsUp(g, d, m)
    <2>1. g = [k \in 0..m |-> g[k]] /\ g[0] = 0
      BY <1>6 DEF Stepwise
    <2>2. \A k \in 1..m : g[k] = step[k][g[k - 1]]
      BY <1>6 DEF Stepwise
    <2> DEFINE T == {k \in Nat : k <= m => g[k] \in Nat}
    <2>3. 0 \in T
      BY <2>1
    <2>4. ASSUME NEW k \in Nat, k \in T
          PROVE  k + 1 \in T
      <3> SUFFICES ASSUME k + 1 <= m PROVE g[k + 1] \in Nat
        OBVIOUS
      <3>1. k + 1 \in 1..m /\ (k + 1) - 1 = k /\ g[k] \in Nat
        BY <1>1, <2>4
      <3>2. g[k + 1] = 10 * g[k] + d[k + 1]
        BY <2>2, <3>1
      <3>3. d[k + 1] \in 0..9
        BY <1>3, <3>1
      <3>4. \A n \in Nat : \A c \in 0..9 : 10 * n + c \in Nat
        OBVIOUS
      <3> QED
        BY <3>1, <3>2, <3>3, <3>4, Zenon
    <2>5. Nat \subseteq T
      <3> HIDE DEF T
      <3> QED
        BY <2>3, <2>4, Induction
    <2>6. ASSUME NEW k \in 1..m
          PROVE  g[k] = 10 * g[k - 1] + d[k]
      <3>1. k - 1 \in Nat /\ k - 1 <= m
        BY <1>1
      <3>2. g[k - 1] \in Nat
        BY <2>5, <3>1
      <3> QED
        BY <2>2, <3>2
    <2> QED
      BY <1>1, <1>4, <2>1, <2>6, CountsAre
  <1>8. g = Rec(g)
    <2>1. g = [k \in 0..m |-> g[k]]
      BY <1>6 DEF Stepwise
    <2>2. ASSUME NEW n \in 0..m
          PROVE  g[n] = IF n = 0 THEN 0 ELSE 10 * g[n - 1] + Compare!Code[w[n]] - 48
      <3>1. CASE n = 0
        BY <1>7, <3>1 DEF CountsUp
      <3>2. CASE n # 0
        <4>1. n \in 1..m /\ n - 1 \in 0..m
          BY <1>1, <3>2
        <4>2. g[n] = 10 * g[n - 1] + d[n] /\ g[n - 1] \in Nat
          BY <1>7, <4>1 DEF CountsUp
        <4> QED
          BY <1>5, <3>2, <4>1, <4>2
      <3> QED
        BY <3>1, <3>2
    <2> QED
      BY <2>1, <2>2
  <1>9. value = Rec(value)
    <2> HIDE DEF Rec
    <2> QED
      BY <1>8
  <1>10. Compare!Number(w) = value[m]
    BY <1>2, Zenon DEF Compare!Number
  <1> HIDE DEF value
  <1>11. \A n \in 0..m : value[n] = IF n = 0 THEN 0 ELSE 10 * value[n - 1] + Compare!Code[w[n]] - 48
    BY <1>9
  <1>12. value = [k \in 0..m |-> value[k]]
    <2>1. value = [k \in DOMAIN value |-> value[k]] /\ DOMAIN value = 0..m
      BY <1>9
    <2> QED
      BY <2>1
  <1> DEFINE T == {k \in Nat : k <= m => value[k] = g[k]}
  <1>13. 0 \in T
    BY <1>1, <1>7, <1>11 DEF CountsUp
  <1>14. ASSUME NEW k \in Nat, k \in T
         PROVE  k + 1 \in T
    <2> SUFFICES ASSUME k + 1 <= m PROVE value[k + 1] = g[k + 1]
      OBVIOUS
    <2>1. k + 1 \in 1..m /\ k + 1 \in 0..m /\ k + 1 # 0 /\ (k + 1) - 1 = k /\ k \in 0..m /\ k <= m
      BY <1>1
    <2>2. value[k] = g[k]
      BY <1>14, <2>1
    <2>3. g[k + 1] = 10 * g[k] + d[k + 1] /\ g[k] \in Nat
      BY <1>7, <2>1 DEF CountsUp
    <2>4. value[k + 1] = 10 * g[k] + Compare!Code[w[k + 1]] - 48
      BY <1>11, <2>1, <2>2
    <2> QED
      BY <1>5, <2>1, <2>3, <2>4
  <1>15. Nat \subseteq T
    <2> HIDE DEF T
    <2> QED
      BY <1>13, <1>14, Induction
  <1>16. value[m] = g[m]
    BY <1>1, <1>15
  <1> QED
    BY <1>7, <1>10, <1>16 DEF w, d, m

\* Two that count the same digits count the same.
LEMMA CountsOne ==
    ASSUME NEW f, NEW d, NEW m, CountsUp(f, d, m), NEW g, NEW e, NEW n, CountsUp(g, e, n),
           m <= n, \A k \in 1..m : d[k] = e[k]
    PROVE  \A k \in 0..m : f[k] = g[k]
  <1> DEFINE T == {k \in Nat : k <= m => f[k] = g[k]}
  <1>1. m \in Nat /\ n \in Nat
    BY DEF CountsUp
  <1>2. 0 \in T
    BY DEF CountsUp
  <1>3. ASSUME NEW k \in Nat, k \in T
        PROVE  k + 1 \in T
    <2> SUFFICES ASSUME k + 1 <= m PROVE f[k + 1] = g[k + 1]
      OBVIOUS
    <2>1. k + 1 \in 1..m /\ k + 1 \in 1..n /\ (k + 1) - 1 = k /\ k <= m
      BY <1>1
    <2>2. f[k] = g[k] /\ d[k + 1] = e[k + 1]
      BY <1>3, <2>1
    <2>3. f[k + 1] = 10 * f[k] + d[k + 1] /\ g[k + 1] = 10 * g[k] + e[k + 1]
      BY <2>1 DEF CountsUp
    <2> QED
      BY <2>2, <2>3
  <1>4. Nat \subseteq T
    <2> HIDE DEF T
    <2> QED
      BY <1>2, <1>3, Induction
  <1> QED
    BY <1>1, <1>4

\* The number that the digits from x up to e write: none is 0, and one more is ten
\* times as much and itself.
Num(s, x, e) == Compare!Number(SubSeq(s, x, e - 1))

\* No digit writes 0.
LEMMA NumberNone ==
    ASSUME NEW s \in Seq(Chars), NEW x \in 1..(Len(s) + 1)
    PROVE  Num(s, x, x) = 0
  <1>1. x \in x..(Len(s) + 1) /\ x - x = 0 /\ \A k \in x..(x - 1) : s[k] \in Compare!Digits
    OBVIOUS
  <1>2. PICK f : CountsUp(f, DigitsOf(s, x, x), x - x) /\ Num(s, x, x) = f[x - x]
    BY <1>1, NumberIs DEF Num
  <1> QED
    BY <1>1, <1>2 DEF CountsUp

\* One more digit writes ten times as much, and itself.
LEMMA NumberGrows ==
    ASSUME NEW s \in Seq(Chars), NEW x \in 1..(Len(s) + 1), NEW e \in x..Len(s),
           \A k \in x..e : s[k] \in Compare!Digits
    PROVE  /\ Num(s, x, e) \in Nat /\ DigitOf(s[e]) \in 0..9
           /\ Num(s, x, e + 1) = 10 * Num(s, x, e) + DigitOf(s[e])
  <1> DEFINE d == DigitsOf(s, x, e)
             c == DigitsOf(s, x, e + 1)
             m == e - x
  <1>1. /\ e \in x..(Len(s) + 1) /\ e + 1 \in x..(Len(s) + 1) /\ (e + 1) - x = m + 1 /\ m \in Nat
        /\ \A k \in x..(e - 1) : s[k] \in Compare!Digits
        /\ \A k \in x..((e + 1) - 1) : s[k] \in Compare!Digits
    OBVIOUS
  <1>2. PICK f : CountsUp(f, d, m) /\ Num(s, x, e) = f[m]
    BY <1>1, NumberIs DEF Num
  <1>3. PICK g : CountsUp(g, c, m + 1) /\ Num(s, x, e + 1) = g[m + 1]
    BY <1>1, NumberIs DEF Num
  <1>4. c[m + 1] = DigitOf(s[e]) /\ \A k \in 1..m : d[k] = c[k]
    <2>1. m + 1 \in 1..((e + 1) - x) /\ x + (m + 1) - 1 = e
      BY <1>1
    <2>2. \A k \in 1..m : k \in 1..(e - x) /\ k \in 1..((e + 1) - x)
      BY <1>1
    <2> QED
      BY <2>1, <2>2 DEF DigitsOf
  <1> HIDE DEF c, d, m
  <1>5. f[m] = g[m]
    <2>1. m <= m + 1 /\ m \in 0..m
      BY <1>1
    <2> QED
      BY <1>2, <1>3, <1>4, <2>1, CountsOne
  <1>6. f[m] \in Nat /\ g[m + 1] = 10 * g[m] + c[m + 1]
    <2>1. m \in 0..m /\ m + 1 \in 1..(m + 1) /\ (m + 1) - 1 = m
      BY <1>1
    <2> QED
      BY <1>2, <1>3, <2>1 DEF CountsUp
  <1>7. DigitOf(s[e]) \in 0..9
    <2>1. s[e] \in Compare!Digits
      OBVIOUS
    <2> QED
      BY <2>1, DigitIs
  <1> QED
    BY <1>2, <1>3, <1>4, <1>5, <1>6, <1>7

\* Such a number is one.
LEMMA Tenfold == \A n \in Nat : \A c \in 0..9 : 10 * n + c \in Nat
  OBVIOUS

\* More digits write no smaller number.
LEMMA NumberRises ==
    ASSUME NEW s \in Seq(Chars), NEW x \in 1..(Len(s) + 1), NEW e \in x..(Len(s) + 1),
           NEW h \in e..(Len(s) + 1), \A k \in x..(h - 1) : s[k] \in Compare!Digits
    PROVE  Num(s, x, e) \in Nat /\ Num(s, x, h) \in Nat /\ Num(s, x, e) <= Num(s, x, h)
  <1>1. Len(s) \in Nat /\ x \in Nat /\ e \in Nat /\ h \in Nat
    OBVIOUS
  <1> DEFINE T == {k \in Nat : e + k <= h =>
                       Num(s, x, e + k) \in Nat /\ Num(s, x, e) <= Num(s, x, e + k)}
  <1>2. Num(s, x, e) \in Nat
    <2>1. CASE e = x
      BY <2>1, NumberNone
    <2>2. CASE e # x
      <3>1. /\ e - 1 \in x..Len(s) /\ (e - 1) + 1 = e
            /\ \A k \in x..(e - 1) : s[k] \in Compare!Digits
        BY <2>2, <1>1
      <3>2. Num(s, x, e - 1) \in Nat /\ DigitOf(s[e - 1]) \in 0..9
            /\ Num(s, x, e) = 10 * Num(s, x, e - 1) + DigitOf(s[e - 1])
        <4>1. Num(s, x, e - 1) \in Nat /\ DigitOf(s[e - 1]) \in 0..9
              /\ Num(s, x, (e - 1) + 1) = 10 * Num(s, x, e - 1) + DigitOf(s[e - 1])
          BY <3>1, NumberGrows
        <4> QED
          BY <3>1, <4>1
      <3> QED
        BY <3>2, Tenfold, Zenon
    <2> QED
      BY <2>1, <2>2
  <1>3. 0 \in T
    <2>1. e + 0 = e
      BY <1>1
    <2> QED
      BY <1>2, <2>1
  <1>4. ASSUME NEW k \in Nat, k \in T
        PROVE  k + 1 \in T
    <2> SUFFICES ASSUME e + (k + 1) <= h
                 PROVE  Num(s, x, e + (k + 1)) \in Nat /\ Num(s, x, e) <= Num(s, x, e + (k + 1))
      OBVIOUS
    <2>1. /\ e + k <= h /\ e + k \in x..Len(s) /\ (e + k) + 1 = e + (k + 1)
          /\ \A l \in x..(e + k) : s[l] \in Compare!Digits
      BY <1>1
    <2>2. Num(s, x, e + k) \in Nat /\ Num(s, x, e) <= Num(s, x, e + k)
      BY <1>4, <2>1
    <2>3. DigitOf(s[e + k]) \in 0..9
          /\ Num(s, x, (e + k) + 1) = 10 * Num(s, x, e + k) + DigitOf(s[e + k])
      BY <2>1, NumberGrows
    <2>4. Num(s, x, e + (k + 1)) = 10 * Num(s, x, e + k) + DigitOf(s[e + k])
      BY <2>1, <2>3
    <2>5. \A l, n \in Nat : \A c \in 0..9 : l <= n => l <= 10 * n + c
      OBVIOUS
    <2> QED
      BY <1>2, <2>2, <2>3, <2>4, <2>5, Tenfold, Zenon
  <1>5. Nat \subseteq T
    <2> HIDE DEF T
    <2> QED
      BY <1>3, <1>4, Induction
  <1>6. h - e \in Nat /\ e + (h - e) = h
    BY <1>1
  <1>7. h - e \in T
    BY <1>5, <1>6
  <1> QED
    BY <1>2, <1>6, <1>7

\* A pair of a plain fragment: at x nothing, a separator or, if it is the first, a
\* digit; the number from e up to h.
PairAt(s, x, e, h) ==
    /\ x \in 1..(Len(s) + 1) /\ e \in {x, x + 1} /\ h \in e..(Len(s) + 1)
    /\ e <= Len(s) => s[e] \in Compare!Digits
    /\ e # x => x <= Len(s) /\ s[x] \notin Compare!Digits
    /\ \A k \in e..(h - 1) : s[k] \in Compare!Digits
    /\ h <= Len(s) => s[h] \notin Compare!Digits
    /\ e = Compare!RunEnd(s, x, FALSE) /\ h = Compare!PairEnd(s, x)
    /\ x <= Len(s) => x < h

\* Its bounds.
LEMMA PairBounds ==
    ASSUME NEW s \in Seq(Chars), NEW x, NEW e, NEW h, PairAt(s, x, e, h)
    PROVE  /\ x \in Nat \ {0} /\ e \in {x, x + 1} /\ h \in Nat /\ e <= h /\ h <= Len(s) + 1
           /\ x = Len(s) + 1 => e = x /\ h = x
  <1> DEFINE N == Len(s)
  <1>1. N \in Nat
    OBVIOUS
  <1>2. x \in 1..(N + 1) /\ e \in {x, x + 1} /\ h \in e..(N + 1) /\ (e # x => x <= N)
    BY Zenon DEF PairAt
  <1> HIDE DEF N
  <1>3. x = N + 1 => e = x
    BY <1>1, <1>2
  <1>4. x = N + 1 => h = x
    BY <1>1, <1>2, <1>3
  <1>5. x \in Nat \ {0} /\ h \in Nat /\ e <= h /\ h <= N + 1
    BY <1>1, <1>2
  <1>6. /\ x \in Nat \ {0} /\ e \in {x, x + 1} /\ h \in Nat /\ e <= h /\ h <= N + 1
        /\ x = N + 1 => e = x /\ h = x
    BY <1>2, <1>3, <1>4, <1>5
  <1> QED
    BY <1>6 DEF N

\* A pair begins at any place.
LEMMA PairIs ==
    ASSUME NEW s \in Seq(Chars), Compare!Plain(s), NEW x \in 1..(Len(s) + 1)
    PROVE  \E e, h : PairAt(s, x, e, h)
  <1> DEFINE e == Compare!RunEnd(s, x, FALSE)
             h == Compare!PairEnd(s, x)
  <1>1. Len(s) \in Nat
    OBVIOUS
  <1>2. Ends(s, x, FALSE, e)
    BY <1>1, RunEnds
  <1>3. e \in 1..(Len(s) + 1) /\ e \in x..(Len(s) + 1)
    <2> HIDE DEF e
    <2> QED
      BY <1>1, <1>2 DEF Ends
  <1>4. h = Compare!RunEnd(s, e, TRUE)
    BY DEF Compare!PairEnd
  <1> HIDE DEF e, h
  <1>5. Ends(s, e, TRUE, h)
    BY <1>1, <1>3, <1>4, RunEnds
  <1>6. /\ \A k \in x..(e - 1) : s[k] \notin Compare!Digits
        /\ e <= Len(s) => s[e] \in Compare!Digits
    <2>1. \A k \in x..(e - 1) : (s[k] \in Compare!Digits) = FALSE
      BY <1>2, Zenon DEF Ends
    <2>2. e <= Len(s) => (s[e] \in Compare!Digits) # FALSE
      BY <1>2, Zenon DEF Ends
    <2>3. s[e] \notin Compare!Digits => (s[e] \in Compare!Digits) = FALSE
      OBVIOUS
    <2>4. \A k : (s[k] \in Compare!Digits) = FALSE => s[k] \notin Compare!Digits
      OBVIOUS
    <2> QED
      BY <2>1, <2>2, <2>3, <2>4
  <1>7. /\ h \in e..(Len(s) + 1) /\ \A k \in e..(h - 1) : s[k] \in Compare!Digits
        /\ h <= Len(s) => s[h] \notin Compare!Digits
    BY <1>5, Zenon DEF Ends
  <1>8. e \in {x, x + 1}
    <2> SUFFICES ASSUME e > x + 1 PROVE FALSE
      BY <1>1, <1>3
    <2>1. x \in x..(e - 1) /\ x + 1 \in x..(e - 1) /\ x \in 1..(Len(s) - 1)
      BY <1>1, <1>3
    <2>2. s[x] \notin Compare!Digits /\ s[x + 1] \notin Compare!Digits
      BY <1>6, <2>1
    <2> QED
      BY <2>1, <2>2 DEF Compare!Plain
  <1>9. e # x => x <= Len(s) /\ s[x] \notin Compare!Digits
    <2> SUFFICES ASSUME e # x PROVE x <= Len(s) /\ s[x] \notin Compare!Digits
      OBVIOUS
    <2>1. x \in x..(e - 1) /\ x <= Len(s)
      BY <1>1, <1>3, <1>8
    <2> QED
      BY <1>6, <2>1
  <1>10. e <= Len(s) => s[e] \in Compare!Digits
    BY <1>6
  <1>11. x <= Len(s) => x < h
    <2>1. CASE e = x
      <3>1. x <= Len(s) => h # e
        BY <1>6, <1>7, <2>1
      <3> QED
        BY <1>1, <1>7, <2>1, <3>1
    <2>2. CASE e = x + 1
      BY <1>1, <1>7, <2>2
    <2> QED
      BY <1>8, <2>1, <2>2
  <1>12. e = Compare!RunEnd(s, x, FALSE) /\ h = Compare!PairEnd(s, x)
    BY DEF e, h
  <1>13. PairAt(s, x, e, h)
    BY <1>7, <1>8, <1>9, <1>10, <1>11, <1>12 DEF PairAt
  <1> QED
    BY <1>13

\* Two pairs compare by their separators, then by their numbers.
LEMMA PairsCompare ==
    ASSUME NEW s \in Seq(Chars), NEW x, NEW e, NEW h, PairAt(s, x, e, h),
           NEW t \in Seq(Chars), NEW y, NEW g, NEW l, PairAt(t, y, g, l)
    PROVE  Compare!ComparePair(s, x, t, y) =
               IF At(s, x, e) # At(t, y, g) THEN Compare!Sign(At(s, x, e) - At(t, y, g))
               ELSE Compare!Sign(Num(s, e, h) - Num(t, g, l))
  <1> DEFINE p == SubSeq(s, x, e - 1)
             q == SubSeq(t, y, g - 1)
             u == At(s, x, e)
             v == At(t, y, g)
  <1>1. OneRank(p, e - x, u)
    <2>0. x \in Nat \ {0} /\ e \in {x, x + 1} /\ e <= h /\ h \in Nat /\ h <= Len(s) + 1
      BY PairBounds
    <2>1. x \in Nat \ {0} /\ e \in {x, x + 1} /\ e <= Len(s) + 1
      BY <2>0
    <2> QED
      BY <2>1, ShortRun DEF PairAt
  <1>2. OneRank(q, g - y, v)
    <2>0. y \in Nat \ {0} /\ g \in {y, y + 1} /\ g <= l /\ l \in Nat /\ l <= Len(t) + 1
      BY PairBounds
    <2>1. y \in Nat \ {0} /\ g \in {y, y + 1} /\ g <= Len(t) + 1
      BY <2>0
    <2> QED
      BY <2>1, ShortRun DEF PairAt
  <1>3. Compare!CompareRuns(p, q) = Compare!Sign(u - v)
    <2> HIDE DEF p, q, u, v
    <2> QED
      BY <1>1, <1>2, ShortRuns
  <1>4. u \in Int /\ v \in Int
    BY <1>1, <1>2 DEF OneRank
  <1>5. Compare!ComparePair(s, x, t, y) =
            IF Compare!CompareRuns(p, q) # 0 THEN Compare!CompareRuns(p, q)
            ELSE Compare!Sign(Num(s, e, h) - Num(t, g, l))
    <2>1. e = Compare!RunEnd(s, x, FALSE) /\ h = Compare!PairEnd(s, x)
      BY DEF PairAt
    <2>2. g = Compare!RunEnd(t, y, FALSE) /\ l = Compare!PairEnd(t, y)
      BY DEF PairAt
    <2> QED
      BY <2>1, <2>2, Zenon DEF Compare!ComparePair, Num
  <1> HIDE DEF p, q, u, v
  <1>6. Compare!Sign(u - v) = 0 <=> u = v
    BY <1>4 DEF Compare!Sign
  <1>7. Compare!ComparePair(s, x, t, y) = IF u # v THEN Compare!Sign(u - v)
                                          ELSE Compare!Sign(Num(s, e, h) - Num(t, g, l))
    BY <1>3, <1>5, <1>6, Zenon
  <1> QED
    BY <1>7 DEF u, v

\* Where nothing is left of both, they are equal.
LEMMA NoPair ==
    ASSUME NEW s \in Seq(Chars), Compare!Plain(s), NEW t \in Seq(Chars), Compare!Plain(t)
    PROVE  /\ Compare!PairEnd(s, Len(s) + 1) = Len(s) + 1
           /\ Compare!ComparePair(s, Len(s) + 1, t, Len(t) + 1) = 0
  <1>1. Len(s) \in Nat /\ Len(t) \in Nat
    OBVIOUS
  <1>2. PICK e, h : PairAt(s, Len(s) + 1, e, h)
    <2>1. Len(s) + 1 \in 1..(Len(s) + 1)
      BY <1>1
    <2> QED
      BY <2>1, PairIs
  <1>3. PICK g, l : PairAt(t, Len(t) + 1, g, l)
    <2>1. Len(t) + 1 \in 1..(Len(t) + 1)
      BY <1>1
    <2> QED
      BY <2>1, PairIs
  <1>4. e = Len(s) + 1 /\ h = Len(s) + 1 /\ h = Compare!PairEnd(s, Len(s) + 1)
    <2>1. h = Compare!PairEnd(s, Len(s) + 1)
      BY <1>2 DEF PairAt
    <2> QED
      BY <1>2, <2>1, PairBounds
  <1>5. g = Len(t) + 1 /\ l = Len(t) + 1
    BY <1>3, PairBounds
  <1>6. At(s, Len(s) + 1, e) = 0 /\ At(t, Len(t) + 1, g) = 0
    BY <1>4, <1>5 DEF At
  <1>7. Num(s, e, h) = 0 /\ Num(t, g, l) = 0
    <2>1. Len(s) + 1 \in 1..(Len(s) + 1) /\ Len(t) + 1 \in 1..(Len(t) + 1)
      BY <1>1
    <2> QED
      BY <1>4, <1>5, <2>1, NumberNone
  <1>8. Compare!Sign(0 - 0) = 0
    BY DEF Compare!Sign
  <1>9. Compare!ComparePair(s, Len(s) + 1, t, Len(t) + 1) = 0
    BY <1>2, <1>3, <1>6, <1>7, <1>8, PairsCompare
  <1> QED
    BY <1>4, <1>9

\* Where the pairs begin.
LEMMA PairsAre ==
    ASSUME NEW s \in Seq(Chars), Compare!Plain(s), NEW n \in Nat
    PROVE  /\ Compare!Pairs(s, n)[0] = 1
           /\ \A k \in 1..n : Compare!Pairs(s, n)[k] = Compare!PairEnd(s, Compare!Pairs(s, n)[k - 1])
           /\ \A k \in 0..n : Compare!Pairs(s, n)[k] \in 1..(Len(s) + 1)
  <1> DEFINE Rec(f) == [k \in 0..n |-> IF k = 0 THEN 1 ELSE Compare!PairEnd(s, f[k - 1])]
             begin == CHOOSE f : f = Rec(f)
             W == 1..(Len(s) + 1)
             step == [k \in 1..n |-> [x \in W |-> Compare!PairEnd(s, x)]]
  <1>1. Len(s) \in Nat
    OBVIOUS
  <1>2. \A x \in W : Compare!PairEnd(s, x) \in W
    <2> SUFFICES ASSUME NEW x \in W PROVE Compare!PairEnd(s, x) \in W
      OBVIOUS
    <2>1. PICK e, h : PairAt(s, x, e, h)
      BY PairIs
    <2>2. h = Compare!PairEnd(s, x)
      BY <2>1, Zenon DEF PairAt
    <2>3. x \in Nat \ {0} /\ e \in {x, x + 1} /\ h \in Nat /\ e <= h /\ h <= Len(s) + 1
      BY <2>1, PairBounds
    <2>4. h \in W
      BY <1>1, <2>3
    <2> QED
      BY <2>2, <2>4
  <1>3. 1 \in W
    BY <1>1
  <1>4. PICK g : Stepwise(g, n, 1, step)
    BY Recursion
  <1> HIDE DEF W
  <1>5. g = [k \in 0..n |-> g[k]] /\ g[0] = 1 /\ \A k \in 1..n : g[k] = step[k][g[k - 1]]
    BY <1>4, Zenon DEF Stepwise
  <1> DEFINE T == {k \in Nat : k <= n => g[k] \in W}
  <1>6. 0 \in T
    BY <1>3, <1>5
  <1>7. ASSUME NEW k \in Nat, k \in T
        PROVE  k + 1 \in T
    <2> SUFFICES ASSUME k + 1 <= n PROVE g[k + 1] \in W
      OBVIOUS
    <2>1. k + 1 \in 1..n /\ (k + 1) - 1 = k /\ g[k] \in W
      BY <1>7
    <2>2. g[k + 1] = step[k + 1][g[k]]
      BY <1>5, <2>1
    <2> QED
      BY <1>2, <2>1, <2>2
  <1>8. Nat \subseteq T
    <2> HIDE DEF T
    <2> QED
      BY <1>6, <1>7, Induction
  <1>9. \A k \in 0..n : g[k] \in W
    BY <1>8
  <1>10. \A k \in 1..n : k - 1 \in 0..n /\ g[k] = Compare!PairEnd(s, g[k - 1])
    <2> SUFFICES ASSUME NEW k \in 1..n
                 PROVE  k - 1 \in 0..n /\ g[k] = Compare!PairEnd(s, g[k - 1])
      OBVIOUS
    <2>1. k - 1 \in 0..n
      OBVIOUS
    <2>2. g[k - 1] \in W /\ g[k] = step[k][g[k - 1]]
      BY <1>5, <1>9, <2>1
    <2> QED
      BY <2>1, <2>2
  <1> HIDE DEF step, T
  <1>11. g = Rec(g)
    <2>1. ASSUME NEW k \in 0..n
          PROVE  g[k] = Rec(g)[k]
      <3>1. CASE k = 0
        BY <1>5, <3>1
      <3>2. CASE k # 0
        <4>1. k \in 1..n
          BY <3>2
        <4> QED
          BY <1>10, <3>2, <4>1
      <3> QED
        BY <3>1, <3>2
    <2> QED
      BY <1>5, <2>1
  <1>12. begin = Rec(begin)
    <2> HIDE DEF Rec
    <2> QED
      BY <1>11
  <1>13. Compare!Pairs(s, n) = begin
    BY DEF Compare!Pairs
  <1> HIDE DEF begin
  <1>14. /\ begin[0] = 1
         /\ \A k \in 1..n : begin[k] = Compare!PairEnd(s, begin[k - 1])
    <2>1. \A k \in 0..n : begin[k] = IF k = 0 THEN 1 ELSE Compare!PairEnd(s, begin[k - 1])
      BY <1>12
    <2>2. 0 \in 0..n /\ \A k \in 1..n : k \in 0..n /\ k # 0
      OBVIOUS
    <2> QED
      BY <2>1, <2>2
  <1> DEFINE U == {k \in Nat : k <= n => begin[k] \in W}
  <1>15. 0 \in U
    BY <1>3, <1>14
  <1>16. ASSUME NEW k \in Nat, k \in U
         PROVE  k + 1 \in U
    <2> SUFFICES ASSUME k + 1 <= n PROVE begin[k + 1] \in W
      OBVIOUS
    <2>1. k + 1 \in 1..n /\ (k + 1) - 1 = k /\ begin[k] \in W
      BY <1>16
    <2>2. begin[k + 1] = Compare!PairEnd(s, begin[k])
      BY <1>14, <2>1
    <2> QED
      BY <1>2, <2>1, <2>2
  <1>17. Nat \subseteq U
    <2> HIDE DEF U
    <2> QED
      BY <1>15, <1>16, Induction
  <1>18. \A k \in 0..n : begin[k] \in W
    BY <1>17
  <1> QED
    BY <1>13, <1>14, <1>18 DEF W

\* The pairs that begin at x and y are the n-th, and those before are equal.
Lasts(s, t) == Len(s) + Len(t)
OnPair(s, t, n, x, y) ==
    /\ n \in 0..Lasts(s, t) /\ x = Compare!Pairs(s, Lasts(s, t))[n]
    /\ y = Compare!Pairs(t, Lasts(s, t))[n] /\ n <= x + y - 2
    /\ \A m \in 0..(n - 1) : Compare!ComparePair(s, Compare!Pairs(s, Lasts(s, t))[m],
                                              t, Compare!Pairs(t, Lasts(s, t))[m]) = 0

\* The first that differ decide.
LEMMA PairDecides ==
    ASSUME NEW s \in Seq(Chars), NEW t \in Seq(Chars), NEW n, NEW x, NEW y, OnPair(s, t, n, x, y),
           Compare!ComparePair(s, x, t, y) # 0
    PROVE  Compare!DpkgFragment(s, t) = Compare!ComparePair(s, x, t, y)
  <1> DEFINE last == Lasts(s, t)
             p == Compare!Pairs(s, last)
             q == Compare!Pairs(t, last)
             differ == {k \in 0..last : Compare!ComparePair(s, p[k], t, q[k]) # 0}
  <1>1. last \in Nat
    BY DEF Lasts
  <1>2. n \in 0..last /\ x = p[n] /\ y = q[n] /\ \A m \in 0..(n - 1) : m \notin differ
    BY DEF OnPair
  <1>3. Compare!DpkgFragment(s, t) =
            IF differ = {} THEN 0
            ELSE LET k == CHOOSE k \in differ : \A m \in differ : k <= m
                 IN  Compare!ComparePair(s, p[k], t, q[k])
    BY Zenon DEF Compare!DpkgFragment, Lasts
  <1>4. n \in differ /\ differ \subseteq 0..last
    BY <1>2
  <1> HIDE DEF differ, p, q, last
  <1>5. \A m \in differ : n <= m
    BY <1>1, <1>2, <1>4
  <1>6. \A k \in differ : (\A m \in differ : k <= m) => k = n
    BY <1>1, <1>4, <1>5
  <1>7. (CHOOSE k \in differ : \A m \in differ : k <= m) = n
    BY <1>4, <1>5, <1>6, Zenon
  <1> QED
    BY <1>2, <1>3, <1>4, <1>7, Zenon

\* Equal ones lead to the next.
LEMMA PairPasses ==
    ASSUME NEW s \in Seq(Chars), Compare!Plain(s), NEW t \in Seq(Chars), Compare!Plain(t),
           NEW n, NEW x, NEW y, OnPair(s, t, n, x, y), Compare!ComparePair(s, x, t, y) = 0,
           NEW e, NEW h, PairAt(s, x, e, h), NEW g, NEW l, PairAt(t, y, g, l),
           x <= Len(s) \/ y <= Len(t)
    PROVE  OnPair(s, t, n + 1, h, l)
  <1> DEFINE last == Lasts(s, t)
             p == Compare!Pairs(s, last)
             q == Compare!Pairs(t, last)
  <1>1. last \in Nat /\ last = Len(s) + Len(t) /\ Len(s) \in Nat /\ Len(t) \in Nat
    BY DEF Lasts
  <1>2. n \in 0..last /\ x = p[n] /\ y = q[n] /\ n <= x + y - 2
    BY DEF OnPair
  <1>3. \A m \in 0..(n - 1) : Compare!ComparePair(s, p[m], t, q[m]) = 0
    BY DEF OnPair
  <1>4. /\ x \in Nat /\ e \in {x, x + 1} /\ h \in Nat /\ e <= h /\ h <= Len(s) + 1
        /\ y \in Nat /\ g \in {y, y + 1} /\ l \in Nat /\ g <= l /\ l <= Len(t) + 1
    BY PairBounds
  <1>5. x <= Len(s) => x < h
    BY DEF PairAt
  <1>6. y <= Len(t) => y < l
    BY DEF PairAt
  <1>7. h = Compare!PairEnd(s, x) /\ l = Compare!PairEnd(t, y)
    BY DEF PairAt
  <1>8. (\A k \in 1..last : p[k] = Compare!PairEnd(s, p[k - 1]))
        /\ (\A k \in 1..last : q[k] = Compare!PairEnd(t, q[k - 1]))
    BY <1>1, PairsAre
  <1> HIDE DEF last, p, q
  <1>9. n + 1 <= h + l - 2 /\ n + 1 \in 1..last
    <2> DEFINE A == Len(s)
               B == Len(t)
    <2>1. /\ A \in Nat /\ B \in Nat /\ last = A + B /\ h <= A + 1 /\ l <= B + 1
          /\ (x <= A => x < h) /\ (y <= B => y < l) /\ (x <= A \/ y <= B)
      BY <1>1, <1>4, <1>5, <1>6
    <2> HIDE DEF A, B
    <2>2. x <= h /\ y <= l
      BY <1>4
    <2>3. x + y + 1 <= h + l
      BY <1>4, <2>1, <2>2
    <2>4. n \in Nat /\ n + 1 <= h + l - 2
      <3>1. \A m, u, v, w, z \in Nat : m <= u + v - 2 /\ u + v + 1 <= w + z => m + 1 <= w + z - 2
        OBVIOUS
      <3>2. n \in Nat /\ n <= x + y - 2
        <4>1. n \in Nat
          BY <1>1, <1>2
        <4> QED
          BY <1>2, <4>1, Zenon
      <3>3. n + 1 <= h + l - 2
        BY <1>4, <2>3, <3>1, <3>2, Zenon
      <3> QED
        BY <3>2, <3>3
    <2>5. h + l - 2 <= last
      BY <1>4, <2>1
    <2>6. \A u, v \in Int : n + 1 <= u /\ u <= v => n + 1 \in 1..v
      BY <2>4
    <2>7. h + l - 2 \in Int
      BY <1>4
    <2> QED
      BY <1>1, <2>4, <2>5, <2>6, <2>7
  <1>10. p[n + 1] = h /\ q[n + 1] = l
    <2>1. (n + 1) - 1 = n
      BY <1>1, <1>2
    <2> QED
      BY <1>2, <1>7, <1>8, <1>9, <2>1
  <1>11. \A m \in 0..((n + 1) - 1) : Compare!ComparePair(s, p[m], t, q[m]) = 0
    <2>1. \A m \in 0..((n + 1) - 1) : m = n \/ m \in 0..(n - 1)
      BY <1>1, <1>2
    <2> QED
      BY <1>2, <1>3, <2>1
  <1>12. n + 1 \in 0..last
    BY <1>1, <1>9
  <1> QED
    BY <1>9, <1>10, <1>11, <1>12 DEF OnPair, last, p, q

\* Where nothing is left, the fragments are equal.
LEMMA PairsEnd ==
    ASSUME NEW s \in Seq(Chars), Compare!Plain(s), NEW t \in Seq(Chars), Compare!Plain(t),
           NEW n, OnPair(s, t, n, Len(s) + 1, Len(t) + 1)
    PROVE  Compare!DpkgFragment(s, t) = 0
  <1> DEFINE last == Lasts(s, t)
             p == Compare!Pairs(s, last)
             q == Compare!Pairs(t, last)
             A == Len(s) + 1
             B == Len(t) + 1
             differ == {k \in 0..last : Compare!ComparePair(s, p[k], t, q[k]) # 0}
             T == {k \in Nat : n + k <= last => p[n + k] = A /\ q[n + k] = B}
  <1>1. last \in Nat
    BY DEF Lasts
  <1>2. n \in 0..last /\ A = p[n] /\ B = q[n]
    BY DEF OnPair
  <1>3. \A m \in 0..(n - 1) : Compare!ComparePair(s, p[m], t, q[m]) = 0
    BY DEF OnPair
  <1>4. (\A k \in 1..last : p[k] = Compare!PairEnd(s, p[k - 1]))
        /\ (\A k \in 1..last : q[k] = Compare!PairEnd(t, q[k - 1]))
    BY <1>1, PairsAre
  <1>5. /\ Compare!PairEnd(s, A) = A /\ Compare!PairEnd(t, B) = B
        /\ Compare!ComparePair(s, A, t, B) = 0
    BY NoPair
  <1>6. Compare!DpkgFragment(s, t) =
            IF differ = {} THEN 0
            ELSE LET k == CHOOSE k \in differ : \A m \in differ : k <= m
                 IN  Compare!ComparePair(s, p[k], t, q[k])
    BY Zenon DEF Compare!DpkgFragment, Lasts
  <1> HIDE DEF p, q, A, B, last
  <1>7. 0 \in T
    BY <1>1, <1>2
  <1>8. ASSUME NEW k \in Nat, k \in T
        PROVE  k + 1 \in T
    <2> SUFFICES ASSUME n + (k + 1) <= last PROVE p[n + (k + 1)] = A /\ q[n + (k + 1)] = B
      OBVIOUS
    <2>1. n + (k + 1) \in 1..last /\ (n + (k + 1)) - 1 = n + k /\ n + k <= last
      BY <1>1, <1>2
    <2>2. p[n + k] = A /\ q[n + k] = B
      BY <1>8, <2>1
    <2> QED
      BY <1>4, <1>5, <2>1, <2>2
  <1>9. Nat \subseteq T
    <2> HIDE DEF T
    <2> QED
      BY <1>7, <1>8, Induction
  <1>10. ASSUME NEW k \in 0..last
         PROVE  Compare!ComparePair(s, p[k], t, q[k]) = 0
    <2>1. CASE k \in 0..(n - 1)
      BY <1>3, <2>1
    <2>2. CASE k \notin 0..(n - 1)
      <3>1. k - n \in Nat /\ n + (k - n) = k
        BY <1>1, <1>2, <2>2
      <3>2. p[k] = A /\ q[k] = B
        BY <1>9, <3>1
      <3> QED
        BY <1>5, <3>2
    <2> QED
      BY <2>1, <2>2
  <1>11. differ = {}
    BY <1>10
  <1> QED
    BY <1>6, <1>11

\* Two pairs that are met, with something left of one: both after a number, or the
\* first of each.
Fresh(s, t, x, y) ==
    \/ x = 1 /\ y = 1
    \/ /\ x <= Len(s) => s[x] \notin Compare!Digits
       /\ y <= Len(t) => t[y] \notin Compare!Digits
Met(s, x, e, h, t, y, g, l) ==
    /\ \E n : OnPair(s, t, n, x, y)
    /\ PairAt(s, x, e, h) /\ PairAt(t, y, g, l)
    /\ Fresh(s, t, x, y) /\ (x <= Len(s) \/ y <= Len(t))

\* Where the loops are in them: over the separators, over the zeros of two numbers,
\* over their digits.  So far the numbers are as the first difference says, and the
\* one that goes on longer is larger.
OnRuns(s, x, e, i, t, y, g, j) ==
    \/ i = x /\ j = y
    \/ i = e /\ e = x + 1 /\ j = g /\ g = y + 1 /\ At(s, x, e) = At(t, y, g)
AtRuns(s, t, i, j) ==
    \E x, e, h, y, g, l : Met(s, x, e, h, t, y, g, l) /\ OnRuns(s, x, e, i, t, y, g, j)
InNumbers(s, x, e, h, i, t, y, g, l, j) ==
    /\ Met(s, x, e, h, t, y, g, l) /\ At(s, x, e) = At(t, y, g)
    /\ i \in e..h /\ j \in g..l
AtZeros(s, t, i, j) ==
    \E x, e, h, y, g, l :
        /\ InNumbers(s, x, e, h, i, t, y, g, l, j)
        /\ Num(s, e, i) = 0 /\ Num(t, g, j) = 0
Bounded(s, e, h, i, B) == Num(s, e, i) < B /\ (i < h => B <= Num(s, e, i + 1))
AtDigits(s, t, i, j, d) ==
    \E x, e, h, y, g, l :
        /\ InNumbers(s, x, e, h, i, t, y, g, l, j)
        /\ d \in Int /\ Compare!Sign(d) = Compare!Sign(Num(s, e, i) - Num(t, g, j))
        /\ \E B \in Nat : Bounded(s, e, h, i, B) /\ Bounded(t, g, l, j, B)

\* What a sign tells.
LEMMA SignIs ==
    \A n \in Int : /\ Compare!Sign(n) = 0 <=> n = 0
                   /\ Compare!Sign(n) = 1 <=> n > 0
                   /\ Compare!Sign(n) = -1 <=> n < 0
  BY DEF Compare!Sign

\* Within the number of a pair.
LEMMA InNumber ==
    ASSUME NEW s \in Seq(Chars), NEW x, NEW e, NEW h, PairAt(s, x, e, h), NEW i \in e..h
    PROVE  /\ i \in Nat \ {0} /\ e \in 1..(Len(s) + 1) /\ (Compare!IsDigit(s, i) <=> i < h)
           /\ Num(s, e, i) \in Nat /\ Num(s, e, h) \in Nat /\ Num(s, e, i) <= Num(s, e, h)
           /\ i < h => /\ i + 1 \in e..h /\ i <= Len(s) /\ DigitOf(s[i]) \in 0..9
                       /\ Num(s, e, i + 1) = 10 * Num(s, e, i) + DigitOf(s[i])
                       /\ s[i] \in Compare!Digits
  <1> DEFINE N == Len(s)
  <1>1. N \in Nat
    OBVIOUS
  <1>2. /\ x \in Nat \ {0} /\ e \in {x, x + 1} /\ h \in Nat /\ e <= h /\ h <= N + 1
    BY PairBounds
  <1>3. /\ \A k \in e..(h - 1) : s[k] \in Compare!Digits
        /\ h <= N => s[h] \notin Compare!Digits
    BY Zenon DEF PairAt
  <1> HIDE DEF N
  <1>4. /\ i \in Nat \ {0} /\ e \in 1..(N + 1) /\ i \in e..(N + 1) /\ h \in i..(N + 1)
        /\ e \in Nat
    BY <1>1, <1>2
  <1>5. i < h => i + 1 \in e..h /\ i <= N /\ i \in e..(h - 1) /\ i \in e..N
    BY <1>1, <1>2, <1>4
  <1>6. Num(s, e, i) \in Nat /\ Num(s, e, h) \in Nat /\ Num(s, e, i) <= Num(s, e, h)
    BY <1>3, <1>4, NumberRises DEF N
  <1>7. Compare!IsDigit(s, i) <=> i < h
    <2>1. CASE i < h
      BY <1>3, <1>5, <2>1 DEF Compare!IsDigit, N
    <2>2. CASE i = h
      <3>1. ~ (i < h)
        BY <1>2, <2>2
      <3> QED
        BY <1>3, <2>2, <3>1 DEF Compare!IsDigit, N
    <2> QED
      BY <1>2, <1>4, <2>1, <2>2
  <1>8. ASSUME i < h
        PROVE  /\ i + 1 \in e..h /\ i <= N /\ DigitOf(s[i]) \in 0..9
               /\ Num(s, e, i + 1) = 10 * Num(s, e, i) + DigitOf(s[i])
               /\ s[i] \in Compare!Digits
    <2>1. \A k \in e..i : k \in e..(h - 1)
      BY <1>2, <1>4, <1>8
    <2>2. \A k \in e..i : s[k] \in Compare!Digits
      BY <1>3, <2>1
    <2>3. /\ DigitOf(s[i]) \in 0..9
          /\ Num(s, e, i + 1) = 10 * Num(s, e, i) + DigitOf(s[i])
      BY <1>4, <1>5, <1>8, <2>2, NumberGrows DEF N
    <2> QED
      BY <1>3, <1>5, <1>8, <2>3
  <1> QED
    BY <1>4, <1>6, <1>7, <1>8 DEF N

\* The rank the loop reads is that of the pair.
LEMMA RankIsAt ==
    ASSUME NEW s \in Seq(Chars), NEW x, NEW e, NEW h, PairAt(s, x, e, h),
           x <= Len(s) => s[x] \notin Compare!Digits
    PROVE  /\ Compare!RankAt(s, x) = At(s, x, e) /\ At(s, x, e) \in Int
           /\ At(s, x, e) = 0 <=> e = x
           /\ e = x <=> ~Compare!IsOther(s, x)
  <1> DEFINE N == Len(s)
  <1>1. N \in Nat
    OBVIOUS
  <1>2. /\ x \in Nat \ {0} /\ e \in {x, x + 1} /\ x <= N + 1
    <2>1. /\ x \in Nat \ {0} /\ e \in {x, x + 1} /\ h \in Nat /\ e <= h /\ h <= N + 1
      BY PairBounds
    <2> HIDE DEF N
    <2> QED
      BY <1>1, <2>1
  <1>3. (e <= N => s[e] \in Compare!Digits) /\ (e # x => x <= N /\ s[x] \notin Compare!Digits)
    BY Zenon DEF PairAt
  <1>4. CASE e = x
    <2>1. ~ (x <= N)
      BY <1>3, <1>4
    <2>2. At(s, x, e) = 0 /\ Compare!RankAt(s, x) = 0 /\ ~Compare!IsOther(s, x)
      BY <1>4, <2>1 DEF At, Compare!RankAt, Compare!IsOther
    <2> QED
      BY <1>4, <2>2
  <1>5. CASE e # x
    <2>1. x <= N /\ s[x] \notin Compare!Digits /\ x \in 1..N
      BY <1>1, <1>2, <1>3, <1>5
    <2>2. s[x] \in Chars
      BY <2>1
    <2>3. Compare!Rank(s[x]) \in Int /\ Compare!Rank(s[x]) # 0
      BY <2>1, <2>2, OtherIs
    <2>4. At(s, x, e) = Compare!Rank(s[x]) /\ Compare!RankAt(s, x) = Compare!Rank(s[x])
          /\ Compare!IsOther(s, x)
      BY <1>5, <2>1 DEF At, Compare!RankAt, Compare!IsOther
    <2> QED
      BY <1>5, <2>3, <2>4
  <1> QED
    BY <1>4, <1>5

\* Where the pairs are.
LEMMA OnPairBounds ==
    ASSUME NEW s \in Seq(Chars), Compare!Plain(s), NEW t \in Seq(Chars), Compare!Plain(t),
           NEW n, NEW x, NEW y, OnPair(s, t, n, x, y)
    PROVE  x \in 1..(Len(s) + 1) /\ y \in 1..(Len(t) + 1)
  <1> DEFINE last == Lasts(s, t)
  <1>1. last \in Nat
    BY DEF Lasts
  <1>2. n \in 0..last /\ x = Compare!Pairs(s, last)[n] /\ y = Compare!Pairs(t, last)[n]
    BY DEF OnPair
  <1> HIDE DEF last
  <1>3. \A k \in 0..last : Compare!Pairs(s, last)[k] \in 1..(Len(s) + 1)
    BY <1>1, PairsAre
  <1>4. \A k \in 0..last : Compare!Pairs(t, last)[k] \in 1..(Len(t) + 1)
    BY <1>1, PairsAre
  <1> QED
    BY <1>2, <1>3, <1>4

\* The first pairs are met first.
LEMMA FirstPairs ==
    ASSUME NEW s \in Seq(Chars), Compare!Plain(s), NEW t \in Seq(Chars), Compare!Plain(t)
    PROVE  Fresh(s, t, 1, 1) /\ \E n : OnPair(s, t, n, 1, 1)
  <1> DEFINE last == Lasts(s, t)
  <1>1. last \in Nat
    BY DEF Lasts
  <1> HIDE DEF last
  <1>2. Compare!Pairs(s, last)[0] = 1 /\ Compare!Pairs(t, last)[0] = 1
    BY <1>1, PairsAre
  <1>3. 0 \in 0..last /\ 0 <= 1 + 1 - 2 /\ 0..(0 - 1) = {}
    BY <1>1
  <1>4. OnPair(s, t, 0, 1, 1)
    BY <1>2, <1>3, Zenon DEF OnPair, last
  <1> QED
    BY <1>4 DEF Fresh

\* With something left there are two pairs to compare.
LEMMA PairsMeet ==
    ASSUME NEW s \in Seq(Chars), Compare!Plain(s), NEW t \in Seq(Chars), Compare!Plain(t),
           NEW x, NEW y, \E n : OnPair(s, t, n, x, y), Fresh(s, t, x, y),
           x <= Len(s) \/ y <= Len(t)
    PROVE  AtRuns(s, t, x, y)
  <1>1. PICK n : OnPair(s, t, n, x, y)
    OBVIOUS
  <1>2. x \in 1..(Len(s) + 1) /\ y \in 1..(Len(t) + 1)
    BY <1>1, OnPairBounds
  <1>3. PICK e, h : PairAt(s, x, e, h)
    BY <1>2, PairIs
  <1>4. PICK g, l : PairAt(t, y, g, l)
    BY <1>2, PairIs
  <1>5. Met(s, x, e, h, t, y, g, l)
    BY <1>1, <1>3, <1>4, Zenon DEF Met
  <1> QED
    BY <1>5, Zenon DEF AtRuns, OnRuns

\* The loop over the separators: it ends the comparison where they differ, passes
\* those that are the same, and ends at the numbers.
LEMMA RunsGoOn ==
    ASSUME NEW s \in Seq(Chars), Compare!Plain(s), NEW t \in Seq(Chars), Compare!Plain(t),
           NEW i, NEW j, AtRuns(s, t, i, j)
    PROVE  LET ac == Compare!RankAt(s, i)
               bc == Compare!RankAt(t, j)
           IN  IF Compare!IsOther(s, i) \/ Compare!IsOther(t, j)
               THEN IF ac # bc
                    THEN /\ Compare!DpkgFragment(s, t) = Compare!Sign(ac - bc)
                         /\ Compare!DpkgFragment(s, t) # 0
                    ELSE AtRuns(s, t, i + 1, j + 1)
               ELSE AtZeros(s, t, i, j)
  <1>1. PICK x, e, h, y, g, l : Met(s, x, e, h, t, y, g, l) /\ OnRuns(s, x, e, i, t, y, g, j)
    BY Zenon DEF AtRuns
  <1>2. PairAt(s, x, e, h) /\ PairAt(t, y, g, l) /\ Fresh(s, t, x, y) /\ \E n : OnPair(s, t, n, x, y)
    BY <1>1, Zenon DEF Met
  <1>3. /\ x \in Nat \ {0} /\ e \in {x, x + 1} /\ h \in Nat /\ e <= h /\ h <= Len(s) + 1
        /\ y \in Nat \ {0} /\ g \in {y, y + 1} /\ l \in Nat /\ g <= l /\ l <= Len(t) + 1
    BY <1>2, PairBounds
  <1>4. (e <= Len(s) => s[e] \in Compare!Digits) /\ (g <= Len(t) => t[g] \in Compare!Digits)
    BY <1>2, Zenon DEF PairAt
  <1>5. ~Compare!IsOther(s, e) /\ ~Compare!IsOther(t, g)
    BY <1>4 DEF Compare!IsOther
  <1>6. ASSUME i = e, j = g, At(s, x, e) = At(t, y, g)
        PROVE  AtZeros(s, t, i, j)
    <2>1. i \in e..h /\ j \in g..l
      BY <1>3, <1>6
    <2>2. InNumbers(s, x, e, h, i, t, y, g, l, j)
      BY <1>1, <1>6, <2>1, Zenon DEF InNumbers
    <2>3. e \in 1..(Len(s) + 1) /\ g \in 1..(Len(t) + 1)
      <3>1. e \in e..h /\ g \in g..l
        BY <1>3
      <3> QED
        BY <1>2, <3>1, InNumber
    <2>4. Num(s, e, i) = 0 /\ Num(t, g, j) = 0
      BY <1>6, <2>3, NumberNone
    <2> QED
      BY <2>2, <2>4, Zenon DEF AtZeros
  <1>7. ASSUME i = x, j = y, e = x, g = y
        PROVE  ~Compare!IsOther(s, i) /\ ~Compare!IsOther(t, j) /\ AtZeros(s, t, i, j)
    <2>1. At(s, x, e) = 0 /\ At(t, y, g) = 0
      BY <1>7 DEF At
    <2> QED
      BY <1>5, <1>6, <1>7, <2>1
  <1>8. CASE i = e /\ j = g /\ At(s, x, e) = At(t, y, g)
    BY <1>5, <1>6, <1>8
  <1>9. CASE i = x /\ j = y /\ x = 1 /\ y = 1
    <2>1. e = x
      <3> SUFFICES ASSUME e # x PROVE FALSE
        OBVIOUS
      <3>1. x <= Len(s) /\ s[x] \notin Compare!Digits
        BY <1>2, Zenon DEF PairAt
      <3>2. s # <<>> => s[1] \in Compare!Digits
        BY DEF Compare!Plain
      <3>3. s # <<>>
        BY <1>9, <3>1
      <3> QED
        BY <1>9, <3>1, <3>2, <3>3
    <2>2. g = y
      <3> SUFFICES ASSUME g # y PROVE FALSE
        OBVIOUS
      <3>1. y <= Len(t) /\ t[y] \notin Compare!Digits
        BY <1>2, Zenon DEF PairAt
      <3>2. t # <<>> => t[1] \in Compare!Digits
        BY DEF Compare!Plain
      <3>3. t # <<>>
        BY <1>9, <3>1
      <3> QED
        BY <1>9, <3>1, <3>2, <3>3
    <2> QED
      BY <1>7, <1>9, <2>1, <2>2
  <1>10. CASE /\ i = x /\ j = y
              /\ x <= Len(s) => s[x] \notin Compare!Digits
              /\ y <= Len(t) => t[y] \notin Compare!Digits
    <2> DEFINE u == At(s, x, e)
               v == At(t, y, g)
    <2>1. /\ Compare!RankAt(s, i) = u /\ u \in Int /\ (u = 0 <=> e = x)
          /\ (e = x <=> ~Compare!IsOther(s, i))
      BY <1>2, <1>10, RankIsAt
    <2>2. /\ Compare!RankAt(t, j) = v /\ v \in Int /\ (v = 0 <=> g = y)
          /\ (g = y <=> ~Compare!IsOther(t, j))
      BY <1>2, <1>10, RankIsAt
    <2>3. CASE u # v
      <3>1. Compare!ComparePair(s, x, t, y) = Compare!Sign(u - v)
        BY <1>2, <2>3, PairsCompare
      <3> HIDE DEF u, v
      <3>2. Compare!Sign(u - v) # 0
        BY <2>1, <2>2, <2>3, SignIs
      <3>3. Compare!DpkgFragment(s, t) = Compare!Sign(u - v)
        BY <1>2, <3>1, <3>2, PairDecides
      <3>4. Compare!IsOther(s, i) \/ Compare!IsOther(t, j)
        BY <2>1, <2>2, <2>3
      <3> QED
        BY <2>1, <2>2, <2>3, <3>2, <3>3, <3>4
    <2>4. CASE u = v /\ e # x
      <3>1. e = x + 1 /\ g = y + 1 /\ Compare!IsOther(s, i)
        BY <1>3, <2>1, <2>2, <2>4
      <3>2. AtRuns(s, t, e, g)
        <4>1. Met(s, x, e, h, t, y, g, l)
          BY <1>1
        <4>2. OnRuns(s, x, e, e, t, y, g, g)
          BY <2>4, <3>1 DEF OnRuns
        <4> QED
          BY <4>1, <4>2, Zenon DEF AtRuns
      <3>3. i + 1 = e /\ j + 1 = g
        BY <1>10, <3>1
      <3> HIDE DEF u, v
      <3> QED
        BY <2>1, <2>2, <2>4, <3>1, <3>2, <3>3
    <2>5. CASE u = v /\ e = x
      <3>1. g = y
        BY <2>1, <2>2, <2>5
      <3> QED
        BY <1>7, <1>10, <2>5, <3>1
    <2> QED
      BY <2>3, <2>4, <2>5
  <1>11. \/ i = e /\ j = g /\ At(s, x, e) = At(t, y, g)
         \/ i = x /\ j = y /\ x = 1 /\ y = 1
         \/ /\ i = x /\ j = y
            /\ x <= Len(s) => s[x] \notin Compare!Digits
            /\ y <= Len(t) => t[y] \notin Compare!Digits
    BY <1>1, <1>2, Zenon DEF Fresh, OnRuns
  <1> QED
    BY <1>8, <1>9, <1>10, <1>11

\* The loops over zeros, of one of the numbers.
LEMMA ZeroPasses ==
    ASSUME NEW s \in Seq(Chars), NEW x, NEW e, NEW h, PairAt(s, x, e, h), NEW i \in e..h,
           Num(s, e, i) = 0
    PROVE  LET k == IF Compare!SkipZero(s, i) THEN i + 1 ELSE i
           IN  k \in e..h /\ Num(s, e, k) = 0
  <1>1. CASE ~Compare!SkipZero(s, i)
    BY <1>1
  <1>2. CASE Compare!SkipZero(s, i)
    <2>1. i <= Len(s) /\ s[i] = "0"
      BY <1>2 DEF Compare!SkipZero
    <2>2. s[i] \in Compare!Digits
      BY <2>1 DEF Compare!Digits
    <2>3. i < h
      <3>1. Compare!IsDigit(s, i)
        BY <2>1, <2>2 DEF Compare!IsDigit
      <3> QED
        BY <3>1, InNumber
    <2>4. i + 1 \in e..h /\ Num(s, e, i + 1) = 10 * Num(s, e, i) + DigitOf(s[i])
      BY <2>3, InNumber
    <2>5. DigitOf(s[i]) = 0
      BY <2>1, <2>2, DigitIs
    <2>6. Num(s, e, i + 1) = 0
      BY <2>4, <2>5
    <2> QED
      BY <1>2, <2>4, <2>6
  <1> QED
    BY <1>1, <1>2

\* Skipping a zero of either number stays in front of its digits, ...
LEMMA ZerosGoOn ==
    ASSUME NEW s \in Seq(Chars), NEW t \in Seq(Chars), NEW i, NEW j, AtZeros(s, t, i, j)
    PROVE  AtZeros(s, t, IF Compare!SkipZero(s, i) THEN i + 1 ELSE i,
                         IF Compare!SkipZero(t, j) THEN j + 1 ELSE j)
  <1> DEFINE i1 == IF Compare!SkipZero(s, i) THEN i + 1 ELSE i
             j1 == IF Compare!SkipZero(t, j) THEN j + 1 ELSE j
  <1>1. PICK x, e, h, y, g, l : /\ InNumbers(s, x, e, h, i, t, y, g, l, j)
                                /\ Num(s, e, i) = 0 /\ Num(t, g, j) = 0
    BY Zenon DEF AtZeros
  <1>2. /\ Met(s, x, e, h, t, y, g, l) /\ At(s, x, e) = At(t, y, g)
        /\ i \in e..h /\ j \in g..l /\ PairAt(s, x, e, h) /\ PairAt(t, y, g, l)
    BY <1>1, Zenon DEF InNumbers, Met
  <1>3. i1 \in e..h /\ Num(s, e, i1) = 0
    BY <1>1, <1>2, ZeroPasses
  <1>4. j1 \in g..l /\ Num(t, g, j1) = 0
    BY <1>1, <1>2, ZeroPasses
  <1> HIDE DEF i1, j1
  <1>5. InNumbers(s, x, e, h, i1, t, y, g, l, j1)
    BY <1>2, <1>3, <1>4, Zenon DEF InNumbers
  <1>6. AtZeros(s, t, i1, j1)
    BY <1>3, <1>4, <1>5, Zenon DEF AtZeros
  <1> QED
    BY <1>6 DEF i1, j1

\* The loop is at characters.
LEMMA ZerosAt ==
    ASSUME NEW s \in Seq(Chars), NEW t \in Seq(Chars), NEW i, NEW j, AtZeros(s, t, i, j)
    PROVE  i \in Nat /\ j \in Nat
  <1>1. PICK x, e, h, y, g, l : /\ InNumbers(s, x, e, h, i, t, y, g, l, j)
                                /\ Num(s, e, i) = 0 /\ Num(t, g, j) = 0
    BY Zenon DEF AtZeros
  <1>2. i \in e..h /\ j \in g..l /\ PairAt(s, x, e, h) /\ PairAt(t, y, g, l)
    BY <1>1, Zenon DEF InNumbers, Met
  <1> QED
    BY <1>2, InNumber

\* Past the zeros a number is nothing yet, and its next digit is not zero.
LEMMA ZerosPassed ==
    ASSUME NEW s \in Seq(Chars), NEW x, NEW e, NEW h, PairAt(s, x, e, h), NEW i \in e..h,
           Num(s, e, i) = 0, ~Compare!SkipZero(s, i)
    PROVE  Bounded(s, e, h, i, 1)
  <1> SUFFICES ASSUME i < h PROVE 1 <= Num(s, e, i + 1)
    BY DEF Bounded
  <1>1. /\ i <= Len(s) /\ s[i] \in Compare!Digits /\ DigitOf(s[i]) \in 0..9
        /\ Num(s, e, i + 1) = 10 * Num(s, e, i) + DigitOf(s[i])
    BY InNumber
  <1>2. s[i] # "0"
    BY <1>1 DEF Compare!SkipZero
  <1>3. DigitOf(s[i]) # 0
    BY <1>1, <1>2, DigitIs
  <1>4. \A n \in 0..9 : n # 0 => 1 <= 10 * 0 + n
    OBVIOUS
  <1> QED
    BY <1>1, <1>3, <1>4, Zenon

\* ... and where neither has one more, the numbers are compared from there.
LEMMA ZerosEnd ==
    ASSUME NEW s \in Seq(Chars), NEW t \in Seq(Chars), NEW i, NEW j, AtZeros(s, t, i, j),
           ~Compare!SkipZero(s, i), ~Compare!SkipZero(t, j)
    PROVE  AtDigits(s, t, i, j, 0)
  <1>1. PICK x, e, h, y, g, l : /\ InNumbers(s, x, e, h, i, t, y, g, l, j)
                                /\ Num(s, e, i) = 0 /\ Num(t, g, j) = 0
    BY Zenon DEF AtZeros
  <1>2. i \in e..h /\ j \in g..l /\ PairAt(s, x, e, h) /\ PairAt(t, y, g, l)
    BY <1>1, Zenon DEF InNumbers, Met
  <1>3. Bounded(s, e, h, i, 1) /\ Bounded(t, g, l, j, 1)
    BY <1>1, <1>2, ZerosPassed
  <1>4. Compare!Sign(0) = Compare!Sign(Num(s, e, i) - Num(t, g, j))
    <2>1. 0 - 0 = 0
      OBVIOUS
    <2> QED
      BY <1>1, <2>1, Zenon
  <1>5. 0 \in Int /\ 1 \in Nat
    OBVIOUS
  <1> QED
    BY <1>1, <1>3, <1>4, <1>5, Zenon DEF AtDigits

\* What one more digit does to two numbers.
LEMMA TenfoldCompare ==
    \A m, n \in Nat : \A c, k \in 0..9 :
        /\ m > n => 10 * m + c > 10 * n + k
        /\ m < n => 10 * m + c < 10 * n + k
        /\ m < n => 10 * m + c < 10 * n
        /\ m <= n => 10 * m <= 10 * n + k
        /\ m = n => (10 * m + c) - (10 * n + k) = c - k
  OBVIOUS

\* The characters of digits differ as the digits do.
LEMMA CodeIs ==
    ASSUME NEW c \in Compare!Digits
    PROVE  Compare!Code[c] = DigitOf(c) + 48 /\ Compare!Code[c] \in Nat
  <1>1. c = "0" \/ c = "1" \/ c = "2"
    BY DEF Compare!Digits
  <1>2. "0" # "1" /\ "0" # "2" /\ "1" # "2"
    OBVIOUS
  <1>3. "0" \in Chars /\ "1" \in Chars /\ "2" \in Chars
    BY DEF Chars, Compare!Code, Compare!Digits
  <1>4. Compare!Code["0"] = 48 /\ Compare!Code["1"] = 49 /\ Compare!Code["2"] = 50
    BY Zenon, <1>2, <1>3 DEF Compare!Code, Chars
  <1>5. Compare!Code[c] \in Nat
    BY <1>1, <1>4
  <1> QED
    BY <1>5 DEF DigitOf

\* The bound on both goes on.
LEMMA BoundGrows ==
    ASSUME NEW s \in Seq(Chars), NEW x, NEW e, NEW h, PairAt(s, x, e, h), NEW i \in e..h, i < h,
           NEW B \in Nat, Bounded(s, e, h, i, B)
    PROVE  Bounded(s, e, h, i + 1, 10 * B)
  <1>1. /\ Num(s, e, i) \in Nat /\ DigitOf(s[i]) \in 0..9 /\ i + 1 \in e..h
        /\ Num(s, e, i + 1) = 10 * Num(s, e, i) + DigitOf(s[i])
    BY InNumber
  <1>2. Num(s, e, i) < B /\ B <= Num(s, e, i + 1)
    BY DEF Bounded
  <1>3. Num(s, e, i + 1) < 10 * B
    <2>1. \A m, n \in Nat : \A c \in 0..9 : m < n => 10 * m + c < 10 * n
      OBVIOUS
    <2> QED
      BY <1>1, <1>2, <2>1, Zenon
  <1>4. ASSUME i + 1 < h
        PROVE  10 * B <= Num(s, e, (i + 1) + 1)
    <2>1. /\ Num(s, e, i + 1) \in Nat /\ DigitOf(s[i + 1]) \in 0..9
          /\ Num(s, e, (i + 1) + 1) = 10 * Num(s, e, i + 1) + DigitOf(s[i + 1])
      BY <1>1, <1>4, InNumber
    <2>2. 0 \in 0..9
      OBVIOUS
    <2> QED
      BY <1>2, <2>1, <2>2, TenfoldCompare, Zenon
  <1> QED
    BY <1>3, <1>4 DEF Bounded

\* The loop over the digits.
LEMMA DigitsGoOn ==
    ASSUME NEW s \in Seq(Chars), NEW t \in Seq(Chars), NEW i, NEW j, NEW d, AtDigits(s, t, i, j, d),
           Compare!IsDigit(s, i), Compare!IsDigit(t, j)
    PROVE  AtDigits(s, t, i + 1, j + 1,
                    IF d # 0 THEN d ELSE Compare!Code[s[i]] - Compare!Code[t[j]])
  <1> DEFINE f == IF d # 0 THEN d ELSE Compare!Code[s[i]] - Compare!Code[t[j]]
  <1>1. PICK x, e, h, y, g, l :
            /\ InNumbers(s, x, e, h, i, t, y, g, l, j)
            /\ d \in Int /\ Compare!Sign(d) = Compare!Sign(Num(s, e, i) - Num(t, g, j))
            /\ \E B \in Nat : Bounded(s, e, h, i, B) /\ Bounded(t, g, l, j, B)
    BY Zenon DEF AtDigits
  <1>2. /\ Met(s, x, e, h, t, y, g, l) /\ At(s, x, e) = At(t, y, g)
        /\ i \in e..h /\ j \in g..l /\ PairAt(s, x, e, h) /\ PairAt(t, y, g, l)
    BY <1>1, Zenon DEF InNumbers, Met
  <1>3. PICK B \in Nat : Bounded(s, e, h, i, B) /\ Bounded(t, g, l, j, B)
    BY <1>1
  <1>4. i < h /\ j < l
    BY <1>2, InNumber
  <1> DEFINE F == Num(s, e, i)
             G == Num(t, g, j)
             F1 == Num(s, e, i + 1)
             G1 == Num(t, g, j + 1)
             c == DigitOf(s[i])
             k == DigitOf(t[j])
  <1>5. F \in Nat /\ c \in 0..9 /\ F1 = 10 * F + c /\ i + 1 \in e..h /\ s[i] \in Compare!Digits
    BY <1>2, <1>4, InNumber
  <1>6. G \in Nat /\ k \in 0..9 /\ G1 = 10 * G + k /\ j + 1 \in g..l /\ t[j] \in Compare!Digits
    BY <1>2, <1>4, InNumber
  <1>7. f = IF d # 0 THEN d ELSE c - k
    <2>1. Compare!Code[s[i]] = c + 48 /\ Compare!Code[t[j]] = k + 48
      BY <1>5, <1>6, CodeIs
    <2>2. \A m, n \in 0..9 : (m + 48) - (n + 48) = m - n
      OBVIOUS
    <2>3. Compare!Code[s[i]] - Compare!Code[t[j]] = c - k
      BY <1>5, <1>6, <2>1, <2>2, Zenon
    <2> HIDE DEF c, k
    <2> QED
      BY <2>3
  <1>8. Compare!Sign(d) = Compare!Sign(F - G)
    BY <1>1
  <1> HIDE DEF f, F, G, F1, G1, c, k
  <1>9. F1 \in Nat /\ G1 \in Nat
    BY <1>5, <1>6, Tenfold, Zenon
  <1>10. f \in Int
    <2>1. c - k \in Int
      BY <1>5, <1>6
    <2> QED
      BY <1>1, <1>7, <2>1
  <1>11. Compare!Sign(f) = Compare!Sign(F1 - G1)
    <2>1. F - G \in Int /\ F1 - G1 \in Int /\ d \in Int
      BY <1>1, <1>5, <1>6, <1>9
    <2>2. CASE d = 0
      <3>1. F = G
        <4>1. Compare!Sign(F - G) = 0
          BY <1>8, <2>1, <2>2, SignIs
        <4>2. F - G = 0
          BY <2>1, <4>1, SignIs
        <4> QED
          BY <1>5, <1>6, <4>2
      <3>2. F1 - G1 = c - k
        BY <1>5, <1>6, <3>1, TenfoldCompare, Zenon
      <3> QED
        BY <1>7, <2>2, <3>2
    <2>3. CASE d > 0
      <3>1. F > G
        <4>1. Compare!Sign(F - G) = 1
          BY <1>8, <2>1, <2>3, SignIs
        <4>2. F - G > 0
          BY <2>1, <4>1, SignIs
        <4> QED
          BY <1>5, <1>6, <4>2
      <3>2. F1 > G1
        BY <1>5, <1>6, <3>1, TenfoldCompare, Zenon
      <3>3. F1 - G1 > 0 /\ d # 0
        BY <1>1, <1>9, <2>3, <3>2
      <3>4. Compare!Sign(F1 - G1) = 1 /\ Compare!Sign(d) = 1
        BY <2>1, <2>3, <3>3, SignIs
      <3> QED
        BY <1>7, <3>3, <3>4
    <2>4. CASE d < 0
      <3>1. F < G
        <4>1. Compare!Sign(F - G) = -1
          BY <1>8, <2>1, <2>4, SignIs
        <4>2. F - G < 0
          BY <2>1, <4>1, SignIs
        <4> QED
          BY <1>5, <1>6, <4>2
      <3>2. F1 < G1
        BY <1>5, <1>6, <3>1, TenfoldCompare, Zenon
      <3>3. F1 - G1 < 0 /\ d # 0
        BY <1>1, <1>9, <2>4, <3>2
      <3>4. Compare!Sign(F1 - G1) = -1 /\ Compare!Sign(d) = -1
        BY <2>1, <2>4, <3>3, SignIs
      <3> QED
        BY <1>7, <3>3, <3>4
    <2> QED
      BY <1>1, <2>2, <2>3, <2>4
  <1>12. Bounded(s, e, h, i + 1, 10 * B) /\ Bounded(t, g, l, j + 1, 10 * B)
    BY <1>2, <1>3, <1>4, BoundGrows
  <1>13. 10 * B \in Nat
    OBVIOUS
  <1>14. InNumbers(s, x, e, h, i + 1, t, y, g, l, j + 1)
    BY <1>2, <1>5, <1>6, Zenon DEF InNumbers
  <1>15. AtDigits(s, t, i + 1, j + 1, f)
    BY <1>10, <1>11, <1>12, <1>13, <1>14, Zenon DEF AtDigits, F1, G1
  <1> QED
    BY <1>15 DEF f

\* A number that goes on where the other has ended is larger.
LEMMA LongerIsLarger ==
    ASSUME NEW s \in Seq(Chars), NEW x, NEW e, NEW h, PairAt(s, x, e, h), NEW i \in e..h,
           NEW t \in Seq(Chars), NEW y, NEW g, NEW l, PairAt(t, y, g, l), NEW j \in g..l,
           i < h, ~(j < l), NEW B \in Nat, Bounded(s, e, h, i, B), Bounded(t, g, l, j, B)
    PROVE  /\ Num(s, e, h) \in Nat /\ Num(t, g, l) \in Nat /\ Num(t, g, l) < Num(s, e, h)
  <1>1. i + 1 \in e..h
    BY InNumber
  <1>2. Num(s, e, i + 1) \in Nat /\ Num(s, e, h) \in Nat /\ Num(s, e, i + 1) <= Num(s, e, h)
    BY <1>1, InNumber
  <1>3. B <= Num(s, e, i + 1) /\ Num(t, g, j) < B
    BY DEF Bounded
  <1>4. j = l
    <2>1. y \in Nat \ {0} /\ g \in {y, y + 1} /\ l \in Nat
      BY PairBounds
    <2> QED
      BY <2>1
  <1>5. Num(t, g, l) \in Nat
    BY InNumber
  <1>6. \A m, n, k, b \in Nat : b <= m /\ m <= n /\ k < b => k < n
    OBVIOUS
  <1> QED
    BY <1>2, <1>3, <1>4, <1>5, <1>6, Zenon

\* The end of the digits of one of them, or of both.
LEMMA DigitsEnd ==
    ASSUME NEW s \in Seq(Chars), Compare!Plain(s), NEW t \in Seq(Chars), Compare!Plain(t),
           NEW i, NEW j, NEW d, AtDigits(s, t, i, j, d),
           ~(Compare!IsDigit(s, i) /\ Compare!IsDigit(t, j))
    PROVE  /\ Compare!IsDigit(s, i) => Compare!DpkgFragment(s, t) = 1
           /\ Compare!IsDigit(t, j) => Compare!DpkgFragment(s, t) = -1
           /\ ~Compare!IsDigit(s, i) /\ ~Compare!IsDigit(t, j) /\ d # 0 =>
                  Compare!DpkgFragment(s, t) = Compare!Sign(d) /\ Compare!Sign(d) # 0
           /\ ~Compare!IsDigit(s, i) /\ ~Compare!IsDigit(t, j) /\ d = 0 =>
                  Fresh(s, t, i, j) /\ \E n : OnPair(s, t, n, i, j)
  <1>1. PICK x, e, h, y, g, l :
            /\ InNumbers(s, x, e, h, i, t, y, g, l, j)
            /\ d \in Int /\ Compare!Sign(d) = Compare!Sign(Num(s, e, i) - Num(t, g, j))
            /\ \E B \in Nat : Bounded(s, e, h, i, B) /\ Bounded(t, g, l, j, B)
    BY Zenon DEF AtDigits
  <1>2. /\ At(s, x, e) = At(t, y, g) /\ (\E n : OnPair(s, t, n, x, y))
        /\ i \in e..h /\ j \in g..l /\ PairAt(s, x, e, h) /\ PairAt(t, y, g, l)
        /\ (x <= Len(s) \/ y <= Len(t))
    BY <1>1, Zenon DEF InNumbers, Met
  <1>3. PICK B \in Nat : Bounded(s, e, h, i, B) /\ Bounded(t, g, l, j, B)
    BY <1>1
  <1>4. PICK n : OnPair(s, t, n, x, y)
    BY <1>2
  <1>5. (Compare!IsDigit(s, i) <=> i < h) /\ (Compare!IsDigit(t, j) <=> j < l)
    BY <1>2, InNumber
  <1> DEFINE F == Num(s, e, h)
             G == Num(t, g, l)
             r == Compare!ComparePair(s, x, t, y)
  <1>6. r = Compare!Sign(F - G)
    BY <1>2, PairsCompare
  <1>7. F \in Nat /\ G \in Nat
    BY <1>2, InNumber
  <1> HIDE DEF F, G, r
  <1>8. F - G \in Int
    BY <1>7
  <1>9. r # 0 => Compare!DpkgFragment(s, t) = r
    BY <1>4, PairDecides DEF r
  <1>10. ASSUME Compare!IsDigit(s, i)
         PROVE  Compare!DpkgFragment(s, t) = 1
    <2>1. i < h /\ ~(j < l)
      BY <1>5, <1>10
    <2>2. G < F
      BY <1>2, <1>3, <2>1, LongerIsLarger DEF F, G
    <2>3. F - G > 0
      BY <1>7, <2>2
    <2>4. r = 1
      BY <1>6, <1>8, <2>3, SignIs
    <2> QED
      BY <1>9, <2>4
  <1>11. ASSUME Compare!IsDigit(t, j)
         PROVE  Compare!DpkgFragment(s, t) = -1
    <2>1. j < l /\ ~(i < h)
      BY <1>5, <1>11
    <2>2. F < G
      BY <1>2, <1>3, <2>1, LongerIsLarger DEF F, G
    <2>3. F - G < 0
      BY <1>7, <2>2
    <2>4. r = -1
      BY <1>6, <1>8, <2>3, SignIs
    <2> QED
      BY <1>9, <2>4
  <1>12. ASSUME ~Compare!IsDigit(s, i), ~Compare!IsDigit(t, j)
         PROVE  i = h /\ j = l /\ r = Compare!Sign(d)
    <2>1. ~(i < h) /\ ~(j < l)
      BY <1>5, <1>12
    <2>2. i = h
      <3>1. x \in Nat \ {0} /\ e \in {x, x + 1} /\ h \in Nat
        BY <1>2, PairBounds
      <3> QED
        BY <1>2, <2>1, <3>1
    <2>3. j = l
      <3>1. y \in Nat \ {0} /\ g \in {y, y + 1} /\ l \in Nat
        BY <1>2, PairBounds
      <3> QED
        BY <1>2, <2>1, <3>1
    <2>4. Compare!Sign(d) = Compare!Sign(Num(s, e, i) - Num(t, g, j))
      BY <1>1
    <2> QED
      BY <1>6, <2>2, <2>3, <2>4 DEF F, G
  <1>13. Compare!Sign(d) = 0 <=> d = 0
    BY <1>1, SignIs
  <1>14. ASSUME ~Compare!IsDigit(s, i), ~Compare!IsDigit(t, j), d = 0
         PROVE  Fresh(s, t, i, j) /\ \E m : OnPair(s, t, m, i, j)
    <2>1. i = h /\ j = l /\ Compare!ComparePair(s, x, t, y) = 0
      BY <1>12, <1>13, <1>14 DEF r
    <2>2. OnPair(s, t, n + 1, i, j)
      BY <1>2, <1>4, <2>1, PairPasses
    <2>3. Fresh(s, t, i, j)
      BY <1>2, <2>1, Zenon DEF Fresh, PairAt
    <2> QED
      BY <2>2, <2>3
  <1> QED
    BY <1>9, <1>10, <1>11, <1>12, <1>13, <1>14

\* The fragments of a version are texts.
Fragments(v) == v.upstream \in Seq(Chars) /\ v.revision \in Seq(Chars)

\* A version is split into texts.
LEMMA SplitInto ==
    ASSUME NEW text \in Seq(Chars)
    PROVE  Fragments(Compare!SplitVersion(text))
  <1> DEFINE epochs == {n \in Compare!First(text, ":") :
                           n > 1 /\ \A m \in 1..(n - 1) : text[m] \in Compare!Digits}
             rest == IF epochs = {} THEN text
                     ELSE SubSeq(text, (CHOOSE n \in epochs : TRUE) + 1, Len(text))
             hyphens == Compare!Last(rest, "-")
             hyphen == CHOOSE n \in hyphens : TRUE
             v == Compare!SplitVersion(text)
  <1>1. /\ v.upstream = IF hyphens = {} THEN rest ELSE SubSeq(rest, 1, hyphen - 1)
        /\ v.revision = IF hyphens = {} THEN <<>> ELSE SubSeq(rest, hyphen + 1, Len(rest))
    BY Zenon DEF Compare!SplitVersion
  <1>2. \A w \in Seq(Chars) : \A m \in Nat \ {0} : \A n \in 0..Len(w) : SubSeq(w, m, n) \in Seq(Chars)
    <2> SUFFICES ASSUME NEW w \in Seq(Chars), NEW m \in Nat \ {0}, NEW n \in 0..Len(w)
                 PROVE  SubSeq(w, m, n) \in Seq(Chars)
      OBVIOUS
    <2>1. \A k \in m..n : w[k] \in Chars
      OBVIOUS
    <2> QED
      BY <2>1, SubSeqProperties
  <1>3. rest \in Seq(Chars)
    <2>1. CASE epochs = {}
      BY <2>1
    <2>2. CASE epochs # {}
      <3>1. (CHOOSE n \in epochs : TRUE) \in epochs
        BY <2>2
      <3>2. epochs \subseteq 1..Len(text)
        BY DEF Compare!First
      <3>3. (CHOOSE n \in epochs : TRUE) + 1 \in Nat \ {0} /\ Len(text) \in 0..Len(text)
        BY <3>1, <3>2
      <3>4. rest = SubSeq(text, (CHOOSE n \in epochs : TRUE) + 1, Len(text))
        BY <2>2
      <3> HIDE DEF rest, epochs
      <3> QED
        BY <1>2, <3>3, <3>4
    <2> QED
      BY <2>1, <2>2
  <1>4. hyphens \subseteq 1..Len(rest)
    <2>1. DOMAIN rest = 1..Len(rest)
      <3> HIDE DEF rest
      <3> QED
        BY <1>3
    <2> HIDE DEF rest
    <2> QED
      BY <2>1 DEF Compare!Last
  <1> HIDE DEF rest, hyphens, v, hyphen
  <1>5. CASE hyphens = {}
    BY <1>1, <1>3, <1>5 DEF Fragments, v
  <1>6. CASE hyphens # {}
    <2>1. hyphen \in 1..Len(rest)
      BY <1>4, <1>6 DEF hyphen
    <2>2. hyphen - 1 \in 0..Len(rest) /\ hyphen + 1 \in Nat \ {0} /\ Len(rest) \in 0..Len(rest)
          /\ 1 \in Nat \ {0}
      BY <1>3, <2>1
    <2>3. SubSeq(rest, 1, hyphen - 1) \in Seq(Chars) /\ SubSeq(rest, hyphen + 1, Len(rest)) \in Seq(Chars)
      BY <1>2, <1>3, <2>2
    <2>4. v.upstream \in Seq(Chars) /\ v.revision \in Seq(Chars)
      BY <1>1, <1>6, <2>3, Zenon
    <2> QED
      BY <2>4 DEF Fragments, v
  <1> QED
    BY <1>5, <1>6

\* What holds of a comparison, by where it is.
AllPlain == \A v \in {v1, v2} : Compare!Plain(v.upstream) /\ Compare!Plain(v.revision)
SoFarEqual ==
    /\ v1.epoch = v2.epoch
    /\ v3 = "revision" => Compare!DpkgFragment(v1.upstream, v2.upstream) = 0
Underway ==
    /\ pc = "epoch" => v3 = "upstream" /\ v4 = 1 /\ v5 = 1
    /\ pc \in {"outer", "runs", "zeros", "digits"} => SoFarEqual
    /\ pc = "outer" => Fresh(v1[v3], v2[v3], v4, v5) /\ \E n : OnPair(v1[v3], v2[v3], n, v4, v5)
    /\ pc = "runs" => AtRuns(v1[v3], v2[v3], v4, v5)
    /\ pc = "zeros" => AtZeros(v1[v3], v2[v3], v4, v5)
    /\ pc = "digits" => AtDigits(v1[v3], v2[v3], v4, v5, v6)
    /\ pc = "done" => Compare!Sign(v7) = Compare!Dpkg(v1, v2)
CompareInv ==
    /\ Fragments(v1) /\ Fragments(v2) /\ v3 \in {"upstream", "revision"}
    /\ pc \in {"epoch", "outer", "runs", "zeros", "digits", "done"}
    /\ AllPlain => Underway

\* Two versions of which nothing is compared satisfy the invariant.
LEMMA CompareBegins ==
    ASSUME Compare!TextsAssumption, Compare!Init
    PROVE  CompareInv
  <1>1. PICK s, t \in Texts : v1 = Compare!SplitVersion(s) /\ v2 = Compare!SplitVersion(t)
    BY Zenon DEF Compare!Init
  <1>2. s \in Seq(Chars) /\ t \in Seq(Chars)
    BY <1>1, Zenon DEF Compare!TextsAssumption, Chars
  <1>3. Fragments(v1) /\ Fragments(v2)
    BY <1>1, <1>2, SplitInto
  <1>4. pc = "epoch" /\ v3 = "upstream" /\ v4 = 1 /\ v5 = 1
    BY DEF Compare!Init
  <1> QED
    BY <1>3, <1>4 DEF CompareInv, Underway

\* A fragment that is not equal decides, and so does the last.
LEMMA FragmentDecides ==
    ASSUME SoFarEqual, v3 \in {"upstream", "revision"}, NEW r,
           Compare!DpkgFragment(v1[v3], v2[v3]) = r, r # 0 \/ v3 = "revision"
    PROVE  Compare!Dpkg(v1, v2) = r
  <1> DEFINE up == Compare!DpkgFragment(v1.upstream, v2.upstream)
             rev == Compare!DpkgFragment(v1.revision, v2.revision)
  <1>1. Compare!Dpkg(v1, v2) = IF v1.epoch # v2.epoch THEN Compare!Sign(v1.epoch - v2.epoch)
                               ELSE IF up # 0 THEN up ELSE rev
    BY Zenon DEF Compare!Dpkg
  <1>2. CASE v3 = "upstream"
    <2>1. up = r /\ r # 0
      BY <1>2
    <2> HIDE DEF up, rev
    <2> QED
      BY <1>1, <2>1, Zenon DEF SoFarEqual
  <1>3. CASE v3 = "revision"
    <2>1. rev = r
      BY <1>3
    <2>2. up = 0
      BY <1>3, Zenon DEF SoFarEqual
    <2> HIDE DEF up, rev
    <2> QED
      BY <1>1, <2>1, <2>2, Zenon DEF SoFarEqual
  <1> QED
    BY <1>2, <1>3

\* The fragments that are compared.
LEMMA FragmentsAre ==
    ASSUME CompareInv, AllPlain
    PROVE  /\ v1[v3] \in Seq(Chars) /\ v2[v3] \in Seq(Chars)
           /\ Compare!Plain(v1[v3]) /\ Compare!Plain(v2[v3]) /\ Underway
  <1>1. Underway /\ v3 \in {"upstream", "revision"} /\ Fragments(v1) /\ Fragments(v2)
    BY Zenon DEF CompareInv
  <1>2. v1 \in {v1, v2} /\ v2 \in {v1, v2}
    OBVIOUS
  <1>3. /\ Compare!Plain(v1.upstream) /\ Compare!Plain(v1.revision)
        /\ Compare!Plain(v2.upstream) /\ Compare!Plain(v2.revision)
    BY <1>2, Zenon DEF AllPlain
  <1>4. CASE v3 = "upstream"
    <2>1. v1[v3] = v1.upstream /\ v2[v3] = v2.upstream
      BY <1>4
    <2> QED
      BY <1>1, <1>3, <2>1, Zenon DEF Fragments
  <1>5. CASE v3 = "revision"
    <2>1. v1[v3] = v1.revision /\ v2[v3] = v2.revision
      BY <1>5
    <2> QED
      BY <1>1, <1>3, <2>1, Zenon DEF Fragments
  <1> QED
    BY <1>1, <1>4, <1>5

\* A step of the comparison keeps to it, loop by loop.
Kept ==
    /\ v1' = v1 /\ v2' = v2
    /\ v3' \in {"upstream", "revision"}
    /\ pc' \in {"epoch", "outer", "runs", "zeros", "digits", "done"}

\* A step that keeps the versions and stays underway keeps the invariant.
LEMMA KeptGoesOn ==
    ASSUME CompareInv, Kept, AllPlain => Underway'
    PROVE  CompareInv'
  <1>1. Fragments(v1)' /\ Fragments(v2)'
    BY Zenon DEF CompareInv, Kept, Fragments
  <1>2. AllPlain' => AllPlain
    BY Zenon DEF AllPlain, Kept
  <1> QED
    BY <1>1, <1>2, Zenon DEF CompareInv, Kept

\* Returning it ends the comparison.
LEMMA Returns ==
    ASSUME SoFarEqual, v3 \in {"upstream", "revision"}, v1' = v1, v2' = v2, NEW r, pc' = "done",
           v7' = r, Compare!DpkgFragment(v1[v3], v2[v3]) = Compare!Sign(r),
           Compare!Sign(r) # 0 \/ v3 = "revision"
    PROVE  Underway'
  <1>1. Compare!Dpkg(v1, v2) = Compare!Sign(r)
    BY FragmentDecides
  <1>2. Compare!Sign(v7') = Compare!Dpkg(v1', v2')
    BY <1>1, Zenon
  <1>3. /\ pc' # "epoch" /\ pc' # "outer" /\ pc' # "runs" /\ pc' # "zeros" /\ pc' # "digits"
        /\ pc' \notin {"outer", "runs", "zeros", "digits"}
    OBVIOUS
  <1> QED
    BY <1>2, <1>3, Zenon DEF Underway

\* The epochs.
LEMMA EpochsGoOn ==
    ASSUME CompareInv, Compare!CompareEpochs
    PROVE  CompareInv'
  <1>1. /\ pc = "epoch" /\ v1' = v1 /\ v2' = v2 /\ v3' = v3 /\ v4' = v4 /\ v5' = v5
        /\ v3 \in {"upstream", "revision"}
    BY Zenon DEF Compare!CompareEpochs, CompareInv
  <1>2. \/ v1.epoch # v2.epoch /\ pc' = "done" /\ v7' = v1.epoch - v2.epoch
        \/ v1.epoch = v2.epoch /\ pc' = "outer"
    BY Zenon DEF Compare!CompareEpochs, Compare!Return
  <1>3. Kept
    BY <1>1, <1>2 DEF Kept
  <1>4. ASSUME AllPlain
        PROVE  Underway'
    <2>1. /\ v1[v3] \in Seq(Chars) /\ v2[v3] \in Seq(Chars)
          /\ Compare!Plain(v1[v3]) /\ Compare!Plain(v2[v3]) /\ Underway
      BY <1>4, FragmentsAre
    <2>2. v3 = "upstream" /\ v4 = 1 /\ v5 = 1
      BY <1>1, <2>1, Zenon DEF Underway
    <2>3. CASE v1.epoch # v2.epoch
      <3>1. pc' = "done" /\ v7' = v1.epoch - v2.epoch
        BY <1>2, <2>3
      <3>2. Compare!Dpkg(v1, v2) = Compare!Sign(v1.epoch - v2.epoch)
        BY <2>3, Zenon DEF Compare!Dpkg
      <3>3. Compare!Sign(v7') = Compare!Dpkg(v1', v2')
        BY <1>1, <3>1, <3>2, Zenon
      <3>4. /\ pc' # "epoch" /\ pc' # "outer" /\ pc' # "runs" /\ pc' # "zeros" /\ pc' # "digits"
            /\ pc' \notin {"outer", "runs", "zeros", "digits"}
        BY <3>1
      <3> QED
        BY <3>3, <3>4, Zenon DEF Underway
    <2>4. CASE v1.epoch = v2.epoch
      <3>1. pc' = "outer"
        BY <1>2, <2>4
      <3>2. Fresh(v1[v3], v2[v3], 1, 1) /\ \E n : OnPair(v1[v3], v2[v3], n, 1, 1)
        BY <2>1, FirstPairs
      <3>3. SoFarEqual'
        <4>1. v3' # "revision"
          BY <1>1, <2>2
        <4> QED
          BY <1>1, <2>4, <4>1, Zenon DEF SoFarEqual
      <3>4. Fresh(v1[v3], v2[v3], v4, v5)' /\ (\E n : OnPair(v1[v3], v2[v3], n, v4, v5))'
        BY <1>1, <2>2, <3>2, Zenon
      <3>5. /\ pc' # "epoch" /\ pc' # "done" /\ pc' # "runs" /\ pc' # "zeros" /\ pc' # "digits"
        BY <3>1
      <3> QED
        BY <3>3, <3>4, <3>5, Zenon DEF Underway
    <2> QED
      BY <2>3, <2>4
  <1> QED
    BY <1>3, <1>4, KeptGoesOn

\* The equality that was found lasts.
LEMMA StillEqual ==
    ASSUME SoFarEqual, v1' = v1, v2' = v2, v3' = v3
    PROVE  SoFarEqual'
  BY Zenon DEF SoFarEqual
\* The loop over the pairs.
LEMMA OuterGoesOn ==
    ASSUME CompareInv, Compare!Outer
    PROVE  CompareInv'
  <1> DEFINE s == v1[v3]
             t == v2[v3]
  <1>1. /\ pc = "outer" /\ v1' = v1 /\ v2' = v2 /\ v3 \in {"upstream", "revision"}
    BY Zenon DEF Compare!Outer, CompareInv
  <1>2. \/ /\ v4 <= Len(s) \/ v5 <= Len(t)
           /\ pc' = "runs" /\ v3' = v3 /\ v4' = v4 /\ v5' = v5
        \/ /\ ~(v4 <= Len(s) \/ v5 <= Len(t)) /\ v3 = "upstream"
           /\ v3' = "revision" /\ v4' = 1 /\ v5' = 1 /\ pc' = pc
        \/ /\ ~(v4 <= Len(s) \/ v5 <= Len(t)) /\ v3 # "upstream"
           /\ pc' = "done" /\ v7' = 0 /\ v3' = v3
    BY Zenon DEF Compare!Outer, Compare!Return
  <1>3. Kept
    <2>1. v3' \in {"upstream", "revision"}
      BY <1>1, <1>2
    <2>2. pc' \in {"epoch", "outer", "runs", "zeros", "digits", "done"}
      BY <1>1, <1>2
    <2> QED
      BY <1>1, <2>1, <2>2 DEF Kept
  <1>4. ASSUME AllPlain
        PROVE  Underway'
    <2>1. /\ s \in Seq(Chars) /\ t \in Seq(Chars)
          /\ Compare!Plain(s) /\ Compare!Plain(t) /\ Underway
      BY <1>4, FragmentsAre
    <2>2. SoFarEqual /\ Fresh(s, t, v4, v5) /\ \E n : OnPair(s, t, n, v4, v5)
      <3>1. pc \in {"outer", "runs", "zeros", "digits"}
        BY <1>1
      <3> QED
        BY <1>1, <2>1, <3>1, Zenon DEF Underway
    <2> HIDE DEF s, t
    <2>3. CASE /\ v4 <= Len(s) \/ v5 <= Len(t)
               /\ pc' = "runs" /\ v3' = v3 /\ v4' = v4 /\ v5' = v5
      <3>1. AtRuns(s, t, v4, v5)
        BY <2>1, <2>2, <2>3, PairsMeet
      <3>2. SoFarEqual' /\ AtRuns(v1[v3], v2[v3], v4, v5)'
        BY <1>1, <2>2, <2>3, <3>1, StillEqual, Zenon DEF s, t
      <3>3. /\ pc' # "epoch" /\ pc' # "outer" /\ pc' # "zeros" /\ pc' # "digits" /\ pc' # "done"
        BY <2>3
      <3> QED
        BY <3>2, <3>3, Zenon DEF Underway
    <2>4. CASE ~(v4 <= Len(s) \/ v5 <= Len(t))
      <3>1. PICK n : OnPair(s, t, n, v4, v5)
        BY <2>2
      <3>2. v4 \in 1..(Len(s) + 1) /\ v5 \in 1..(Len(t) + 1)
        BY <2>1, <3>1, OnPairBounds
      <3>3. v4 = Len(s) + 1 /\ v5 = Len(t) + 1
        <4>1. Len(s) \in Nat /\ Len(t) \in Nat
          BY <2>1
        <4> QED
          BY <2>4, <3>2, <4>1
      <3>4. OnPair(s, t, n, Len(s) + 1, Len(t) + 1)
        BY <3>1, <3>3
      <3>5. Compare!DpkgFragment(s, t) = 0
        BY <2>1, <3>4, PairsEnd
      <3>6. CASE /\ v3 = "upstream"
                 /\ v3' = "revision" /\ v4' = 1 /\ v5' = 1 /\ pc' = pc
        <4>1. /\ v1' = v1 /\ v2' = v2 /\ pc' = "outer"
          BY <1>1, <3>6
        <4>2. Compare!DpkgFragment(v1.upstream, v2.upstream) = 0
          <5>1. s = v1.upstream /\ t = v2.upstream
            BY <3>6 DEF s, t
          <5> QED
            BY <3>5, <5>1
        <4>3. SoFarEqual'
          BY <2>2, <4>1, <4>2, Zenon DEF SoFarEqual
        <4>4. Fragments(v1) /\ Fragments(v2)
          BY Zenon DEF CompareInv
        <4>5. /\ v1.revision \in Seq(Chars) /\ v2.revision \in Seq(Chars)
              /\ Compare!Plain(v1.revision) /\ Compare!Plain(v2.revision)
          <5>1. v1 \in {v1, v2} /\ v2 \in {v1, v2}
            OBVIOUS
          <5> QED
            BY <1>4, <4>4, <5>1, Zenon DEF Fragments, AllPlain
        <4>6. /\ Fresh(v1.revision, v2.revision, 1, 1)
              /\ \E m : OnPair(v1.revision, v2.revision, m, 1, 1)
          BY <4>5, FirstPairs
        <4>7. v1'[v3'] = v1.revision /\ v2'[v3'] = v2.revision
          BY <3>6, <4>1
        <4>8. Fresh(v1[v3], v2[v3], v4, v5)' /\ (\E m : OnPair(v1[v3], v2[v3], m, v4, v5))'
          BY <3>6, <4>6, <4>7, Zenon
        <4>9. /\ pc' # "epoch" /\ pc' # "done" /\ pc' # "runs" /\ pc' # "zeros" /\ pc' # "digits"
          BY <4>1
        <4> QED
          BY <4>3, <4>8, <4>9, Zenon DEF Underway
      <3>7. CASE v3 # "upstream" /\ pc' = "done" /\ v7' = 0
        <4>1. v3 = "revision"
          BY <1>1, <3>7
        <4>2. Compare!Sign(0) = 0
          BY DEF Compare!Sign
        <4>3. Compare!DpkgFragment(v1[v3], v2[v3]) = Compare!Sign(0)
          BY <3>5, <4>2 DEF s, t
        <4> QED
          BY <1>1, <2>2, <3>7, <4>1, <4>3, Returns
      <3> QED
        BY <1>2, <2>4, <3>6, <3>7 DEF s, t
    <2> QED
      BY <1>2, <2>3, <2>4 DEF s, t
  <1> QED
    BY <1>3, <1>4, KeptGoesOn

\* The loop over what is not a digit.
LEMMA RunsLoop ==
    ASSUME CompareInv, Compare!Runs
    PROVE  CompareInv'
  <1> DEFINE s == v1[v3]
             t == v2[v3]
             ac == Compare!RankAt(s, v4)
             bc == Compare!RankAt(t, v5)
             other == Compare!IsOther(s, v4) \/ Compare!IsOther(t, v5)
  <1>1. /\ pc = "runs" /\ v1' = v1 /\ v2' = v2 /\ v3' = v3 /\ v3 \in {"upstream", "revision"}
    BY Zenon DEF Compare!Runs, CompareInv
  <1>2. \/ other /\ ac # bc /\ pc' = "done" /\ v7' = ac - bc
        \/ other /\ ac = bc /\ pc' = pc /\ v4' = v4 + 1 /\ v5' = v5 + 1
        \/ ~other /\ pc' = "zeros" /\ v4' = v4 /\ v5' = v5
    BY Zenon DEF Compare!Runs, Compare!Return
  <1>3. Kept
    <2>1. pc' \in {"epoch", "outer", "runs", "zeros", "digits", "done"}
      BY <1>1, <1>2
    <2> QED
      BY <1>1, <2>1 DEF Kept
  <1>4. ASSUME AllPlain
        PROVE  Underway'
    <2>1. /\ s \in Seq(Chars) /\ t \in Seq(Chars)
          /\ Compare!Plain(s) /\ Compare!Plain(t) /\ Underway
      BY <1>4, FragmentsAre
    <2>2. SoFarEqual /\ AtRuns(s, t, v4, v5)
      <3>1. pc \in {"outer", "runs", "zeros", "digits"}
        BY <1>1
      <3> QED
        BY <1>1, <2>1, <3>1, Zenon DEF Underway
    <2> HIDE DEF s, t
    <2>3. IF other
          THEN IF ac # bc
               THEN /\ Compare!DpkgFragment(s, t) = Compare!Sign(ac - bc)
                    /\ Compare!DpkgFragment(s, t) # 0
               ELSE AtRuns(s, t, v4 + 1, v5 + 1)
          ELSE AtZeros(s, t, v4, v5)
      BY <2>1, <2>2, RunsGoOn
    <2> HIDE DEF ac, bc, other
    <2>4. CASE other /\ ac # bc /\ pc' = "done" /\ v7' = ac - bc
      <3>1. Compare!DpkgFragment(v1[v3], v2[v3]) = Compare!Sign(ac - bc) /\ Compare!Sign(ac - bc) # 0
        BY <2>3, <2>4, Zenon DEF s, t
      <3> QED
        BY <1>1, <2>2, <2>4, <3>1, Returns
    <2>5. CASE other /\ ac = bc /\ pc' = pc /\ v4' = v4 + 1 /\ v5' = v5 + 1
      <3>1. AtRuns(s, t, v4 + 1, v5 + 1) /\ pc' = "runs"
        BY <1>1, <2>3, <2>5
      <3>2. SoFarEqual' /\ AtRuns(v1[v3], v2[v3], v4, v5)'
        BY <1>1, <2>2, <2>5, <3>1, StillEqual, Zenon DEF s, t
      <3>3. /\ pc' # "epoch" /\ pc' # "outer" /\ pc' # "zeros" /\ pc' # "digits" /\ pc' # "done"
        BY <3>1
      <3> QED
        BY <3>2, <3>3, Zenon DEF Underway
    <2>6. CASE ~other /\ pc' = "zeros" /\ v4' = v4 /\ v5' = v5
      <3>1. AtZeros(s, t, v4, v5)
        BY <2>3, <2>6
      <3>2. SoFarEqual' /\ AtZeros(v1[v3], v2[v3], v4, v5)'
        BY <1>1, <2>2, <2>6, <3>1, StillEqual, Zenon DEF s, t
      <3>3. /\ pc' # "epoch" /\ pc' # "outer" /\ pc' # "runs" /\ pc' # "digits" /\ pc' # "done"
        BY <2>6
      <3> QED
        BY <3>2, <3>3, Zenon DEF Underway
    <2> QED
      BY <1>2, <2>4, <2>5, <2>6 DEF ac, bc, other
  <1> QED
    BY <1>3, <1>4, KeptGoesOn

\* The loops over zeros.
LEMMA ZerosLoop ==
    ASSUME CompareInv, Compare!Zeros
    PROVE  CompareInv'
  <1> DEFINE s == v1[v3]
             t == v2[v3]
             i1 == IF Compare!SkipZero(s, v4) THEN v4 + 1 ELSE v4
             j1 == IF Compare!SkipZero(t, v5) THEN v5 + 1 ELSE v5
  <1>1. /\ pc = "zeros" /\ v1' = v1 /\ v2' = v2 /\ v3' = v3 /\ v3 \in {"upstream", "revision"}
        /\ v4' = i1 /\ v5' = j1
    BY Zenon DEF Compare!Zeros, CompareInv
  <1>2. \/ v4' = v4 /\ v5' = v5 /\ pc' = "digits" /\ v6' = 0
        \/ pc' = pc
    BY Zenon DEF Compare!Zeros
  <1>3. Kept
    <2>1. pc' \in {"epoch", "outer", "runs", "zeros", "digits", "done"}
      BY <1>1, <1>2
    <2> QED
      BY <1>1, <2>1 DEF Kept
  <1>4. ASSUME AllPlain
        PROVE  Underway'
    <2>1. /\ s \in Seq(Chars) /\ t \in Seq(Chars)
          /\ Compare!Plain(s) /\ Compare!Plain(t) /\ Underway
      BY <1>4, FragmentsAre
    <2>2. SoFarEqual /\ AtZeros(s, t, v4, v5)
      <3>1. pc \in {"outer", "runs", "zeros", "digits"}
        BY <1>1
      <3> QED
        BY <1>1, <2>1, <3>1, Zenon DEF Underway
    <2> HIDE DEF s, t
    <2>3. AtZeros(s, t, i1, j1)
      BY <2>1, <2>2, ZerosGoOn
    <2>4. v4 \in Nat /\ v5 \in Nat
      BY <2>1, <2>2, ZerosAt
    <2>5. CASE v4' = v4 /\ v5' = v5 /\ pc' = "digits" /\ v6' = 0
      <3>1. ~Compare!SkipZero(s, v4) /\ ~Compare!SkipZero(t, v5)
        BY <1>1, <2>4, <2>5
      <3>2. AtDigits(s, t, v4, v5, 0)
        BY <2>1, <2>2, <3>1, ZerosEnd
      <3>3. SoFarEqual' /\ AtDigits(v1[v3], v2[v3], v4, v5, v6)'
        BY <1>1, <2>2, <2>5, <3>2, StillEqual, Zenon DEF s, t
      <3>4. /\ pc' # "epoch" /\ pc' # "outer" /\ pc' # "runs" /\ pc' # "zeros" /\ pc' # "done"
        BY <2>5
      <3> QED
        BY <3>3, <3>4, Zenon DEF Underway
    <2> HIDE DEF i1, j1
    <2>6. CASE pc' = pc
      <3>1. SoFarEqual' /\ AtZeros(v1[v3], v2[v3], v4, v5)' /\ pc' = "zeros"
        BY <1>1, <2>2, <2>3, <2>6, StillEqual, Zenon DEF s, t
      <3>2. /\ pc' # "epoch" /\ pc' # "outer" /\ pc' # "runs" /\ pc' # "digits" /\ pc' # "done"
        BY <3>1
      <3> QED
        BY <3>1, <3>2, Zenon DEF Underway
    <2> QED
      BY <1>2, <2>5, <2>6
  <1> QED
    BY <1>3, <1>4, KeptGoesOn

\* The loop over digits, and what follows it.
LEMMA DigitsLoop ==
    ASSUME CompareInv, Compare!CompareDigits
    PROVE  CompareInv'
  <1> DEFINE s == v1[v3]
             t == v2[v3]
             sd == Compare!IsDigit(s, v4)
             td == Compare!IsDigit(t, v5)
             f == IF v6 # 0 THEN v6 ELSE Compare!Code[s[v4]] - Compare!Code[t[v5]]
  <1>1. /\ pc = "digits" /\ v1' = v1 /\ v2' = v2 /\ v3' = v3 /\ v3 \in {"upstream", "revision"}
    BY Zenon DEF Compare!CompareDigits, CompareInv
  <1>2. \/ sd /\ td /\ v6' = f /\ v4' = v4 + 1 /\ v5' = v5 + 1 /\ pc' = pc
        \/ /\ ~(sd /\ td) /\ v4' = v4 /\ v5' = v5
           /\ \/ sd /\ pc' = "done" /\ v7' = 1
              \/ td /\ pc' = "done" /\ v7' = -1
              \/ ~sd /\ ~td /\ v6 # 0 /\ pc' = "done" /\ v7' = v6
              \/ ~sd /\ ~td /\ v6 = 0 /\ pc' = "outer"
    BY Zenon DEF Compare!CompareDigits, Compare!Return
  <1>3. Kept
    <2>1. pc' \in {"epoch", "outer", "runs", "zeros", "digits", "done"}
      BY <1>1, <1>2
    <2> QED
      BY <1>1, <2>1 DEF Kept
  <1>4. ASSUME AllPlain
        PROVE  Underway'
    <2>1. /\ s \in Seq(Chars) /\ t \in Seq(Chars)
          /\ Compare!Plain(s) /\ Compare!Plain(t) /\ Underway
      BY <1>4, FragmentsAre
    <2>2. SoFarEqual /\ AtDigits(s, t, v4, v5, v6)
      <3>1. pc \in {"outer", "runs", "zeros", "digits"}
        BY <1>1
      <3> QED
        BY <1>1, <2>1, <3>1, Zenon DEF Underway
    <2> HIDE DEF s, t
    <2>3. CASE sd /\ td /\ v6' = f /\ v4' = v4 + 1 /\ v5' = v5 + 1 /\ pc' = pc
      <3>1. AtDigits(s, t, v4 + 1, v5 + 1, f)
        BY <2>1, <2>2, <2>3, DigitsGoOn
      <3> HIDE DEF f
      <3>2. SoFarEqual' /\ AtDigits(v1[v3], v2[v3], v4, v5, v6)' /\ pc' = "digits"
        BY <1>1, <2>2, <2>3, <3>1, StillEqual, Zenon DEF s, t
      <3>3. /\ pc' # "epoch" /\ pc' # "outer" /\ pc' # "runs" /\ pc' # "zeros" /\ pc' # "done"
        BY <3>2
      <3> QED
        BY <3>2, <3>3, Zenon DEF Underway
    <2>4. CASE /\ ~(sd /\ td) /\ v4' = v4 /\ v5' = v5
               /\ \/ sd /\ pc' = "done" /\ v7' = 1
                  \/ td /\ pc' = "done" /\ v7' = -1
                  \/ ~sd /\ ~td /\ v6 # 0 /\ pc' = "done" /\ v7' = v6
                  \/ ~sd /\ ~td /\ v6 = 0 /\ pc' = "outer"
      <3>1. /\ sd => Compare!DpkgFragment(s, t) = 1
            /\ td => Compare!DpkgFragment(s, t) = -1
            /\ ~sd /\ ~td /\ v6 # 0 =>
                   Compare!DpkgFragment(s, t) = Compare!Sign(v6) /\ Compare!Sign(v6) # 0
            /\ ~sd /\ ~td /\ v6 = 0 =>
                   Fresh(s, t, v4, v5) /\ \E n : OnPair(s, t, n, v4, v5)
        BY <2>1, <2>2, <2>4, DigitsEnd
      <3> HIDE DEF sd, td
      <3>2. Compare!Sign(1) = 1 /\ Compare!Sign(-1) = -1
        BY DEF Compare!Sign
      <3>3. CASE sd /\ pc' = "done" /\ v7' = 1
        <4>1. Compare!DpkgFragment(v1[v3], v2[v3]) = Compare!Sign(1) /\ Compare!Sign(1) # 0
          BY <3>1, <3>2, <3>3 DEF s, t
        <4> QED
          BY <1>1, <2>2, <3>3, <4>1, Returns
      <3>4. CASE td /\ pc' = "done" /\ v7' = -1
        <4>1. Compare!DpkgFragment(v1[v3], v2[v3]) = Compare!Sign(-1) /\ Compare!Sign(-1) # 0
          BY <3>1, <3>2, <3>4 DEF s, t
        <4> QED
          BY <1>1, <2>2, <3>4, <4>1, Returns
      <3>5. CASE ~sd /\ ~td /\ v6 # 0 /\ pc' = "done" /\ v7' = v6
        <4>1. Compare!DpkgFragment(v1[v3], v2[v3]) = Compare!Sign(v6) /\ Compare!Sign(v6) # 0
          BY <3>1, <3>5 DEF s, t
        <4> QED
          BY <1>1, <2>2, <3>5, <4>1, Returns
      <3>6. CASE ~sd /\ ~td /\ v6 = 0 /\ pc' = "outer"
        <4>1. Fresh(s, t, v4, v5) /\ \E n : OnPair(s, t, n, v4, v5)
          BY <3>1, <3>6
        <4>2. Fresh(v1[v3], v2[v3], v4, v5)' /\ (\E n : OnPair(v1[v3], v2[v3], n, v4, v5))'
          BY <1>1, <2>4, <4>1, Zenon DEF s, t
        <4>3. SoFarEqual'
          BY <1>1, <2>2, StillEqual
        <4>4. /\ pc' # "epoch" /\ pc' # "runs" /\ pc' # "zeros" /\ pc' # "digits" /\ pc' # "done"
          BY <3>6
        <4> QED
          BY <4>2, <4>3, <4>4, Zenon DEF Underway
      <3> QED
        BY <2>4, <3>3, <3>4, <3>5, <3>6
    <2> QED
      BY <1>2, <2>3, <2>4 DEF s, t
  <1> QED
    BY <1>3, <1>4, KeptGoesOn

\* The comparison.
LEMMA CompareGoesOn ==
    ASSUME CompareInv, Compare!Next \/ UNCHANGED <<v1, v2, v3, v4, v5, v6, v7, pc>>
    PROVE  CompareInv'
  <1>1. ASSUME UNCHANGED <<v1, v2, v3, v4, v5, v6, v7, pc>>
        PROVE  CompareInv'
    BY <1>1 DEF CompareInv, Underway, SoFarEqual, AllPlain, Fragments
  <1> QED
    BY <1>1, EpochsGoOn, OuterGoesOn, RunsLoop, ZerosLoop, DigitsLoop, Zenon DEF Compare!Next

-----------------------------------------------------------------------------
(* The layer of an rpm *)

ExtractP == INSTANCE RpmExtractProofs WITH
    file <- v1, full <- v2, left <- v3, pending <- v4, order <- v5, tar <- v6

\* RpmExtractProofs is about the paths of Tools, ...
LEMMA ExtractAssumed == Extract!ExtractAssumption => ExtractP!ExtractAssumption
  BY Zenon
  DEF Extract!Names, ExtractP!Names, Extract!ExtractAssumption, ExtractP!ExtractAssumption,
      Extract!IsFiniteSet, ExtractP!IsFiniteSet

\* ... its walk begins in the same way ...
LEMMA ExtractBegins == Extract!Init => ExtractP!Init
  BY Zenon
  DEF Extract!Files, ExtractP!Files, Extract!Names, ExtractP!Names, Extract!Init,
      ExtractP!Init

\* ... and takes the same steps.
LEMMA ExtractGoesOn == [Extract!Next]_Extract!vars => [ExtractP!Next]_ExtractP!vars
  BY Zenon
  DEF Extract!Files, ExtractP!Files, Extract!Names, ExtractP!Names, Extract!MergedUsr,
      ExtractP!MergedUsr, Extract!package, ExtractP!package, Extract!vars, ExtractP!vars,
      Extract!Links, ExtractP!Links, Extract!Linked, ExtractP!Linked, Extract!HasBytes,
      ExtractP!HasBytes, Extract!Identify, ExtractP!Identify, Extract!Held, ExtractP!Held,
      Extract!Release, ExtractP!Release, Extract!Bytes, ExtractP!Bytes, Extract!Regular,
      ExtractP!Regular, Extract!TooLong, ExtractP!TooLong, Extract!WriteSet,
      ExtractP!WriteSet, Extract!Consume, ExtractP!Consume, Extract!Strip, ExtractP!Strip,
      Extract!HandOver, ExtractP!HandOver, Extract!Hold, ExtractP!Hold, Extract!Write,
      ExtractP!Write, Extract!Copy, ExtractP!Copy, Extract!PayloadEnds,
      ExtractP!PayloadEnds, Extract!Flush, ExtractP!Flush, Extract!Next, ExtractP!Next,
      Extract!Cardinality, ExtractP!Cardinality

\* What is proved there of the tar is what is said of it here.
LEMMA ExtractShowsKept ==
    ASSUME ExtractP!ExtractInv
    PROVE  Extract!ShippedOnce /\ Extract!LinksLookBack /\ Extract!ContentKept
  <1>1. ExtractP!ShippedOnce /\ ExtractP!LinksLookBack /\ ExtractP!ContentKept
    BY ExtractP!InvKeepsContent, ExtractP!InvShipsOnce DEF ExtractP!ExtractInv
  <1> QED
    BY <1>1, Zenon
    DEF Extract!MergedUsr, ExtractP!MergedUsr, Extract!Shipped, ExtractP!Shipped, Extract!At,
        ExtractP!At, Extract!Unpacked, ExtractP!Unpacked, Extract!ContentKept,
        ExtractP!ContentKept, Extract!LinksLookBack, ExtractP!LinksLookBack,
        Extract!ShippedOnce, ExtractP!ShippedOnce

-----------------------------------------------------------------------------
(* All of them *)

\* What holds of the tool a behaviour is a run of.
ToolsInv ==
    /\ tool = "extract" => ExtractP!ExtractInv
    /\ tool = "closure" => ClosureInv
    /\ tool = "events" => EventsInv
    /\ tool = "needs" => NeedsInv
    /\ tool = "report" => ReportInv
    /\ tool = "list" => ListInv
    /\ tool = "bundle" => BundleInv
    /\ tool = "compare" => CompareInv

\* A run begins with the beginning of its tool.
LEMMA ToolsBegin == Init => ToolsInv
  <1> SUFFICES ASSUME Init PROVE ToolsInv
    OBVIOUS
  <1>1. /\ tool = "extract" => Extract!Init
        /\ tool = "closure" => Closure!Init
        /\ tool = "events" => Events!Init
        /\ tool = "needs" => Needs!Init
        /\ tool = "report" => Tables!Init
        /\ tool = "list" => List!Init
        /\ tool = "bundle" => Bundle!Init
        /\ tool = "compare" => Compare!Init
    BY DEF Init
  <1>2. /\ Extract!ExtractAssumption /\ Closure!ClosureAssumption /\ List!ListAssumption
        /\ Bundle!BundleAssumption /\ Compare!TextsAssumption
    BY ToolsAssumption DEF ToolsAssumption
  <1>3. tool = "extract" => ExtractP!ExtractInv
    BY <1>1, <1>2, ExtractAssumed, ExtractBegins, ExtractP!ExtractInit
  <1>4. tool = "closure" => ClosureInv
    BY <1>1, <1>2, ClosureBegins
  <1>5. tool = "events" => EventsInv
    BY <1>1, EventsBegins
  <1>6. tool = "needs" => NeedsInv
    BY <1>1, NeedsBegins
  <1>7. tool = "report" => ReportInv
    BY <1>1, ReportBegins
  <1>8. tool = "list" => ListInv
    BY <1>1, <1>2, ListBegins
  <1>9. tool = "bundle" => BundleInv
    BY <1>1, <1>2, BundleBegins
  <1>10. tool = "compare" => CompareInv
    BY <1>1, <1>2, CompareBegins
  <1> QED
    BY <1>3, <1>4, <1>5, <1>6, <1>7, <1>8, <1>9, <1>10 DEF ToolsInv

\* A step is one of the tool's.
LEMMA OneTool ==
    ASSUME [Next]_vars
    PROVE  /\ tool' = tool
           /\ tool = "extract" => [Extract!Next]_Extract!vars
           /\ tool = "closure" => Closure!Next \/ UNCHANGED <<v1, v2, v3, v4, v5, pc>>
           /\ tool = "events" => Events!Next \/ UNCHANGED <<v1, v2, v3, v4, v5, v6, pc>>
           /\ tool = "needs" => Needs!Check \/ UNCHANGED <<v1, v2, v3, v4, pc>>
           /\ tool = "report" => Tables!Render \/ UNCHANGED <<v1, v2, v3, v4, pc>>
           /\ tool = "list" => List!Group \/ UNCHANGED <<v1, v2, pc>>
           /\ tool = "bundle" => Bundle!Next \/ UNCHANGED <<v1, v2, v3, v4, v5, pc>>
           /\ tool = "compare" => Compare!Next \/ UNCHANGED <<v1, v2, v3, v4, v5, v6, v7, pc>>
  <1>1. CASE Next
    BY <1>1 DEF Next, Loop, Function
  <1>2. CASE UNCHANGED vars
    BY <1>2 DEF vars, Extract!vars, Extract!package
  <1> QED
    BY <1>1, <1>2

\* A step keeps to it.
LEMMA ToolsGoOn ==
    ASSUME ToolsInv, [Next]_vars
    PROVE  ToolsInv'
  <1>1. /\ Extract!ExtractAssumption /\ Closure!ClosureAssumption /\ Events!EventsAssumption
        /\ Needs!NeedsAssumption /\ Bundle!BundleAssumption
    BY ToolsAssumption DEF ToolsAssumption
  <1>2. tool' = tool
    BY OneTool
  <1>3. ASSUME tool = "extract"
        PROVE  ExtractP!ExtractInv'
    <2>1. ExtractP!ExtractInv /\ [ExtractP!Next]_ExtractP!vars /\ ExtractP!ExtractAssumption
      BY <1>1, <1>3, OneTool, ExtractGoesOn, ExtractAssumed DEF ToolsInv
    <2> QED
      BY <2>1, ExtractP!ExtractNext
  <1>4. ASSUME tool = "closure"
        PROVE  ClosureInv'
    <2>1. ClosureInv
      BY <1>4 DEF ToolsInv
    <2>2. ASSUME UNCHANGED <<v1, v2, v3, v4, v5, pc>>
          PROVE  ClosureInv'
      <3>1. Reach' = Reach /\ RootsOf' = RootsOf /\ EdgesOf' = EdgesOf
        BY <2>2, ReachStays
      <3>2. Closure!Keys' = Closure!Keys /\ Closure!ArchSet' = Closure!ArchSet
        BY DEF Closure!Keys, Closure!Names, Closure!ArchSet
      <3> QED
        BY <2>1, <2>2, <3>1, <3>2 DEF ClosureInv
    <2> QED
      BY <1>1, <1>4, <2>1, <2>2, OneTool, ClosureGoesOn
  <1>5. ASSUME tool = "events"
        PROVE  EventsInv'
    <2>1. EventsInv
      BY <1>5 DEF ToolsInv
    <2>2. ASSUME UNCHANGED <<v1, v2, v3, v4, v5, v6, pc>>
          PROVE  EventsInv'
      BY <2>1, <2>2 DEF EventsInv, ReadInv, WalkInv
    <2> QED
      BY <1>1, <1>5, <2>1, <2>2, OneTool, EventsGoesOn
  <1>6. ASSUME tool = "needs"
        PROVE  NeedsInv'
    BY <1>1, <1>6, OneTool, NeedsGoesOn DEF ToolsInv
  <1>7. ASSUME tool = "report"
        PROVE  ReportInv'
    BY <1>7, OneTool, ReportGoesOn DEF ToolsInv
  <1>8. ASSUME tool = "list"
        PROVE  ListInv'
    BY <1>8, OneTool, ListGoesOn DEF ToolsInv
  <1>9. ASSUME tool = "bundle"
        PROVE  BundleInv'
    BY <1>1, <1>9, OneTool, BundleGoesOn DEF ToolsInv
  <1>10. ASSUME tool = "compare"
         PROVE  CompareInv'
    BY <1>10, OneTool, CompareGoesOn DEF ToolsInv
  <1> QED
    BY <1>2, <1>3, <1>4, <1>5, <1>6, <1>7, <1>8, <1>9, <1>10 DEF ToolsInv

\* The invariant holds in every run, whatever the tool and its input.
LEMMA ToolsInvariant == Spec => []ToolsInv
  BY ToolsBegin, ToolsGoOn, PTL DEF Spec

-----------------------------------------------------------------------------
\* Any rpm becomes a layer with every shipped path once and its file's bytes,
\* whatever its links, its empty files, the paths dropped from it and the order of
\* its entries (writePayloadAsTar).
THEOREM LayersAreWhole == Spec => []ContentKept
  <1>1. ToolsInv => ContentKept
    BY ExtractShowsKept DEF ToolsInv, ContentKept
  <1> QED
    BY <1>1, ToolsInvariant, PTL

\* On any repository, cycles and all, the worklist of pin ends with everything the
\* declared packages reach on the first architecture, and with nothing that they
\* reach on none (closeDeps, pickProvider).
THEOREM ClosureIsExact == Spec => []ClosureExact
  <1>1. Closure!ClosureAssumption
    BY ToolsAssumption DEF ToolsAssumption
  <1>2. ToolsInv => ClosureExact
    BY <1>1, ClosureShowsExact DEF ToolsInv, ClosureExact
  <1> QED
    BY <1>2, ToolsInvariant, PTL

\* For any file sets, shared or with a cycle, and any completions, in any order of
\* the events, the hash of a label is over the outputs of its successful
\* configurations and no others (OutputDigests, hashOutputs).
THEOREM DigestsAreExact == Spec => []DigestsExact
  <1>1. Events!EventsAssumption
    BY ToolsAssumption DEF ToolsAssumption
  <1>2. ToolsInv => DigestsExact
    BY <1>1, EventsShowExact DEF ToolsInv, DigestsExact
  <1> QED
    BY <1>2, ToolsInvariant, PTL

\* For any image, with chains and cycles of links and of includes of any length, every
\* file that cannot load fails, and another only where a limit cuts a chain off; and
\* elfneeds passes exactly when the allow list names those that fail and each allow
\* is the first to match one (check, fileInRoot, ldSoConfDirs).
THEOREM VerdictsAreExact == Spec => []VerdictExact
  <1>1. ToolsInv => VerdictExact
    BY DEF ToolsInv, NeedsInv, VerdictExact
  <1> QED
    BY <1>1, ToolsInvariant, PTL

\* For any scan, whatever is aliased, repeated or of another architecture in it, and
\* any VEX document, every match shown is in exactly one row of the page, open unless
\* it is set aside, the rows are in order and add up, and a document that changes the
\* page changes its validator (NewReport, suppress, Fingerprint).
THEOREM ReportsAreExact == Spec => []ReportExact
  <1>1. Tables!ScanAssumption
    BY ToolsAssumption DEF ToolsAssumption
  <1>2. ToolsInv => ReportExact
    BY <1>1, ReportShows, SameFingerprint DEF ToolsInv, ReportExact
  <1> QED
    BY <1>2, ToolsInvariant, PTL

\* For any tags on any builds, the versions page lists each tag once, under its own
\* build, in one order, whatever the order the registry has them in (NewVersions,
\* compareRelease).
THEOREM ListsAreExact == Spec => []ListExact
  <1>1. List!ListAssumption
    BY ToolsAssumption DEF ToolsAssumption
  <1>2. ToolsInv => ListExact
    BY <1>1, ListShows DEF ToolsInv, ListExact
  <1> QED
    BY <1>2, ToolsInvariant, PTL

\* From any trust file of certificates, restrictions on them and flaws, in any order,
\* the bundle is of exactly the certificates that are trusted, not distrusted, alive
\* and not restricted to something else by the last word on their key, in the order
\* of the file, and only a flaw makes it be refused (parseP11Kit,
\* extractServerAnchors).
THEOREM AnchorsAreExact == Spec => []AnchorsExact
  <1>1. ToolsInv => AnchorsExact
    BY DEF ToolsInv, BundleInv, AnchorsExact
  <1> QED
    BY <1>1, ToolsInvariant, PTL

\* Any two versions whose fragments are numbers with single separators compare as
\* deb-version(7) says, whatever their lengths, leading zeros, tildes and letters
\* (CompareVersion, compareFragment).
THEOREM PlainVersionsAgree == Spec => []PlainAgrees
  <1>1. ToolsInv => PlainAgrees
    <2> SUFFICES ASSUME CompareInv PROVE Compare!PlainAgrees
      BY DEF ToolsInv, PlainAgrees
    <2> SUFFICES ASSUME pc = "done", AllPlain PROVE Compare!Sign(v7) = Compare!Dpkg(v1, v2)
      BY Zenon DEF Compare!PlainAgrees, AllPlain
    <2> QED
      BY Zenon DEF CompareInv, Underway
  <1> QED
    BY <1>1, ToolsInvariant, PTL
=============================================================================
