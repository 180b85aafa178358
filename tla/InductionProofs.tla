-------------------------- MODULE InductionProofs --------------------------
(***************************************************************************)
(* Induction without an operator parameter, and what follows from it: a step *)
(* that is repeated, loops that end, and sums over a finite set.              *)
(***************************************************************************)
EXTENDS Integers, FiniteSets, FiniteSetsExt, WellFoundedInduction, FiniteSetTheorems, TLAPS

\* Every set of numbers has a smallest.
LEMMA Least ==
  ASSUME NEW T \in SUBSET Nat, T # {}
  PROVE  \E n \in T : \A m \in T : n <= m
<1> DEFINE R == OpToRel(<, Nat)
<1>1. IsWellFoundedOn(R, Nat)
  BY NatLessThanWellFounded
<1>2. \E x \in T : \A y \in T : ~(<<y, x>> \in R)
  <2> HIDE DEF R
  <2> QED BY <1>1, WFMin
<1>3. \A x, y \in Nat : y < x => <<y, x>> \in R
  BY DEF OpToRel
<1> HIDE DEF R
<1>4. PICK x \in T : \A y \in T : ~(<<y, x>> \in R)
  BY <1>2
<1>5. \A y \in T : x \in Nat /\ y \in Nat /\ ~(y < x)
  BY <1>3, <1>4
<1>6. \A y \in T : x <= y
  BY <1>5
<1> QED
  BY <1>6

\* Induction: the numbers that have a property are a set.
LEMMA Induction ==
  ASSUME NEW S, 0 \in S, \A n \in Nat : n \in S => n + 1 \in S
  PROVE  \A n \in Nat : n \in S
<1> DEFINE T == {n \in Nat : n \notin S}
<1>1. CASE T = {}
  BY <1>1
<1>2. CASE T # {}
  <2>1. PICK n \in T : \A m \in T : n <= m
    BY <1>2, Least
  <2>2. n \in Nat /\ n # 0 /\ n \notin S
    BY <2>1
  <2>3. n - 1 \in Nat /\ n - 1 \notin T
    BY <2>1, <2>2
  <2> QED
    BY <2>2, <2>3
<1> QED
  BY <1>1, <1>2

\* A step repeated n times from x stays in what it keeps.
Runs(f, x, n, G) == \A k \in 0 .. n : f[k] = IF k = 0 THEN x ELSE G[<<f[k - 1], k>>]

LEMMA Repeated ==
  ASSUME NEW S, NEW x \in S, NEW n \in Nat, NEW G \in [S \X (1 .. n) -> S]
  PROVE  \E f \in [0 .. n -> S] : Runs(f, x, n, G)
<1> DEFINE D == {m \in Nat : m <= n => \E f \in [0 .. m -> S] :
                   \A k \in 0 .. m : f[k] = IF k = 0 THEN x ELSE G[<<f[k - 1], k>>]}
<1>1. 0 \in D
  <2>1. [k \in 0 .. 0 |-> x] \in [0 .. 0 -> S]
    OBVIOUS
  <2>2. \A k \in 0 .. 0 : [j \in 0 .. 0 |-> x][k] = IF k = 0 THEN x ELSE G[<<[j \in 0 .. 0 |-> x][k - 1], k>>]
    OBVIOUS
  <2> QED
    BY <2>1, <2>2
<1>2. ASSUME NEW m \in Nat, m \in D PROVE m + 1 \in D
  <2>1. SUFFICES ASSUME m + 1 <= n
                 PROVE  \E f \in [0 .. m + 1 -> S] :
                          \A k \in 0 .. m + 1 : f[k] = IF k = 0 THEN x ELSE G[<<f[k - 1], k>>]
    OBVIOUS
  <2>2. PICK f \in [0 .. m -> S] :
          \A k \in 0 .. m : f[k] = IF k = 0 THEN x ELSE G[<<f[k - 1], k>>]
    BY <1>2, <2>1
  <2> DEFINE g == [k \in 0 .. m + 1 |-> IF k <= m THEN f[k] ELSE G[<<f[m], m + 1>>]]
  <2>3. G[<<f[m], m + 1>>] \in S
    BY <2>1
  <2>4. g \in [0 .. m + 1 -> S]
    BY <2>3
  <2>5. \A k \in 0 .. m : g[k] = f[k] /\ (k # 0 => g[k - 1] = f[k - 1])
    OBVIOUS

  <2>6. g[m + 1] = G[<<g[m], (m + 1)>>] /\ (m + 1) - 1 = m
    <3>1. m + 1 \in 0 .. m + 1 /\ ~(m + 1 <= m) /\ m \in 0 .. m + 1 /\ (m + 1) - 1 = m
      OBVIOUS
    <3>2. g[m + 1] = G[<<f[m], m + 1>>]
      BY <3>1
    <3>3. g[m] = f[m]
      BY <3>1
    <3> QED
      BY <3>1, <3>2, <3>3
  <2>7. \A k \in 0 .. m + 1 : k \in 0 .. m \/ k = m + 1
    OBVIOUS
  <2> HIDE DEF g
  <2>8. ASSUME NEW k \in 0 .. m + 1 PROVE g[k] = IF k = 0 THEN x ELSE G[<<g[k - 1], k>>]
    <3>1. CASE k \in 0 .. m
      BY <2>2, <2>5, <3>1
    <3>2. CASE k = m + 1
      BY <2>6, <3>2
    <3> QED
      BY <2>7, <3>1, <3>2
  <2> QED
    BY <2>4, <2>8
<1> HIDE DEF D
<1>3. n \in D
  BY <1>1, <1>2, Induction
<1> QED
  BY <1>3 DEF D, Runs

----------------------------------------------------------------------------
(* Loops: a recursive function that returns where it stops. *)

Looping(f, S, Stop, Step) == f = [s \in S |-> IF Stop[s] THEN s ELSE f[Step[s]]]

\* Each round is nearer to the end, which is at most n rounds away.
Nearer(left, S, Stop, Step) ==
  \A s \in S : ~Stop[s] => Step[s] \in S /\ left[Step[s]] < left[s]

\* Such a loop ends: the function exists.
LEMMA LoopExists ==
  ASSUME NEW S, NEW n \in Nat, NEW left \in [S -> 0 .. n], NEW Stop, NEW Step,
         Nearer(left, S, Stop, Step)
  PROVE  \E f : Looping(f, S, Stop, Step)
<1> DEFINE Once(f, s) == f[s] = IF Stop[s] THEN s ELSE f[Step[s]]
           UpTo(f, m) == \A s \in S : left[s] <= m => Once(f, s)
           D == {m \in Nat : \E f \in [S -> S] : UpTo(f, m)}
<1>1. ASSUME NEW f \in [S -> S], NEW m \in Nat, UpTo(f, m)
      PROVE  \E g \in [S -> S] : UpTo(g, m + 1)
  <2> DEFINE g == [s \in S |-> IF Stop[s] THEN s ELSE f[Step[s]]]
  <2>1. g \in [S -> S]
    BY DEF Nearer
  <2>2. ASSUME NEW s \in S, left[s] <= m + 1 PROVE Once(g, s)
    <3>1. CASE Stop[s]
      BY <3>1
    <3>2. CASE ~Stop[s]
      <4>1. Step[s] \in S /\ left[Step[s]] <= m
        <5>1. Step[s] \in S /\ left[Step[s]] < left[s]
          BY <3>2 DEF Nearer
        <5>2. left[s] \in Int /\ left[Step[s]] \in Int
          BY <5>1
        <5> QED
          BY <2>2, <5>1, <5>2
      <4>2. Once(f, Step[s])
        BY <1>1, <4>1
      <4>3. g[Step[s]] = f[Step[s]]
        BY <4>1, <4>2
      <4> QED
        BY <3>2, <4>3
    <3> QED
      BY <3>1, <3>2
  <2> HIDE DEF g
  <2> QED
    BY <2>1, <2>2
<1>2. 0 \in D
  <2>1. [s \in S |-> s] \in [S -> S]
    OBVIOUS
  <2>2. ASSUME NEW s \in S, left[s] <= 0 PROVE Stop[s]
    <3>1. \A r \in S : left[r] \in 0 .. n
      OBVIOUS
    <3>2. ~Stop[s] => Step[s] \in S /\ left[Step[s]] < left[s]
      BY DEF Nearer
    <3> QED
      BY <2>2, <3>1, <3>2
  <2>3. UpTo([r \in S |-> r], 0)
    BY <2>2
  <2> QED
    BY <2>1, <2>3
<1>3. ASSUME NEW m \in Nat, m \in D PROVE m + 1 \in D
  <2>1. PICK f \in [S -> S] : UpTo(f, m)
    BY <1>3
  <2> HIDE DEF UpTo
  <2>2. \E g \in [S -> S] : UpTo(g, m + 1)
    BY <1>1, <2>1
  <2> QED
    BY <2>2
<1>4. n \in D
  <2> HIDE DEF D
  <2> QED
    BY <1>2, <1>3, Induction
<1>5. PICK f \in [S -> S] : \A s \in S : left[s] <= n => Once(f, s)
  BY <1>4
<1>6. \A s \in S : Once(f, s)
  <2>1. \A s \in S : left[s] <= n
    OBVIOUS
  <2> QED
    BY <1>5, <2>1
<1>7. f = [s \in S |-> IF Stop[s] THEN s ELSE f[Step[s]]]
  BY <1>5, <1>6
<1> QED
  BY <1>7 DEF Looping

\* What each round keeps holds where it stops.
Keeps(I, Stop, Step) == \A s \in I : ~Stop[s] => Step[s] \in I

LEMMA LoopEnds ==
  ASSUME NEW S, NEW n \in Nat, NEW left \in [S -> 0 .. n], NEW Stop, NEW Step,
         Nearer(left, S, Stop, Step), NEW f, Looping(f, S, Stop, Step),
         NEW I \in SUBSET S, Keeps(I, Stop, Step), NEW x \in I
  PROVE  f[x] \in I /\ Stop[f[x]]
<1> DEFINE Ends(s) == f[s] \in I /\ Stop[f[s]]
           D == {m \in Nat : \A s \in I : left[s] <= m => Ends(s)}
<1>1. ASSUME NEW m \in Int, \A s \in I : left[s] <= m => Ends(s)
      PROVE  \A s \in I : left[s] <= m + 1 => Ends(s)
  <2>1. ASSUME NEW s \in I, left[s] <= m + 1 PROVE Ends(s)
    <3>1. CASE Stop[s]
      BY <3>1 DEF Looping
    <3>2. CASE ~Stop[s]
      <4>1. Step[s] \in I /\ left[Step[s]] <= m
        <5>1. Step[s] \in I /\ left[Step[s]] < left[s]
          BY <3>2 DEF Nearer, Keeps
        <5>2. left[s] \in Int /\ left[Step[s]] \in Int
          BY <5>1
        <5> QED
          BY <2>1, <5>1, <5>2
      <4>2. Ends(Step[s])
        BY <1>1, <4>1
      <4>3. f[s] = f[Step[s]]
        BY <3>2 DEF Looping
      <4> QED
        BY <4>2, <4>3
    <3> QED
      BY <3>1, <3>2
  <2> QED
    BY <2>1
<1>2. 0 \in D
  <2>1. \A s \in I : left[s] <= -1 => Ends(s)
    <3>1. \A s \in I : left[s] \in 0 .. n
      OBVIOUS
    <3>2. \A s \in I : ~(left[s] <= -1)
      BY <3>1
    <3> QED
      BY <3>2
  <2> HIDE DEF Ends
  <2>2. \A s \in I : left[s] <= -1 + 1 => Ends(s)
    BY <1>1, <2>1
  <2> QED
    BY <2>2
<1>3. \A m \in Nat : m \in D => m + 1 \in D
  BY <1>1
<1>4. n \in D
  <2> HIDE DEF D
  <2> QED
    BY <1>2, <1>3, Induction
<1>5. left[x] <= n
  OBVIOUS
<1> QED
  BY <1>4, <1>5

----------------------------------------------------------------------------
(* Sums. *)

AddUp(w, S) == MapThenSumSet(LAMBDA x : w[x], S)
Pick(s) == CHOOSE x \in s : TRUE

\* f has the sums over all subsets of S.
Sums(f, w, S) ==
  /\ f \in [SUBSET S -> Int]
  /\ \A s \in SUBSET S : f[s] = IF s = {} THEN 0 ELSE w[Pick(s)] + f[s \ {Pick(s)}]

LEMMA Parts ==
  ASSUME NEW S, IsFiniteSet(S), NEW s \in SUBSET S
  PROVE  /\ IsFiniteSet(s) /\ Cardinality(s) \in Nat /\ Cardinality(s) <= Cardinality(S)
         /\ Cardinality(s) = 0 <=> s = {}
         /\ s # {} => /\ Pick(s) \in s /\ Pick(s) \in S /\ s \ {Pick(s)} \in SUBSET S
         /\ \A x \in s : Cardinality(s \ {x}) = Cardinality(s) - 1
<1>1. IsFiniteSet(s) /\ Cardinality(s) <= Cardinality(S)
  BY FS_Subset
<1>2. Cardinality(s) \in Nat
  BY <1>1, FS_CardinalityType
<1>3. Cardinality(s) = 0 <=> s = {}
  BY <1>1, FS_EmptySet
<1>4. \A x \in s : Cardinality(s \ {x}) = Cardinality(s) - 1
  BY <1>1, FS_RemoveElement
<1>5. s # {} => Pick(s) \in s
  BY DEF Pick
<1> QED
  BY <1>1, <1>2, <1>3, <1>4, <1>5

LEMMA SumsExist ==
  ASSUME NEW S, IsFiniteSet(S), NEW w \in [S -> Int]
  PROVE  \E f : Sums(f, w, S)
<1> DEFINE Eq(f, s) == f[s] = IF s = {} THEN 0 ELSE w[Pick(s)] + f[s \ {Pick(s)}]
           D == {n \in Nat : \E f \in [SUBSET S -> Int] :
                               \A s \in SUBSET S : Cardinality(s) <= n => Eq(f, s)}
<1>1. 0 \in D
  <2> DEFINE f == [s \in SUBSET S |-> 0]
  <2>1. ASSUME NEW s \in SUBSET S, Cardinality(s) <= 0 PROVE s = {}
    BY <2>1, Parts
  <2>2. f \in [SUBSET S -> Int] /\ \A s \in SUBSET S : Cardinality(s) <= 0 => Eq(f, s)
    BY <2>1
  <2> QED
    BY <2>2
<1>2. ASSUME NEW n \in Nat, n \in D PROVE n + 1 \in D
  <2>1. PICK f \in [SUBSET S -> Int] : \A s \in SUBSET S : Cardinality(s) <= n => Eq(f, s)
    BY <1>2
  <2> DEFINE g == [s \in SUBSET S |-> IF Cardinality(s) <= n THEN f[s]
                     ELSE IF s = {} THEN 0 ELSE w[Pick(s)] + f[s \ {Pick(s)}]]
  <2>2. g \in [SUBSET S -> Int]
    <3>1. ASSUME NEW s \in SUBSET S, s # {} PROVE w[Pick(s)] + f[s \ {Pick(s)}] \in Int
      <4>1. Pick(s) \in S /\ s \ {Pick(s)} \in SUBSET S
        BY <3>1, Parts
      <4>2. w[Pick(s)] \in Int /\ f[s \ {Pick(s)}] \in Int
        BY <4>1
      <4> QED
        BY <4>2
    <3> QED
      BY <3>1
  <2>3. \A s \in SUBSET S : g[s] = IF Cardinality(s) <= n THEN f[s]
                     ELSE IF s = {} THEN 0 ELSE w[Pick(s)] + f[s \ {Pick(s)}]
    OBVIOUS
  <2> HIDE DEF g
  <2>4. ASSUME NEW s \in SUBSET S, Cardinality(s) <= n + 1 PROVE Eq(g, s)
    <3>1. CASE s = {}
      <4>1. Cardinality(s) <= n
        BY <3>1, FS_EmptySet
      <4> QED
        BY <2>1, <2>3, <3>1, <4>1
    <3>2. CASE s # {}
      <4>1. /\ Pick(s) \in s /\ s \ {Pick(s)} \in SUBSET S /\ Cardinality(s) \in Nat
            /\ Cardinality(s \ {Pick(s)}) = Cardinality(s) - 1
        BY <3>2, Parts
      <4>2. Cardinality(s \ {Pick(s)}) <= n
        BY <2>4, <4>1
      <4>3. g[s \ {Pick(s)}] = f[s \ {Pick(s)}]
        BY <2>3, <4>1, <4>2
      <4>4. g[s] = w[Pick(s)] + f[s \ {Pick(s)}]
        <5>1. CASE Cardinality(s) <= n
          BY <2>1, <2>3, <3>2, <5>1
        <5>2. CASE ~(Cardinality(s) <= n)
          BY <2>3, <3>2, <5>2
        <5> QED
          BY <5>1, <5>2
      <4> QED
        BY <3>2, <4>3, <4>4
    <3> QED
      BY <3>1, <3>2
  <2> QED
    BY <2>2, <2>4
<1>3. Cardinality(S) \in Nat
  BY FS_CardinalityType
<1>4. Cardinality(S) \in D
  <2> HIDE DEF D
  <2> QED
    BY <1>1, <1>2, <1>3, Induction
<1>5. PICK f \in [SUBSET S -> Int] : \A s \in SUBSET S : Cardinality(s) <= Cardinality(S) => Eq(f, s)
  BY <1>4
<1>6. \A s \in SUBSET S : Eq(f, s)
  BY <1>5, Parts
<1> QED
  BY <1>6 DEF Sums

\* The sums over subsets of Z are determined by the summands there.
Steps(f, w, S) == \A s \in SUBSET S : f[s] = IF s = {} THEN 0 ELSE w[Pick(s)] + f[s \ {Pick(s)}]
Agree(f, g, Z) == \A x \in Z : f[x] = g[x]

LEMMA SameSums ==
  ASSUME NEW S, IsFiniteSet(S), NEW f, NEW w, NEW g, NEW v, Steps(f, w, S), Steps(g, v, S),
         NEW Z \in SUBSET S, Agree(w, v, Z)
  PROVE  Agree(f, g, SUBSET Z)
<1> DEFINE D == {n \in Nat : \A s \in SUBSET Z : Cardinality(s) = n => f[s] = g[s]}
<1>1. 0 \in D
  <2>1. \A s \in SUBSET Z : Cardinality(s) = 0 => s = {}
    BY Parts
  <2>2. f[{}] = 0 /\ g[{}] = 0
    BY DEF Steps
  <2> QED
    BY <2>1, <2>2
<1>2. ASSUME NEW n \in Nat, n \in D PROVE n + 1 \in D
  <2>1. ASSUME NEW s \in SUBSET Z, Cardinality(s) = n + 1 PROVE f[s] = g[s]
    <3>1. s \in SUBSET S /\ s # {}
      BY <2>1, FS_EmptySet
    <3>2. /\ Pick(s) \in s /\ s \ {Pick(s)} \in SUBSET Z
          /\ Cardinality(s \ {Pick(s)}) = Cardinality(s) - 1
      BY <3>1, Parts
    <3>3. f[s \ {Pick(s)}] = g[s \ {Pick(s)}]
      BY <1>2, <2>1, <3>2
    <3>4. w[Pick(s)] = v[Pick(s)]
      BY <3>2 DEF Agree
    <3> QED
      BY <3>1, <3>3, <3>4 DEF Steps
  <2> QED
    BY <2>1
<1>3. ASSUME NEW s \in SUBSET Z PROVE f[s] = g[s]
  <2>1. Cardinality(s) \in Nat
    BY Parts
  <2>2. Cardinality(s) \in D
    <3> HIDE DEF D
    <3> QED
      BY <1>1, <1>2, <2>1, Induction
  <2> QED
    BY <2>2
<1> QED
  BY <1>3 DEF Agree

\* That function is what AddUp is defined with.
LEMMA AddUpIs ==
  ASSUME NEW S, IsFiniteSet(S), NEW w \in [S -> Int]
  PROVE  \E f : Sums(f, w, S) /\ AddUp(w, S) = f[S]
<1> DEFINE Is(f) == f = [s \in SUBSET S |-> IF s = {} THEN 0
                           ELSE w[CHOOSE x \in s : TRUE] + f[s \ {CHOOSE x \in s : TRUE}]]
           it == CHOOSE f : Is(f)
<1>1. AddUp(w, S) = it[S]
  BY DEF AddUp, MapThenSumSet, MapThenFoldSet
<1>2. PICK f : Sums(f, w, S)
  BY SumsExist
<1>3. Is(f)
  BY <1>2 DEF Sums, Pick
<1>4. Is(it)
  BY <1>3
<1>5. Steps(it, w, S) /\ Steps(f, w, S)
  BY <1>2, <1>4, ZenonT(60) DEF Steps, Sums, Pick
<1> HIDE DEF it
<1>6. it[S] = f[S]
  <2>1. S \in SUBSET S /\ Agree(w, w, S)
    BY DEF Agree
  <2>2. Agree(it, f, SUBSET S)
    BY <1>5, <2>1, SameSums
  <2> QED
    BY <2>1, <2>2 DEF Agree
<1> QED
  BY <1>1, <1>2, <1>6

\* An element more is a summand more, whichever it is.
Adds(f, w, S) == \A s \in SUBSET S : \A x \in S \ s : f[s \cup {x}] = w[x] + f[s]

LEMMA OneMore ==
  ASSUME NEW S, IsFiniteSet(S), NEW w \in [S -> Int], NEW f, Sums(f, w, S)
  PROVE  Adds(f, w, S)
<1> DEFINE D == {n \in Nat : \A s \in SUBSET S : \A x \in S \ s :
                   Cardinality(s) = n => f[s \cup {x}] = w[x] + f[s]}
<1>1. ASSUME NEW s \in SUBSET S, NEW x \in S \ s, Pick(s \cup {x}) = x
      PROVE  f[s \cup {x}] = w[x] + f[s]
  <2>1. s \cup {x} \in SUBSET S /\ s \cup {x} # {} /\ (s \cup {x}) \ {x} = s
    OBVIOUS
  <2> QED
    BY <1>1, <2>1 DEF Sums
<1>2. 0 \in D
  <2>1. ASSUME NEW s \in SUBSET S, NEW x \in S \ s, Cardinality(s) = 0
        PROVE  f[s \cup {x}] = w[x] + f[s]
    <3>1. s = {}
      BY <2>1, Parts
    <3>2. Pick(s \cup {x}) = x
      BY <3>1 DEF Pick
    <3> QED
      BY <1>1, <3>2
  <2> QED
    BY <2>1
<1>3. ASSUME NEW n \in Nat, n \in D PROVE n + 1 \in D
  <2>1. ASSUME NEW s \in SUBSET S, NEW x \in S \ s, Cardinality(s) = n + 1, Pick(s \cup {x}) # x
        PROVE  f[s \cup {x}] = w[x] + f[s]
    <3> DEFINE t == s \cup {x}
               y == Pick(s \cup {x})
               r == s \ {y}
    <3>1. t \in SUBSET S /\ t # {}
      OBVIOUS
    <3>2. y \in t
      BY <3>1, Parts
    <3>3. y \in s /\ y \in S /\ r \in SUBSET S /\ x \in S \ r /\ y \in S \ r
      BY <2>1, <3>2
    <3>4. t \ {y} = r \cup {x} /\ r \cup {y} = s
      BY <2>1, <3>3
    <3>5. Cardinality(r) = n
      <4>1. Cardinality(s \ {y}) = Cardinality(s) - 1
        BY <3>3, Parts
      <4> QED
        BY <2>1, <4>1
    <3>6. f[t] = w[y] + f[t \ {y}]
      BY <3>1 DEF Sums
    <3>7. f[r \cup {x}] = w[x] + f[r] /\ f[r \cup {y}] = w[y] + f[r]
      BY <1>3, <3>3, <3>5
    <3>8. w[x] \in Int /\ w[y] \in Int /\ f[r] \in Int
      BY <3>3 DEF Sums
    <3> HIDE DEF t, y, r
    <3>9. f[t] = w[y] + (w[x] + f[r]) /\ f[s] = w[y] + f[r]
      BY <3>4, <3>6, <3>7
    <3>10. f[t] = w[x] + f[s]
      BY <3>8, <3>9
    <3> QED
      BY <3>10 DEF t
  <2> QED
    BY <1>1, <2>1
<1>4. ASSUME NEW s \in SUBSET S PROVE \A x \in S \ s : f[s \cup {x}] = w[x] + f[s]
  <2>1. Cardinality(s) \in Nat
    BY Parts
  <2>2. Cardinality(s) \in D
    <3> HIDE DEF D
    <3> QED
      BY <1>2, <1>3, <2>1, Induction
  <2> QED
    BY <2>2
<1> QED
  BY <1>4 DEF Adds

\* Two elements can be taken out of the sum.
TwoOut(f, w, S, p, q) == Sums(f, w, S) /\ AddUp(w, S) = w[q] + (w[p] + f[S \ {p, q}])

LEMMA AddTwo ==
  ASSUME NEW S, IsFiniteSet(S), NEW w \in [S -> Int], NEW p \in S, NEW q \in S \ {p}
  PROVE  \E f : TwoOut(f, w, S, p, q)
<1> DEFINE Z == S \ {p, q}
<1>1. PICK f : Sums(f, w, S) /\ AddUp(w, S) = f[S]
  BY AddUpIs
<1>2. Z \in SUBSET S /\ p \in S \ Z /\ Z \cup {p} \in SUBSET S /\ q \in S \ (Z \cup {p})
      /\ (Z \cup {p}) \cup {q} = S
  OBVIOUS
<1>3. Adds(f, w, S)
  BY <1>1, OneMore
<1> HIDE DEF Z
<1>4. f[Z \cup {p}] = w[p] + f[Z] /\ f[(Z \cup {p}) \cup {q}] = w[q] + f[Z \cup {p}]
  BY <1>2, <1>3 DEF Adds
<1>5. f[S] = w[q] + (w[p] + f[Z])
  BY <1>2, <1>4
<1> QED
  BY <1>1, <1>5 DEF Z, TwoOut

\* What moves from one summand to another leaves the sum alone.
LEMMA AddUpMoved ==
  ASSUME NEW S, IsFiniteSet(S), NEW w \in [S -> Int], NEW v \in [S -> Int],
         NEW p \in S, NEW q \in S \ {p},
         \A x \in S \ {p, q} : v[x] = w[x], v[p] + v[q] = w[p] + w[q]
  PROVE  AddUp(v, S) = AddUp(w, S)
<1>1. PICK f : TwoOut(f, w, S, p, q)
  BY AddTwo
<1>2. PICK g : TwoOut(g, v, S, p, q)
  BY AddTwo
<1> DEFINE Z == S \ {p, q}
<1>3. Z \in SUBSET S /\ Z \in SUBSET Z /\ Agree(w, v, Z)
  BY DEF Agree
<1>4. Steps(f, w, S) /\ Steps(g, v, S) /\ f[Z] \in Int
  BY <1>1, <1>2, <1>3 DEF Sums, Steps, TwoOut
<1>5. f[Z] = g[Z]
  <2> HIDE DEF Z
  <2>1. Agree(f, g, SUBSET Z)
    BY <1>3, <1>4, SameSums
  <2> QED
    BY <1>3, <2>1 DEF Agree
<1>6. w[p] \in Int /\ w[q] \in Int /\ v[p] \in Int /\ v[q] \in Int
  OBVIOUS
<1> DEFINE a == w[p]
           b == w[q]
           c == v[p]
           d == v[q]
           z == f[Z]
<1>7. AddUp(w, S) = b + (a + z) /\ AddUp(v, S) = d + (c + z)
  BY <1>1, <1>2, <1>5 DEF TwoOut
<1>8. a \in Int /\ b \in Int /\ c \in Int /\ d \in Int /\ z \in Int /\ c + d = a + b
  BY <1>4, <1>6
<1> HIDE DEF a, b, c, d, z
<1> QED
  BY <1>7, <1>8

\* A sum of integers is one.
LEMMA AddUpType ==
  ASSUME NEW S, IsFiniteSet(S), NEW w \in [S -> Int]
  PROVE  AddUp(w, S) \in Int
<1>1. PICK f : Sums(f, w, S) /\ AddUp(w, S) = f[S]
  BY AddUpIs
<1> QED
  BY <1>1 DEF Sums

LEMMA AddUpNat ==
  ASSUME NEW S, IsFiniteSet(S), NEW w \in [S -> Nat]
  PROVE  AddUp(w, S) \in Nat
<1>1. w \in [S -> Int]
  OBVIOUS
<1>2. PICK f : Sums(f, w, S) /\ AddUp(w, S) = f[S]
  BY <1>1, AddUpIs
<1> DEFINE D == {n \in Nat : \A s \in SUBSET S : Cardinality(s) = n => f[s] \in Nat}
<1>3. 0 \in D
  BY <1>2, Parts DEF Sums
<1>4. ASSUME NEW n \in Nat, n \in D PROVE n + 1 \in D
  <2>1. ASSUME NEW s \in SUBSET S, Cardinality(s) = n + 1 PROVE f[s] \in Nat
    <3>1. s # {} /\ Pick(s) \in S /\ Pick(s) \in s /\ s \ {Pick(s)} \in SUBSET S
          /\ Cardinality(s \ {Pick(s)}) = n
      BY <2>1, Parts
    <3>2. f[s \ {Pick(s)}] \in Nat
      BY <1>4, <3>1
    <3>3. w[Pick(s)] \in Nat
      BY <3>1
    <3>4. f[s] = w[Pick(s)] + f[s \ {Pick(s)}]
      BY <1>2, <3>1 DEF Sums
    <3> QED
      BY <3>2, <3>3, <3>4
  <2> QED
    BY <2>1
<1>5. Cardinality(S) \in D
  <2> HIDE DEF D
  <2> QED
    BY <1>3, <1>4, Induction, FS_CardinalityType
<1> QED
  BY <1>2, <1>5

============================================================================
