---------------------------- MODULE TimersProofs ----------------------------
(***************************************************************************)
(* Theorems about Timers, for any number of timers: the heap stays a heap,   *)
(* and no id is used twice.                                                  *)
(***************************************************************************)
EXTENDS Timers, InductionProofs, SequenceTheorems

----------------------------------------------------------------------------
(* Positions.  *)

LEMMA Half ==
  /\ \A j \in Nat : j >= 2 => j \div 2 \in Nat /\ 1 <= j \div 2 /\ j \div 2 < j
  /\ \A j, k \in Nat : j \div 2 = k <=> (j = 2 * k \/ j = 2 * k + 1)
OBVIOUS

\* The heap g of n elements is ordered but for the element at k: the rest is, and
\* what is above k expires before what is below it.
Near(g, k, T, n) ==
  /\ \A j \in 2 .. n : j # k /\ j \div 2 # k => T[g[j \div 2]] <= T[g[j]]
  /\ k > 1 => \A j \in 2 .. n : j \div 2 = k => T[g[k \div 2]] <= T[g[j]]

\* That element fits under its parent, and over its children.
Under(g, k, T) == k > 1 => T[g[k \div 2]] <= T[g[k]]
Over(g, k, T, n) == \A j \in 2 .. n : j \div 2 = k => T[g[k]] <= T[g[j]]

OrderedTo(g, T, n) == \A j \in 2 .. n : T[g[j \div 2]] <= T[g[j]]

\* An element that fits on both sides leaves the heap ordered.
LEMMA NearOrdered ==
  ASSUME NEW n \in Nat, NEW g, NEW T, NEW k \in 1 .. n,
         Near(g, k, T, n), Under(g, k, T), Over(g, k, T, n)
  PROVE  OrderedTo(g, T, n)
BY DEF Near, Under, Over, OrderedTo

IsSwapped(s, g, k, j, n) ==
  \A i \in 1 .. n : s[i] = IF i = j THEN g[k] ELSE IF i = k THEN g[j] ELSE g[i]

LEMMA SwappedFacts ==
  ASSUME NEW n \in Nat, NEW X, NEW g \in [1 .. n -> X], NEW k \in 1 .. n, NEW j \in 1 .. n
  PROVE  /\ Swapped(g, k, j) \in [1 .. n -> X]
         /\ IsSwapped(Swapped(g, k, j), g, k, j, n)
BY DEF Swapped, IsSwapped

LEMMA SwappedSame ==
  ASSUME NEW n \in Nat, NEW X, NEW g \in [1 .. n -> X], NEW k \in 1 .. n, NEW j \in 1 .. n, IsInjective(g)
  PROVE  IsInjective(Swapped(g, k, j)) /\ Range(Swapped(g, k, j)) = Range(g)
<1> DEFINE s == Swapped(g, k, j)
<1>1. /\ s \in [1 .. n -> X]
      /\ \A i \in 1 .. n : s[i] = IF i = j THEN g[k] ELSE IF i = k THEN g[j] ELSE g[i]
  <2>1. s \in [1 .. n -> X] /\ IsSwapped(s, g, k, j, n)
    BY SwappedFacts
  <2> QED
    BY <2>1 DEF IsSwapped
<1> HIDE DEF s
<1>2. DOMAIN s = 1 .. n /\ DOMAIN g = 1 .. n
  BY <1>1
<1>3. IsInjective(s)
  BY <1>1, <1>2 DEF IsInjective
<1>4. ASSUME NEW i \in 1 .. n PROVE s[i] \in Range(g) /\ g[i] \in Range(s)
  <2>1. s[i] \in {g[k], g[j], g[i]}
    BY <1>1
  <2>2. s[j] = g[k] /\ (s[k] = g[j]) /\ (i # j /\ i # k => s[i] = g[i])
    BY <1>1
  <2> QED
    BY <1>2, <2>1, <2>2 DEF Range
<1>5. Range(s) = Range(g)
  BY <1>2, <1>4 DEF Range
<1> QED
  BY <1>3, <1>5 DEF s

\* One round up.
LEMMA RoundUp ==
  ASSUME NEW n \in Nat, NEW X, NEW g \in [1 .. n -> X], NEW T \in [X -> Int], NEW k \in 2 .. n,
         Near(g, k, T, n), ~(T[g[k \div 2]] < T[g[k]])
  PROVE  /\ Near(Swapped(g, k, k \div 2), k \div 2, T, n)
         /\ Over(Swapped(g, k, k \div 2), k \div 2, T, n)
<1> DEFINE p == k \div 2
           s == Swapped(g, k, p)
<1>1. p \in 1 .. n /\ p < k /\ k \in 1 .. n /\ p \in Nat
  <2>1. k \in Nat /\ k >= 2 /\ 1 <= k /\ k <= n
    OBVIOUS
  <2>2. p \in Nat /\ 1 <= p /\ p < k
    BY <2>1, Half
  <2> QED
    BY <2>1, <2>2
<1>2. /\ s \in [1 .. n -> X]
      /\ \A i \in 1 .. n : s[i] = IF i = p THEN g[k] ELSE IF i = k THEN g[p] ELSE g[i]
  <2>1. s \in [1 .. n -> X] /\ IsSwapped(s, g, k, p, n)
    BY <1>1, SwappedFacts
  <2> QED
    BY <2>1 DEF IsSwapped
<1>3. \A j \in 2 .. n : j \in 1 .. n /\ j \div 2 \in 1 .. n /\ j \div 2 < j
  BY Half
<1>4. p > 1 => p \div 2 \in 1 .. n /\ p \div 2 < p /\ p \in 2 .. n
  BY <1>1, Half
<1>5. \A i \in 1 .. n : T[g[i]] \in Int
  OBVIOUS
<1>6. T[g[k]] <= T[g[p]]
  BY <1>1, <1>5
<1> HIDE DEF s
<1>7. ASSUME NEW j \in 2 .. n, j \div 2 = p PROVE T[s[p]] <= T[s[j]]
  <2>1. CASE j = k
    BY <1>1, <1>2, <1>6, <2>1
  <2>2. CASE j # k
    <3>1. T[g[p]] <= T[g[j]]
      BY <1>1, <1>7, <2>2 DEF Near
    <3>2. s[j] = g[j] /\ s[p] = g[k]
      BY <1>1, <1>2, <1>3, <1>7, <2>2
    <3> QED
      BY <1>1, <1>3, <1>5, <1>6, <3>1, <3>2
  <2> QED
    BY <2>1, <2>2
<1>8. ASSUME NEW j \in 2 .. n, j # p, j \div 2 # p PROVE T[s[j \div 2]] <= T[s[j]]
  <2>1. CASE j \div 2 = k
    <3>1. T[g[p]] <= T[g[j]]
      BY <2>1 DEF Near
    <3>2. s[j] = g[j] /\ s[j \div 2] = g[p]
      BY <1>1, <1>2, <1>3, <1>8, <2>1
    <3> QED
      BY <3>1, <3>2
  <2>2. CASE j \div 2 # k
    <3>1. j # k
      BY <1>8
    <3>2. T[g[j \div 2]] <= T[g[j]]
      BY <2>2, <3>1 DEF Near
    <3>3. s[j] = g[j] /\ s[j \div 2] = g[j \div 2]
      BY <1>2, <1>3, <1>8, <2>2, <3>1
    <3> QED
      BY <3>2, <3>3
  <2> QED
    BY <2>1, <2>2
<1>9. ASSUME p > 1, NEW j \in 2 .. n, j \div 2 = p PROVE T[s[p \div 2]] <= T[s[j]]
  <2>1. p \div 2 # k /\ p # k
    BY <1>1, <1>4, <1>9
  <2>2. s[p \div 2] = g[p \div 2]
    BY <1>2, <1>4, <1>9, <2>1
  <2>3. T[g[p \div 2]] <= T[g[p]]
    BY <1>4, <1>9, <2>1 DEF Near
  <2>4. s[j] = (IF j = k THEN g[p] ELSE g[j])
    BY <1>2, <1>3, <1>9
  <2>5. j # k => T[g[p]] <= T[g[j]]
    BY <1>1, <1>9 DEF Near
  <2> QED
    BY <1>1, <1>3, <1>4, <1>5, <1>9, <2>2, <2>3, <2>4, <2>5
<1> HIDE DEF p
<1>10. Near(s, p, T, n)
  BY <1>8, <1>9 DEF Near
<1>11. Over(s, p, T, n)
  BY <1>7 DEF Over
<1> QED
  BY <1>10, <1>11 DEF s, p

\* One round down, to the child c that no other child is before.
LEMMA RoundDown ==
  ASSUME NEW n \in Nat, NEW X, NEW g \in [1 .. n -> X], NEW T \in [X -> Int],
         NEW k \in 1 .. n, NEW c \in 2 .. n, c \div 2 = k,
         \A j \in 2 .. n : j \div 2 = k => T[g[c]] <= T[g[j]],
         Near(g, k, T, n), Under(g, k, T), T[g[c]] <= T[g[k]]
  PROVE  Near(Swapped(g, k, c), c, T, n) /\ Under(Swapped(g, k, c), c, T)
<1> DEFINE s == Swapped(g, k, c)
<1>1. k < c /\ c \in 1 .. n
  <2>1. c \in Nat /\ c >= 2 /\ 1 <= c /\ c <= n
    OBVIOUS
  <2> QED
    BY <2>1, Half
<1>2. /\ s \in [1 .. n -> X]
      /\ \A i \in 1 .. n : s[i] = IF i = c THEN g[k] ELSE IF i = k THEN g[c] ELSE g[i]
  <2>1. s \in [1 .. n -> X] /\ IsSwapped(s, g, k, c, n)
    BY <1>1, SwappedFacts
  <2> QED
    BY <2>1 DEF IsSwapped
<1>3. \A j \in 2 .. n : j \in 1 .. n /\ j \div 2 \in 1 .. n /\ j \div 2 < j
  BY Half
<1>4. \A i \in 1 .. n : T[g[i]] \in Int
  OBVIOUS
<1> HIDE DEF s
<1>5. Under(s, c, T)
  BY <1>1, <1>2 DEF Under
<1>6. ASSUME NEW j \in 2 .. n, j # c, j \div 2 # c PROVE T[s[j \div 2]] <= T[s[j]]
  <2>1. CASE j = k
    <3>1. T[g[k \div 2]] <= T[g[c]]
      BY <2>1 DEF Near
    <3>2. s[j] = g[c] /\ s[j \div 2] = g[k \div 2]
      BY <1>2, <1>3, <1>6, <2>1
    <3> QED
      BY <2>1, <3>1, <3>2
  <2>2. CASE j \div 2 = k
    <3>1. T[g[c]] <= T[g[j]]
      BY <2>2
    <3>2. j \in 1 .. n /\ k \in 1 .. n /\ j # k /\ k # c /\ j # c
      BY <1>1, <1>3, <1>6, <2>2
    <3>3. s[j] = g[j] /\ s[k] = g[c]
      BY <1>2, <3>2
    <3> QED
      BY <2>2, <3>1, <3>3
  <2>3. CASE j # k /\ j \div 2 # k
    <3>1. T[g[j \div 2]] <= T[g[j]]
      BY <2>3 DEF Near
    <3>2. s[j] = g[j] /\ s[j \div 2] = g[j \div 2]
      BY <1>2, <1>3, <1>6, <2>3
    <3> QED
      BY <3>1, <3>2
  <2> QED
    BY <2>1, <2>2, <2>3
<1>7. ASSUME NEW j \in 2 .. n, j \div 2 = c PROVE T[s[c \div 2]] <= T[s[j]]
  <2>1. j # k /\ j \div 2 # k /\ j # c
    BY <1>1, <1>3, <1>7
  <2>2. T[g[c]] <= T[g[j]]
    BY <1>7, <2>1 DEF Near
  <2>3. s[j] = g[j] /\ s[c \div 2] = g[c]
    BY <1>1, <1>2, <1>3, <2>1
  <2> QED
    BY <2>2, <2>3
<1>8. Near(s, c, T, n)
  BY <1>6, <1>7 DEF Near
<1> QED
  BY <1>5, <1>8 DEF s

----------------------------------------------------------------------------
(* The two loops. *)

\* The place at in a heap with the elements of h is all that is left to repair.
Settled(at, h, T, n) ==
  /\ at \in [1 .. n -> Range(h)] \X (1 .. n)
  /\ IsInjective(at[1]) /\ Range(at[1]) = Range(h)
  /\ Near(at[1], at[2], T, n)

UpStop(at, T) == at[2] = 1 \/ T[at[1][at[2] \div 2]] < T[at[1][at[2]]]
UpStep(at) == <<Swapped(at[1], at[2], at[2] \div 2), at[2] \div 2>>

LEMMA RangeFacts ==
  ASSUME NEW n \in Nat, NEW X, NEW h \in [1 .. n -> X]
  PROVE  Range(h) \subseteq X /\ h \in [1 .. n -> Range(h)]
BY DEF Range

LEMMA SiftUpSettles ==
  ASSUME NEW n \in Nat, NEW X, NEW h \in [1 .. n -> X], NEW T \in [X -> Int], NEW i \in 1 .. n,
         IsInjective(h), Near(h, i, T, n)
  PROVE  /\ Settled(SiftUp(h, i, T), h, T, n)
         /\ Under(SiftUp(h, i, T)[1], SiftUp(h, i, T)[2], T)
         /\ Over(h, i, T, n) => Over(SiftUp(h, i, T)[1], SiftUp(h, i, T)[2], T, n)
<1> DEFINE S == [1 .. n -> Range(h)] \X (1 .. n)
           Is(f) == f = [at \in Places(h) |->
                           IF at[2] = 1 \/ T[at[1][at[2] \div 2]] < T[at[1][at[2]]] THEN at
                           ELSE f[<<Swapped(at[1], at[2], at[2] \div 2), at[2] \div 2>>]]
           up == CHOOSE f : Is(f)
           Stop == [at \in S |-> UpStop(at, T)]
           Step == [at \in S |-> UpStep(at)]
           left == [at \in S |-> at[2]]
           I == {at \in S : Settled(at, h, T, n) /\ (Over(h, i, T, n) => Over(at[1], at[2], T, n))}
<1>1. Places(h) = S /\ Range(h) \subseteq X /\ <<h, i>> \in S
  BY RangeFacts DEF Places
<1>2. \A f : Is(f) <=> Looping(f, S, Stop, Step)
  <2>1. ASSUME NEW f, Looping(f, S, Stop, Step) PROVE Is(f)
    BY <1>1, <2>1 DEF Looping, UpStop, UpStep
  <2>2. ASSUME NEW f, Is(f) PROVE Looping(f, S, Stop, Step)
    BY <1>1, <2>2 DEF Looping, UpStop, UpStep
  <2> QED
    BY <2>1, <2>2
<1>3. ASSUME NEW at \in S, ~Stop[at]
      PROVE  /\ at[2] \in 2 .. n /\ at[2] \div 2 \in 1 .. n /\ at[2] \div 2 < at[2]
             /\ at[1] \in [1 .. n -> Range(h)] /\ Step[at] = UpStep(at) /\ Step[at] \in S
             /\ ~(T[at[1][at[2] \div 2]] < T[at[1][at[2]]])
  <2>1. at[1] \in [1 .. n -> Range(h)] /\ at[2] \in 1 .. n
    OBVIOUS
  <2>2. at[2] # 1 /\ ~(T[at[1][at[2] \div 2]] < T[at[1][at[2]]])
    BY <1>3 DEF UpStop
  <2>3. at[2] \in Nat /\ at[2] >= 2 /\ at[2] \in 2 .. n
    BY <2>1, <2>2
  <2>4. at[2] \div 2 \in 1 .. n /\ at[2] \div 2 < at[2]
    BY <2>1, <2>3, Half
  <2>5. Swapped(at[1], at[2], at[2] \div 2) \in [1 .. n -> Range(h)]
    BY <2>1, <2>4, SwappedFacts
  <2>6. UpStep(at) \in S
    BY <2>4, <2>5 DEF UpStep
  <2> QED
    BY <2>1, <2>2, <2>3, <2>4, <2>6
<1>4. ASSUME NEW at \in I, ~Stop[at] PROVE Step[at] \in I
  <2> DEFINE g == at[1]
             k == at[2]
             p == k \div 2
  <2>1. /\ at \in S /\ Settled(at, h, T, n)
        /\ k \in 2 .. n /\ p \in 1 .. n /\ g \in [1 .. n -> Range(h)] /\ k \in 1 .. n
        /\ Step[at] = UpStep(at) /\ Step[at] \in S /\ ~(T[g[p]] < T[g[k]])
    BY <1>3, <1>4
  <2>2. IsInjective(g) /\ Range(g) = Range(h) /\ Near(g, k, T, n) /\ g \in [1 .. n -> X]
    BY <1>1, <2>1 DEF Settled
  <2>3. Near(Swapped(g, k, p), p, T, n) /\ Over(Swapped(g, k, p), p, T, n)
    <3> HIDE DEF g, k
    <3> QED
      BY <2>1, <2>2, RoundUp
  <2>4. IsInjective(Swapped(g, k, p)) /\ Range(Swapped(g, k, p)) = Range(h)
    <3> HIDE DEF g, k, p
    <3> QED
      BY <2>1, <2>2, SwappedSame
  <2>5. Step[at] = <<Swapped(g, k, p), p>>
    BY <2>1 DEF UpStep
  <2> HIDE DEF g, k, p, Step
  <2>6. Step[at][1] = Swapped(g, k, p) /\ Step[at][2] = p
    BY <2>5
  <2> QED
    BY <2>1, <2>3, <2>4, <2>6 DEF Settled
<1>5. left \in [S -> 0 .. n] /\ Nearer(left, S, Stop, Step) /\ Keeps(I, Stop, Step)
  <2>1. left \in [S -> 0 .. n]
    OBVIOUS
  <2>2. ASSUME NEW at \in S, ~Stop[at] PROVE Step[at] \in S /\ left[Step[at]] < left[at]
    BY <1>3, <2>2 DEF UpStep
  <2>3. Nearer(left, S, Stop, Step)
    BY <2>2 DEF Nearer
  <2>4. Keeps(I, Stop, Step)
    <3> HIDE DEF I, Stop, Step
    <3> QED
      BY <1>4 DEF Keeps
  <2> QED
    BY <2>1, <2>3, <2>4
<1>6. <<h, i>> \in I
  BY <1>1 DEF Settled
<1>7. SiftUp(h, i, T) = up[<<h, i>>]
  BY DEF SiftUp
<1>8. \A at \in S : Stop[at] = UpStop(at, T)
  OBVIOUS
<1>9. I \in SUBSET S /\ \A at \in I : Settled(at, h, T, n) /\ (Over(h, i, T, n) => Over(at[1], at[2], T, n))
  OBVIOUS
<1> HIDE DEF S, Stop, Step, left, I, Is
<1>10. PICK f : Looping(f, S, Stop, Step)
  BY <1>5, LoopExists
<1>11. Looping(up, S, Stop, Step)
  BY <1>2, <1>10
<1> HIDE DEF up
<1>12. up[<<h, i>>] \in I /\ Stop[up[<<h, i>>]]
  BY <1>5, <1>6, <1>9, <1>11, LoopEnds
<1> DEFINE r == SiftUp(h, i, T)
<1>13. r \in I /\ r \in S /\ UpStop(r, T)
  BY <1>7, <1>8, <1>9, <1>12
<1>14. Settled(r, h, T, n) /\ (Over(h, i, T, n) => Over(r[1], r[2], T, n))
  BY <1>9, <1>13
<1> HIDE DEF r
<1>15. Under(r[1], r[2], T)
  <2>1. r[1] \in [1 .. n -> X] /\ r[2] \in 1 .. n
    BY <1>1, <1>14 DEF Settled
  <2>2. ASSUME r[2] > 1 PROVE T[r[1][r[2] \div 2]] <= T[r[1][r[2]]]
    <3>1. r[2] \div 2 \in 1 .. n
      BY <2>1, <2>2, Half, SMTT(30)
    <3>2. T[r[1][r[2] \div 2]] \in Int /\ T[r[1][r[2]]] \in Int
      BY <2>1, <3>1
    <3>3. T[r[1][r[2] \div 2]] < T[r[1][r[2]]]
      BY <1>13, <2>1, <2>2 DEF UpStop
    <3> QED
      BY <3>2, <3>3
  <2> QED
    BY <2>2 DEF Under
<1> QED
  BY <1>14, <1>15 DEF r

Kids(g, k) == {2 * k, 2 * k + 1} \cap DOMAIN g
Kid(g, k, T) == IF 2 * k + 1 \in Kids(g, k) /\ T[g[2 * k + 1]] < T[g[2 * k]] THEN 2 * k + 1 ELSE 2 * k
DownStop(at, T) == \A j \in Kids(at[1], at[2]) : T[at[1][at[2]]] <= T[at[1][j]]
DownStep(at, T) == <<Swapped(at[1], at[2], Kid(at[1], at[2], T)), Kid(at[1], at[2], T)>>

First(c, g, k, T, n) == \A j \in 2 .. n : j \div 2 = k => T[g[c]] <= T[g[j]]

LEMMA KidFacts ==
  ASSUME NEW n \in Nat, NEW X, NEW g \in [1 .. n -> X], NEW T \in [X -> Int], NEW k \in 1 .. n
  PROVE  /\ DownStop(<<g, k>>, T) <=> Over(g, k, T, n)
         /\ ~DownStop(<<g, k>>, T) =>
              /\ Kid(g, k, T) \in 2 .. n /\ Kid(g, k, T) \div 2 = k /\ k < Kid(g, k, T)
              /\ First(Kid(g, k, T), g, k, T, n)
              /\ T[g[Kid(g, k, T)]] <= T[g[k]]
<1> DEFINE c == Kid(g, k, T)
<1>1. /\ k \in Nat /\ 1 <= k /\ 2 * k \in Nat /\ 2 * k + 1 \in Nat /\ 2 <= 2 * k /\ k < 2 * k
      /\ (2 * k) \div 2 = k /\ (2 * k + 1) \div 2 = k
  BY Half
<1>2. \A j : j \in Kids(g, k) <=> j \in 2 .. n /\ j \div 2 = k
  <2>1. \A j : j \in Kids(g, k) <=> (j = 2 * k \/ j = 2 * k + 1) /\ j \in 1 .. n
    BY DEF Kids
  <2>2. ASSUME NEW j \in 2 .. n, j \div 2 = k PROVE j = 2 * k \/ j = 2 * k + 1
    <3>1. j \in Nat
      OBVIOUS
    <3> QED
      BY <1>1, <2>2, <3>1, Half
  <2>3. ASSUME NEW j \in 1 .. n, j = 2 * k \/ j = 2 * k + 1 PROVE j \in 2 .. n /\ j \div 2 = k
    <3>1. j \div 2 = k
      BY <1>1, <2>3
    <3>2. 2 <= j
      BY <1>1, <2>3
    <3> QED
      BY <3>1, <3>2
  <2>4. \A j \in 2 .. n : j \in 1 .. n
    OBVIOUS
  <2> QED
    BY <2>1, <2>2, <2>3, <2>4
<1>3. \A j \in 1 .. n : T[g[j]] \in Int
  OBVIOUS
<1>4. DownStop(<<g, k>>, T) <=> Over(g, k, T, n)
  BY <1>2 DEF DownStop, Over
<1>5. ASSUME ~DownStop(<<g, k>>, T)
      PROVE  c \in 2 .. n /\ c \div 2 = k /\ k < c /\ First(c, g, k, T, n) /\ T[g[c]] <= T[g[k]]
  <2>1. PICK j \in Kids(g, k) : ~(T[g[k]] <= T[g[j]])
    BY <1>5 DEF DownStop
  <2>2. j \in 2 .. n /\ j \div 2 = k
    BY <1>2, <2>1
  <2>3. (j = 2 * k \/ j = 2 * k + 1) /\ 2 * k \in 2 .. n
    BY <1>1, <2>1, <2>2 DEF Kids
  <2>4. c \in Kids(g, k)
    BY <1>1, <1>2, <2>3 DEF Kid
  <2>5. c \in 2 .. n /\ c \div 2 = k
    BY <1>2, <2>4
  <2>6. k < c
    BY <1>1 DEF Kid
  <2>7. ASSUME NEW m \in 2 .. n, m \div 2 = k PROVE T[g[c]] <= T[g[m]]
    <3>1. m \in Kids(g, k) /\ (m = 2 * k \/ m = 2 * k + 1) /\ m \in 1 .. n /\ 2 * k \in 1 .. n
      BY <1>2, <2>3, <2>7 DEF Kids
    <3>2. CASE c = 2 * k + 1 /\ m = 2 * k
      <4>1. c # 2 * k
        BY <1>1, <3>2
      <4>2. T[g[2 * k + 1]] < T[g[2 * k]]
        BY <4>1 DEF Kid
      <4>3. T[g[c]] \in Int /\ T[g[m]] \in Int
        BY <1>3, <2>4, <3>1 DEF Kids
      <4> QED
        BY <3>2, <4>2, <4>3
    <3>3. CASE c = 2 * k /\ m = 2 * k + 1
      <4>1. ~(T[g[2 * k + 1]] < T[g[2 * k]])
        BY <1>1, <3>1, <3>3 DEF Kid
      <4>2. T[g[c]] \in Int /\ T[g[m]] \in Int
        BY <1>3, <3>1, <3>3
      <4> QED
        BY <3>3, <4>1, <4>2
    <3>4. CASE c = m
      BY <1>3, <3>1, <3>4
    <3>5. c = 2 * k \/ c = 2 * k + 1
      BY DEF Kid
    <3> QED
      BY <3>1, <3>2, <3>3, <3>4, <3>5
  <2>8. T[g[c]] <= T[g[j]]
    BY <2>2, <2>7
  <2>9. T[g[c]] <= T[g[k]]
    <3>1. c \in 1 .. n /\ j \in 1 .. n
      BY <2>2, <2>5
    <3>2. T[g[c]] \in Int /\ T[g[j]] \in Int /\ T[g[k]] \in Int
      BY <1>3, <3>1
    <3> HIDE DEF c
    <3> QED
      BY <2>1, <2>8, <3>2
  <2> QED
    BY <2>5, <2>6, <2>7, <2>9 DEF First
<1> QED
  BY <1>4, <1>5

\* d is a heap with the elements of h.
Sorted(d, h, T, n) ==
  d \in [1 .. n -> Range(h)] /\ IsInjective(d) /\ Range(d) = Range(h) /\ OrderedTo(d, T, n)

LEMMA SiftDownOrders ==
  ASSUME NEW n \in Nat, NEW X, NEW h \in [1 .. n -> X], NEW T \in [X -> Int], NEW i \in 1 .. n,
         IsInjective(h), Near(h, i, T, n), Under(h, i, T)
  PROVE  Sorted(SiftDown(h, i, T), h, T, n)
<1> DEFINE S == [1 .. n -> Range(h)] \X (1 .. n)
           Is(f) == f = [at \in Places(h) |->
                           IF \A j \in {2 * at[2], 2 * at[2] + 1} \cap DOMAIN at[1] :
                                T[at[1][at[2]]] <= T[at[1][j]]
                           THEN at ELSE f[DownStep(at, T)]]
           down == CHOOSE f : Is(f)
           Stop == [at \in S |-> DownStop(at, T)]
           Step == [at \in S |-> DownStep(at, T)]
           left == [at \in S |-> n - at[2]]
           I == {at \in S : Settled(at, h, T, n) /\ Under(at[1], at[2], T)}
<1>1. Places(h) = S /\ Range(h) \subseteq X /\ <<h, i>> \in S
  BY RangeFacts DEF Places
<1>2. \A f : Is(f) <=> Looping(f, S, Stop, Step)
  <2>1. ASSUME NEW f, Looping(f, S, Stop, Step) PROVE Is(f)
    BY <1>1, <2>1 DEF Looping, DownStop, Kids
  <2>2. ASSUME NEW f, Is(f) PROVE Looping(f, S, Stop, Step)
    BY <1>1, <2>2 DEF Looping, DownStop, Kids
  <2> QED
    BY <2>1, <2>2
<1>3. ASSUME NEW at \in S
      PROVE  /\ Stop[at] <=> Over(at[1], at[2], T, n)
             /\ at[1] \in [1 .. n -> Range(h)] /\ at[1] \in [1 .. n -> X] /\ at[2] \in 1 .. n
             /\ ~Stop[at] =>
                  LET c == Kid(at[1], at[2], T)
                  IN  /\ c \in 2 .. n /\ c \in 1 .. n /\ c \div 2 = at[2] /\ at[2] < c
                      /\ First(c, at[1], at[2], T, n) /\ T[at[1][c]] <= T[at[1][at[2]]]
                      /\ Step[at] = DownStep(at, T) /\ Step[at] \in S
  <2> DEFINE g == at[1]
             k == at[2]
             c == Kid(g, k, T)
  <2>1. /\ g \in [1 .. n -> Range(h)] /\ g \in [1 .. n -> X] /\ k \in 1 .. n
        /\ at = <<g, k>> /\ Stop[at] = DownStop(at, T) /\ Step[at] = DownStep(at, T)
    BY <1>1
  <2>2. DownStep(at, T) = <<Swapped(g, k, c), c>>
    BY DEF DownStep
  <2> HIDE DEF g, k, Stop, Step
  <2>3. Stop[at] <=> Over(g, k, T, n)
    BY <2>1, KidFacts
  <2>4. ASSUME ~Stop[at]
        PROVE  /\ c \in 2 .. n /\ c \in 1 .. n /\ c \div 2 = k /\ k < c
               /\ First(c, g, k, T, n) /\ T[g[c]] <= T[g[k]] /\ Step[at] \in S
    <3>1. /\ c \in 2 .. n /\ c \div 2 = k /\ k < c
          /\ First(c, g, k, T, n) /\ T[g[c]] <= T[g[k]]
      BY <2>1, <2>4, KidFacts
    <3> HIDE DEF c
    <3>2. c \in 1 .. n
      BY <3>1
    <3>3. Swapped(g, k, c) \in [1 .. n -> Range(h)]
      BY <2>1, <3>2, SwappedFacts
    <3>4. <<Swapped(g, k, c), c>> \in S
      BY <3>2, <3>3
    <3> HIDE DEF S
    <3>5. Step[at] \in S
      BY <2>1, <2>2, <3>4 DEF c
    <3> QED
      BY <3>1, <3>2, <3>5
  <2> QED
    BY <2>1, <2>3, <2>4 DEF g, k
<1>4. ASSUME NEW at \in I, ~Stop[at] PROVE Step[at] \in I
  <2> DEFINE g == at[1]
             k == at[2]
             c == Kid(g, k, T)
  <2>1. /\ at \in S /\ Settled(at, h, T, n) /\ Under(g, k, T)
        /\ g \in [1 .. n -> X] /\ k \in 1 .. n
        /\ c \in 2 .. n /\ c \in 1 .. n /\ c \div 2 = k
        /\ First(c, g, k, T, n) /\ T[g[c]] <= T[g[k]]
        /\ Step[at] = DownStep(at, T) /\ Step[at] \in S
    <3>1. at \in S /\ Settled(at, h, T, n) /\ Under(g, k, T)
      OBVIOUS
    <3> HIDE DEF S, I, Step, Stop
    <3> QED
      BY <1>3, <1>4, <3>1
  <2>2. IsInjective(g) /\ Range(g) = Range(h) /\ Near(g, k, T, n)
    BY <2>1 DEF Settled
  <2>3. Step[at] = <<Swapped(g, k, c), c>>
    BY <2>1 DEF DownStep
  <2> HIDE DEF g, k, c, Step, S, Stop
  <2>4. Near(Swapped(g, k, c), c, T, n) /\ Under(Swapped(g, k, c), c, T)
    <3>1. \A j \in 2 .. n : j \div 2 = k => T[g[c]] <= T[g[j]]
      BY <2>1 DEF First
    <3> QED
      BY <2>1, <2>2, <3>1, RoundDown
  <2>5. IsInjective(Swapped(g, k, c)) /\ Range(Swapped(g, k, c)) = Range(h)
    BY <2>1, <2>2, SwappedSame
  <2>6. Step[at][1] = Swapped(g, k, c) /\ Step[at][2] = c
    BY <2>3
  <2> QED
    BY <2>1, <2>4, <2>5, <2>6 DEF Settled, S
<1>5. left \in [S -> 0 .. n] /\ Nearer(left, S, Stop, Step) /\ Keeps(I, Stop, Step)
  <2>1. left \in [S -> 0 .. n]
    OBVIOUS
  <2>2. ASSUME NEW at \in S, ~Stop[at] PROVE Step[at] \in S /\ left[Step[at]] < left[at]
    <3>1. /\ Step[at] \in S /\ Step[at] = DownStep(at, T) /\ at[2] \in 1 .. n
          /\ at[2] < Kid(at[1], at[2], T) /\ Kid(at[1], at[2], T) \in 1 .. n
      <4> HIDE DEF S, Step, Stop
      <4> QED
        BY <1>3, <2>2
    <3>2. Step[at][2] = Kid(at[1], at[2], T)
      <4> HIDE DEF S, Step
      <4> QED
        BY <3>1 DEF DownStep
    <3>3. left[Step[at]] = n - Step[at][2] /\ left[at] = n - at[2]
      <4> HIDE DEF Step
      <4> QED
        BY <3>1
    <3> HIDE DEF S, Step, left
    <3> QED
      BY <3>1, <3>2, <3>3
  <2>3. Nearer(left, S, Stop, Step)
    BY <2>2 DEF Nearer
  <2>4. Keeps(I, Stop, Step)
    <3> HIDE DEF I, Stop, Step
    <3> QED
      BY <1>4 DEF Keeps
  <2> QED
    BY <2>1, <2>3, <2>4
<1>6. <<h, i>> \in I
  BY <1>1 DEF Settled
<1>7. SiftDown(h, i, T) = down[<<h, i>>][1]
  BY DEF SiftDown, DownStep, Kid, Kids
<1>9. I \in SUBSET S /\ \A at \in I : Settled(at, h, T, n) /\ Under(at[1], at[2], T)
  OBVIOUS
<1> HIDE DEF Stop, Step, left, I, Is
<1>10. PICK f : Looping(f, S, Stop, Step)
  <2> HIDE DEF S
  <2> QED
    BY <1>5, LoopExists
<1>11. Looping(down, S, Stop, Step)
  BY <1>2, <1>10
<1> HIDE DEF down
<1>12. down[<<h, i>>] \in I /\ Stop[down[<<h, i>>]]
  <2> HIDE DEF S
  <2> QED
    BY <1>5, <1>6, <1>9, <1>11, LoopEnds
<1> DEFINE r == down[<<h, i>>]
<1>13. Settled(r, h, T, n) /\ Under(r[1], r[2], T) /\ Over(r[1], r[2], T, n)
  <2>1. r \in S
    BY <1>9, <1>12
  <2> HIDE DEF S
  <2> QED
    BY <1>3, <1>9, <1>12, <2>1
<1> HIDE DEF r
<1>14. OrderedTo(r[1], T, n)
  BY <1>13, NearOrdered DEF Settled
<1> QED
  BY <1>7, <1>13, <1>14 DEF Settled, Sorted, r

----------------------------------------------------------------------------
(* What the heap promises. *)

Heap(h, X, T) == h \in Seq(X) /\ IsInjective(h) /\ Ordered(h, T)

LEMMA SeqFacts ==
  ASSUME NEW X, NEW h \in Seq(X)
  PROVE  /\ Len(h) \in Nat /\ h \in [1 .. Len(h) -> X] /\ DOMAIN h = 1 .. Len(h)
         /\ h \in [1 .. Len(h) -> Range(h)] /\ Range(h) \subseteq X
<1>1. Len(h) \in Nat /\ h \in [1 .. Len(h) -> X] /\ DOMAIN h = 1 .. Len(h)
  OBVIOUS
<1> QED
  BY <1>1, RangeFacts

LEMMA SeqIs ==
  ASSUME NEW X, NEW n \in Nat, NEW g \in [1 .. n -> X]
  PROVE  g \in Seq(X) /\ Len(g) = n
OBVIOUS

LEMMA Front ==
  ASSUME NEW X, NEW s \in Seq(X), NEW n \in Nat, n <= Len(s)
  PROVE  /\ SubSeq(s, 1, n) \in Seq(X) /\ Len(SubSeq(s, 1, n)) = n
         /\ \A j \in 1 .. n : SubSeq(s, 1, n)[j] = s[j]
<1>1. n \in Int /\ 1 \in Int /\ \A j \in 1 .. n : s[j] \in X
  <2>1. Len(s) \in Nat /\ s \in [1 .. Len(s) -> X]
    BY SeqFacts
  <2>2. \A j \in 1 .. n : j \in 1 .. Len(s)
    BY <2>1
  <2> QED
    BY <2>1, <2>2
<1>2. n - 1 + 1 = n /\ (IF 1 <= n THEN n - 1 + 1 ELSE 0) = n /\ \A j \in 1 .. n : 1 + j - 1 = j
  OBVIOUS
<1>3. /\ SubSeq(s, 1, n) \in Seq(X)
      /\ Len(SubSeq(s, 1, n)) = IF 1 <= n THEN n - 1 + 1 ELSE 0
      /\ \A j \in 1 .. n - 1 + 1 : SubSeq(s, 1, n)[j] = s[1 + j - 1]
  BY <1>1, SubSeqProperties
<1> QED
  BY <1>2, <1>3

LEMMA HeapIs ==
  ASSUME NEW X, NEW T, NEW n \in Nat, NEW g, g \in [1 .. n -> X], IsInjective(g), OrderedTo(g, T, n)
  PROVE  Heap(g, X, T) /\ Len(g) = n
<1>1. g \in Seq(X) /\ Len(g) = n
  OBVIOUS
<1> QED
  BY <1>1 DEF Heap, Ordered, OrderedTo

\* BHEAP_PUSH adds an element to a heap.
Pushed(g, h, t, X, T) == Heap(g, X, T) /\ Range(g) = Range(h) \cup {t}

LEMMA PushHeap ==
  ASSUME NEW X, NEW T \in [X -> Int], NEW h, Heap(h, X, T), NEW t \in X, t \notin Range(h)
  PROVE  Pushed(Push(h, t, T), h, t, X, T)
<1> DEFINE m == Len(h)
           n == m + 1
           a == Append(h, t)
<1>1. m \in Nat /\ h \in [1 .. m -> X] /\ DOMAIN h = 1 .. m /\ h \in Seq(X)
  BY SeqFacts DEF Heap
<1>2. /\ n \in Nat /\ n \in 1 .. n /\ a \in [1 .. n -> X] /\ a[n] = t
      /\ \A j \in 1 .. m : a[j] = h[j]
  <2>1. a \in Seq(X) /\ Len(a) = n
    BY <1>1
  <2>2. a \in [1 .. n -> X]
    BY <2>1, SeqFacts
  <2> QED
    BY <1>1, <2>2
<1> HIDE DEF a
<1>3. \A j \in 1 .. n : j \in 1 .. m \/ j = n
  BY <1>1
<1>4. DOMAIN a = 1 .. n /\ \A j \in 1 .. m : j \in 1 .. n /\ h[j] # t
  BY <1>1, <1>2 DEF Range
<1>5. IsInjective(a)
  <2>1. \A j, k \in 1 .. m : h[j] = h[k] => j = k
    BY <1>1 DEF Heap, IsInjective
  <2>2. \A j, k \in 1 .. n : a[j] = a[k] => j = k
    BY <1>2, <1>3, <1>4, <2>1
  <2> QED
    BY <1>4, <2>2 DEF IsInjective
<1>6. Range(a) = Range(h) \cup {t}
  <2>1. \A j \in 1 .. n : a[j] \in Range(h) \cup {t}
    BY <1>1, <1>2, <1>3 DEF Range
  <2>2. \A j \in 1 .. m : h[j] \in Range(a)
    BY <1>2, <1>4 DEF Range
  <2>3. t \in Range(a)
    BY <1>2, <1>4 DEF Range
  <2> QED
    BY <1>1, <1>4, <2>1, <2>2, <2>3 DEF Range
<1>7. Near(a, n, T, n) /\ Over(a, n, T, n)
  <2>1. \A j \in 2 .. n : j \in 1 .. n /\ j \div 2 \in 1 .. n /\ j \div 2 < j /\ j \div 2 # n
    BY <1>1, Half
  <2>2. ASSUME NEW j \in 2 .. n, j # n PROVE T[a[j \div 2]] <= T[a[j]]
    <3>1. j \in 2 .. m /\ j \in 1 .. m /\ j \div 2 \in 1 .. m
      BY <1>1, <1>3, <2>1, <2>2
    <3>2. T[h[j \div 2]] <= T[h[j]]
      BY <3>1 DEF Heap, Ordered
    <3> QED
      BY <1>2, <3>1, <3>2
  <2> QED
    BY <2>1, <2>2 DEF Near, Over
<1> DEFINE at == SiftUp(a, n, T)
<1>8. Settled(at, a, T, n) /\ Under(at[1], at[2], T) /\ Over(at[1], at[2], T, n)
  <2> HIDE DEF n
  <2> QED
    BY <1>2, <1>5, <1>7, SiftUpSettles
<1>9. Push(h, t, T) = at[1]
  BY DEF Push, a
<1> HIDE DEF at, n
<1>10. OrderedTo(at[1], T, n)
  BY <1>2, <1>8, NearOrdered DEF Settled
<1>11. at[1] \in [1 .. n -> X]
  <2>1. Range(a) \subseteq X
    BY <1>2, RangeFacts
  <2> QED
    BY <1>8, <2>1 DEF Settled
<1> QED
  BY <1>2, <1>6, <1>8, <1>9, <1>10, <1>11, HeapIs DEF Settled, Pushed

\* BHEAP_POPINDEX takes the element at i out of a heap.
Popped(g, h, t, X, T) == Heap(g, X, T) /\ Range(g) = Range(h) \ {t}

LEMMA PopHeap ==
  ASSUME NEW X, NEW T \in [X -> Int], NEW h, Heap(h, X, T), NEW i \in 1 .. Len(h)
  PROVE  Popped(PopIndex(h, i, T), h, h[i], X, T)
<1> DEFINE rest == SubSeq(h, 1, Len(h) - 1)
           r == [rest EXCEPT ![i] = h[Len(h)]]
<1>a. Len(h) \in Nat /\ Len(h) - 1 \in Nat /\ h \in Seq(X)
  <2>1. Len(h) \in Nat /\ h \in Seq(X)
    BY SeqFacts DEF Heap
  <2> QED
    BY <2>1
<1>b. PICK n \in Nat : n = Len(h) - 1
  BY <1>a
<1>c. PICK m \in Nat : m = Len(h)
  BY <1>a
<1>d. m = n + 1 /\ i \in 1 .. m
  BY <1>a, <1>b, <1>c
<1>e. h \in [1 .. m -> X] /\ DOMAIN h = 1 .. m
  BY <1>a, <1>c, SeqFacts
<1>1. m \in Nat /\ h \in [1 .. m -> X] /\ DOMAIN h = 1 .. m /\ n \in Nat /\ m \in 1 .. m /\ m = n + 1 /\ i \in 1 .. m
  BY <1>d, <1>e
<1>2. rest \in [1 .. n -> X] /\ Len(rest) = n /\ \A j \in 1 .. n : rest[j] = h[j]
  <2>1. rest = SubSeq(h, 1, n) /\ n <= Len(h)
    BY <1>a, <1>b
  <2>2. rest \in Seq(X) /\ Len(rest) = n /\ \A j \in 1 .. n : rest[j] = h[j]
    BY <1>a, <2>1, Front
  <2> QED
    BY <2>2, SeqFacts
<1>3. \A j, k \in 1 .. m : h[j] = h[k] => j = k
  BY <1>1 DEF Heap, IsInjective
<1>4. \A j \in 2 .. m : /\ T[h[j \div 2]] <= T[h[j]] /\ j \in 1 .. m
                        /\ j \div 2 \in 1 .. m /\ j \div 2 < j
  <2>1. \A j \in 2 .. m : T[h[j \div 2]] <= T[h[j]]
    BY <1>c DEF Heap, Ordered
  <2>2. ASSUME NEW j \in 2 .. m PROVE j \in 1 .. m /\ j \div 2 \in 1 .. m /\ j \div 2 < j
    <3>1. j \in Nat /\ j >= 2 /\ j <= m
      BY <1>1
    <3>2. j \div 2 \in Nat /\ 1 <= j \div 2 /\ j \div 2 < j
      BY <3>1, Half
    <3> QED
      BY <1>1, <3>1, <3>2
  <2> QED
    BY <2>1, <2>2
<1>5. \A j \in 1 .. m : j \in 1 .. n \/ j = m
  BY <1>1
<1>6. \A j \in 1 .. n : j \in 1 .. m /\ j # m
  BY <1>1
<1>7. \A j \in 1 .. m : T[h[j]] \in Int
  BY <1>1
<1> HIDE DEF rest
<1>8. CASE i = m
  <2>1. PopIndex(h, i, T) = rest
    BY <1>1, <1>2, <1>8, <1>c DEF PopIndex, rest
  <2>2. DOMAIN rest = 1 .. n
    BY <1>2
  <2>3. IsInjective(rest)
    BY <1>2, <1>3, <1>6, <2>2 DEF IsInjective
  <2>4. Range(rest) = Range(h) \ {h[i]}
    <3>1. \A j \in 1 .. n : rest[j] \in Range(h) /\ rest[j] # h[i]
      BY <1>1, <1>2, <1>3, <1>6, <1>8 DEF Range
    <3>2. \A j \in 1 .. m : h[j] # h[i] => h[j] \in Range(rest)
      BY <1>2, <1>5, <1>8, <2>2 DEF Range
    <3> QED
      BY <1>1, <2>2, <3>1, <3>2 DEF Range
  <2>5. OrderedTo(rest, T, n)
    <3>1. ASSUME NEW j \in 2 .. n PROVE T[rest[j \div 2]] <= T[rest[j]]
      <4>1. j \in 2 .. m /\ j \in 1 .. n
        BY <1>1
      <4>2. j \div 2 \in 1 .. n
        BY <1>1, <1>4, <4>1
      <4> QED
        BY <1>2, <1>4, <4>1, <4>2
    <3> QED
      BY <3>1 DEF OrderedTo
  <2>6. n \in Nat /\ rest \in [1 .. n -> X]
    BY <1>1, <1>2
  <2>7. Heap(rest, X, T)
    BY <2>3, <2>5, <2>6, HeapIs
  <2> QED
    BY <2>1, <2>4, <2>7 DEF Popped
<1>9. CASE i # m
  <2>1. i \in 1 .. n /\ m > n
    BY <1>1, <1>5, <1>9
  <2>2. /\ r \in [1 .. n -> X] /\ DOMAIN r = 1 .. n
        /\ \A j \in 1 .. n : r[j] = IF j = i THEN h[m] ELSE h[j]
    BY <1>1, <1>2, <2>1, <1>c
  <2> DEFINE up == SiftUp(r, i, T)
  <2>3. PopIndex(h, i, T) = SiftDown(up[1], up[2], T)
    BY <1>1, <1>2, <2>1, <1>c DEF PopIndex, rest
  <2> HIDE DEF r
  <2>4. IsInjective(r)
    <3>1. \A j, k \in 1 .. n : r[j] = r[k] => j = k
      BY <1>1, <1>3, <1>6, <2>2
    <3> QED
      BY <2>2, <3>1 DEF IsInjective
  <2>5. Range(r) = Range(h) \ {h[i]}
    <3>1. \A j \in 1 .. n : r[j] \in Range(h) /\ r[j] # h[i]
      BY <1>1, <1>3, <1>6, <1>9, <2>1, <2>2 DEF Range
    <3>2. \A j \in 1 .. m : h[j] # h[i] => h[j] \in Range(r)
      BY <1>5, <2>1, <2>2 DEF Range
    <3> QED
      BY <1>1, <2>2, <3>1, <3>2 DEF Range
  <2>6. Near(r, i, T, n)
    <3>1. ASSUME NEW j \in 2 .. n
          PROVE j \in 2 .. m /\ j \in 1 .. n /\ j \div 2 \in 1 .. n /\ j \div 2 < j
      <4>1. j \in 2 .. m /\ j \in 1 .. n
        BY <1>1
      <4> QED
        BY <1>1, <1>4, <4>1
    <3>2. ASSUME NEW j \in 2 .. n, j # i, j \div 2 # i PROVE T[r[j \div 2]] <= T[r[j]]
      BY <1>4, <2>2, <3>1, <3>2
    <3>3. ASSUME i > 1, NEW j \in 2 .. n, j \div 2 = i PROVE T[r[i \div 2]] <= T[r[j]]
      <4>1. i \in 2 .. n /\ i \in 2 .. m
        BY <1>1, <2>1, <3>3
      <4>2. i \div 2 \in 1 .. n /\ i \div 2 # i /\ j # i /\ i \div 2 \in 1 .. m
        BY <1>6, <3>1, <3>3, <4>1
      <4>3. T[h[i \div 2]] <= T[h[i]] /\ T[h[i]] <= T[h[j]]
        BY <1>4, <3>1, <3>3, <4>1
      <4>4. r[i \div 2] = h[i \div 2] /\ r[j] = h[j]
        BY <2>2, <3>1, <4>2
      <4>5. T[h[i \div 2]] \in Int /\ T[h[i]] \in Int /\ T[h[j]] \in Int
        <5>1. j \in 1 .. m /\ i \in 1 .. m
          BY <1>1, <1>6, <3>1
        <5> QED
          BY <1>7, <4>2, <5>1
      <4> QED
        BY <4>3, <4>4, <4>5
    <3> QED
      BY <3>2, <3>3 DEF Near
  <2> HIDE DEF up
  <2>7. Settled(up, r, T, n) /\ Under(up[1], up[2], T)
    BY <1>1, <2>1, <2>2, <2>4, <2>6, SiftUpSettles DEF up
  <2> DEFINE g == up[1]
             k == up[2]
             d == SiftDown(g, k, T)
  <2>8. /\ g \in [1 .. n -> X] /\ k \in 1 .. n /\ IsInjective(g) /\ Range(g) = Range(r)
        /\ Near(g, k, T, n) /\ Under(g, k, T)
    <3>1. Range(r) \subseteq X
      BY <1>1, <2>2, RangeFacts
    <3> QED
      BY <2>7, <3>1 DEF Settled
  <2> HIDE DEF g, k
  <2>9. d \in [1 .. n -> Range(g)] /\ IsInjective(d) /\ Range(d) = Range(g) /\ OrderedTo(d, T, n)
    <3>1. Sorted(d, g, T, n)
      BY <2>8, SiftDownOrders
    <3> QED
      BY <3>1 DEF Sorted
  <2> HIDE DEF d
  <2>10. d \in [1 .. n -> X]
    <3>1. Range(g) \subseteq X
      BY <1>1, <2>8, RangeFacts
    <3> QED
      BY <2>9, <3>1
  <2>11. Heap(d, X, T)
    BY <1>1, <2>9, <2>10, HeapIs
  <2>12. PopIndex(h, i, T) = d
    BY <2>3 DEF d, g, k
  <2> QED
    BY <2>5, <2>8, <2>9, <2>11, <2>12 DEF Popped
<1> QED
  BY <1>8, <1>9

----------------------------------------------------------------------------
(* The inductive invariant.  A timer that runs has expired, and it is lost to the *)
(* heap and the list exactly when its own function deleted it.                   *)

RunningInv ==
  /\ running # None => tick[running] <= now
  /\ removed => running # None /\ running \notin orphan
  /\ running # None /\ ~removed => running \in orphan

TimersInv == TypeOK /\ HeapOrdered /\ IdsOnce /\ RunningInv

LEMMA Bounds ==
  /\ MaxTimers \in Nat /\ MaxTick \in Nat /\ Late \in Nat
  /\ None \notin Tid
  /\ \A n \in DOMAIN Ops : n \in 0 .. MaxTimers /\ Ops[n] \in Nat
BY TimersAssumption DEF Tid, Range

LEMMA SeqOver ==
  ASSUME NEW X, NEW Y, NEW h \in Seq(X), Range(h) \subseteq Y
  PROVE  h \in Seq(Y)
<1>1. Len(h) \in Nat /\ h \in [1 .. Len(h) -> Range(h)]
  BY SeqFacts
<1>2. h \in [1 .. Len(h) -> Y]
  BY <1>1
<1> QED
  BY <1>1, <1>2

\* The order of a heap is about the ticks of its timers only.
LEMMA OtherTicks ==
  ASSUME NEW X, NEW h, NEW T, NEW U, Heap(h, X, T), \A x \in Range(h) : U[x] = T[x]
  PROVE  Heap(h, X, U)
<1>1. Len(h) \in Nat /\ h \in [1 .. Len(h) -> Range(h)]
  BY SeqFacts DEF Heap
<1>2. ASSUME NEW j \in 2 .. Len(h) PROVE U[h[j \div 2]] <= U[h[j]]
  <2>1. j \in Nat /\ j >= 2 /\ j <= Len(h)
    BY <1>1
  <2>2. j \div 2 \in Nat /\ 1 <= j \div 2 /\ j \div 2 < j
    BY <2>1, Half
  <2>3. j \in 1 .. Len(h) /\ j \div 2 \in 1 .. Len(h)
    BY <1>1, <2>1, <2>2
  <2>4. h[j] \in Range(h) /\ h[j \div 2] \in Range(h)
    BY <1>1, <2>3
  <2> QED
    BY <2>4 DEF Heap, Ordered
<1> QED
  BY <1>2 DEF Heap, Ordered

LEMMA LastOut ==
  ASSUME NEW X, NEW s \in Seq(X), s # <<>>, IsInjective(s)
  PROVE  LET r == SubSeq(s, 1, Len(s) - 1)
         IN  /\ s[Len(s)] \in Range(s) /\ r \in Seq(X) /\ IsInjective(r)
             /\ Range(r) = Range(s) \ {s[Len(s)]}
<1>1. Len(s) \in Nat /\ s \in [1 .. Len(s) -> X] /\ DOMAIN s = 1 .. Len(s)
  BY SeqFacts
<1>2. PICK m \in Nat : m = Len(s)
  BY <1>1
<1>3. PICK n \in Nat : m = n + 1
  <2>1. m # 0
    BY <1>1, <1>2
  <2>2. m - 1 \in Nat /\ m = (m - 1) + 1
    BY <2>1
  <2> QED
    BY <2>2
<1> DEFINE r == SubSeq(s, 1, Len(s) - 1)
<1>4. r \in Seq(X) /\ DOMAIN r = 1 .. n /\ \A j \in 1 .. n : r[j] = s[j]
  <2>1. Len(s) - 1 = n /\ n <= Len(s)
    BY <1>2, <1>3
  <2>2. r \in Seq(X) /\ Len(r) = n /\ \A j \in 1 .. n : r[j] = s[j]
    BY <2>1, Front
  <2> QED
    BY <2>2, SeqFacts
<1>5. DOMAIN s = 1 .. m /\ \A j, k \in 1 .. m : s[j] = s[k] => j = k
  BY <1>1, <1>2 DEF IsInjective
<1>6. (\A j \in 1 .. n : j \in 1 .. m /\ j # m) /\ m \in 1 .. m
  BY <1>3
<1>7. \A j \in 1 .. m : j \in 1 .. n \/ j = m
  BY <1>3
<1> HIDE DEF r
<1>8. IsInjective(r)
  BY <1>4, <1>5, <1>6 DEF IsInjective
<1>9. s[m] \in Range(s)
  BY <1>5, <1>6 DEF Range
<1>10. Range(r) = Range(s) \ {s[m]}
  <2>1. \A j \in 1 .. n : r[j] \in Range(s) /\ r[j] # s[m]
    BY <1>4, <1>5, <1>6 DEF Range
  <2>2. \A j \in 1 .. m : s[j] # s[m] => s[j] \in Range(r)
    BY <1>4, <1>7 DEF Range
  <2> QED
    BY <1>4, <1>5, <2>1, <2>2 DEF Range
<1> QED
  BY <1>2, <1>4, <1>8, <1>9, <1>10 DEF r

LEMMA OneIn ==
  ASSUME NEW X, NEW s \in Seq(X), NEW t \in X, IsInjective(s), t \notin Range(s)
  PROVE  Append(s, t) \in Seq(X) /\ IsInjective(Append(s, t)) /\ Range(Append(s, t)) = Range(s) \cup {t}
<1>1. Len(s) \in Nat /\ DOMAIN s = 1 .. Len(s)
  BY SeqFacts
<1>2. PICK m \in Nat : m = Len(s)
  BY <1>1
<1> DEFINE a == Append(s, t)
<1>3. a \in Seq(X) /\ DOMAIN a = 1 .. m + 1 /\ a[m + 1] = t /\ \A j \in 1 .. m : a[j] = s[j]
  <2>1. a \in Seq(X) /\ Len(a) = m + 1 /\ a[m + 1] = t /\ \A j \in 1 .. m : a[j] = s[j]
    BY <1>2
  <2> QED
    BY <2>1, SeqFacts
<1>4. DOMAIN s = 1 .. m /\ \A j \in 1 .. m : s[j] # t
  BY <1>1, <1>2 DEF Range
<1>5. (\A j \in 1 .. m + 1 : j \in 1 .. m \/ j = m + 1) /\ m + 1 \in 1 .. m + 1
      /\ \A j \in 1 .. m : j \in 1 .. m + 1
  OBVIOUS
<1> HIDE DEF a
<1>6. IsInjective(a)
  BY <1>3, <1>4, <1>5 DEF IsInjective
<1>7. Range(a) = Range(s) \cup {t}
  <2>1. \A j \in 1 .. m + 1 : a[j] \in Range(s) \cup {t}
    BY <1>3, <1>4, <1>5 DEF Range
  <2>2. t \in Range(a) /\ \A j \in 1 .. m : s[j] \in Range(a)
    BY <1>3, <1>5 DEF Range
  <2> QED
    BY <1>3, <1>4, <2>1, <2>2, SMTT(30) DEF Range
<1> QED
  BY <1>3, <1>6, <1>7 DEF a

\* What the invariant says, with the heap as one of timers that exist.
Facts ==
  /\ tick \in [Tid -> 0 .. MaxTick + 1] /\ tick \in [Tid -> Int]
  /\ live \in [Tid -> BOOLEAN] /\ kind \in [Tid -> {"once", "interval"}]
  /\ num \in Nat /\ num <= MaxTimers /\ 0 .. num - 1 \subseteq Tid
  /\ Heap(heap, Tid, tick) /\ heap \in Seq(0 .. num - 1)
  /\ free \in Seq(0 .. num - 1) /\ IsInjective(free)
  /\ Range(heap) \subseteq 0 .. num - 1 /\ Range(free) \subseteq 0 .. num - 1
  /\ running \in Tid \cup {None} /\ removed \in BOOLEAN
  /\ now \in 0 .. MaxTick /\ ops \in Nat
  /\ Range(heap) \cap Range(free) = {}
  /\ (Used \cup orphan) \cap (Range(heap) \cup Range(free)) = {}
  /\ 0 .. num - 1 = Range(heap) \cup Range(free) \cup Used \cup orphan
  /\ RunningInv

LEMMA InvFacts ==
  ASSUME TimersInv
  PROVE  Facts
<1>1. num \in 0 .. MaxTimers /\ MaxTimers \in Nat
  BY Bounds DEF TimersInv, TypeOK
<1>2. num \in Nat /\ num <= MaxTimers /\ 0 .. num - 1 \subseteq Tid
  BY <1>1 DEF Tid
<1>3. Range(heap) \subseteq 0 .. num - 1 /\ Range(free) \subseteq 0 .. num - 1
  BY SeqFacts DEF TimersInv, TypeOK
<1>4. heap \in Seq(Tid)
  <2>1. Range(heap) \subseteq Tid /\ heap \in Seq(0 .. num - 1)
    BY <1>2, <1>3 DEF TimersInv, TypeOK
  <2> QED
    BY <2>1, SeqOver
<1>5. Heap(heap, Tid, tick)
  BY <1>4 DEF Heap, TimersInv, IdsOnce, HeapOrdered
<1>6. tick \in [Tid -> Int] /\ tick \in [Tid -> 0 .. MaxTick + 1]
  BY Bounds DEF TimersInv, TypeOK
<1> QED
  BY <1>2, <1>3, <1>5, <1>6 DEF Facts, TimersInv, TypeOK, IdsOnce

\* ... and the other way, for the state after a step.
LEMMA FactsInv ==
  ASSUME num' \in 0 .. MaxTimers,
         tick' \in [Tid -> 0 .. MaxTick + 1], live' \in [Tid -> BOOLEAN],
         kind' \in [Tid -> {"once", "interval"}],
         Heap(heap', Tid, tick'), Range(heap') \subseteq 0 .. num' - 1,
         free' \in Seq(0 .. num' - 1), IsInjective(free'),
         running' \in Tid \cup {None}, removed' \in BOOLEAN,
         now' \in 0 .. MaxTick, ops' \in Nat,
         Range(heap') \cap Range(free') = {},
         (Used' \cup orphan') \cap (Range(heap') \cup Range(free')) = {},
         0 .. num' - 1 = Range(heap') \cup Range(free') \cup Used' \cup orphan',
         RunningInv'
  PROVE  TimersInv'
<1>1. heap' \in Seq(0 .. num' - 1)
  BY SeqOver DEF Heap
<1>2. TypeOK'
  BY <1>1 DEF TypeOK
<1>3. HeapOrdered' /\ IdsOnce'
  BY DEF HeapOrdered, IdsOnce, Heap
<1> QED
  BY <1>2, <1>3 DEF TimersInv

LEMMA InitInv == Init => TimersInv
<1> SUFFICES ASSUME Init PROVE TimersInv
  OBVIOUS
<1>1. PICK n \in DOMAIN Ops :
        /\ tick \in [Tid -> 0 .. MaxTick]
        /\ heap = [i \in 1 .. n |-> i - 1] /\ Ordered(heap, tick)
        /\ kind \in [Tid -> {"once", "interval"}]
        /\ live = [t \in Tid |-> t < n]
        /\ num = n /\ free = <<>> /\ running = None /\ removed = FALSE
        /\ now = 0 /\ ops = Ops[n] /\ orphan = {}
  BY DEF Init
<1>2. n \in Nat /\ n \in 0 .. MaxTimers /\ ops \in Nat /\ MaxTick \in Nat
  BY <1>1, Bounds
<1>3. heap \in [1 .. n -> 0 .. num - 1] /\ heap \in Seq(0 .. num - 1)
  <2>1. heap \in [1 .. n -> 0 .. num - 1]
    BY <1>1, <1>2
  <2> QED
    BY <1>2, <2>1, SeqIs
<1>4. TypeOK
  <2>1. tick \in [Tid -> 0 .. MaxTick + 1] /\ live \in [Tid -> BOOLEAN]
    BY <1>1, <1>2
  <2>2. num \in 0 .. MaxTimers /\ free \in Seq(0 .. num - 1) /\ now \in 0 .. MaxTick
    BY <1>1, <1>2
  <2> QED
    BY <1>1, <1>2, <1>3, <2>1, <2>2 DEF TypeOK
<1>5. IdsOnce
  <2>1. IsInjective(heap) /\ Range(heap) = 0 .. n - 1
    <3>1. DOMAIN heap = 1 .. n /\ \A i \in 1 .. n : heap[i] = i - 1
      BY <1>1
    <3>2. IsInjective(heap)
      BY <1>2, <3>1 DEF IsInjective
    <3>3. \A t \in 0 .. n - 1 : t + 1 \in 1 .. n /\ heap[t + 1] = t
      BY <1>2, <3>1
    <3>4. \A t \in 0 .. n - 1 : t \in Range(heap)
      BY <3>1, <3>3 DEF Range
    <3>5. Range(heap) \subseteq 0 .. n - 1
      BY <1>2, <3>1 DEF Range
    <3> QED
      BY <3>2, <3>4, <3>5
  <2>2. IsInjective(free) /\ Range(free) = {}
    <3>1. DOMAIN free = {}
      BY <1>1
    <3> QED
      BY <3>1 DEF IsInjective, Range
  <2>3. Used = {}
    BY <1>1 DEF Used
  <2> QED
    BY <1>1, <2>1, <2>2, <2>3 DEF IdsOnce
<1>6. HeapOrdered /\ RunningInv
  BY <1>1 DEF HeapOrdered, RunningInv
<1> QED
  BY <1>4, <1>5, <1>6 DEF TimersInv

\* The id acquire_timer hands out is nobody's.
LEMMA AcquiredFacts ==
  ASSUME Facts, Acquired \in Tid,
         free' = (IF free # <<>> THEN SubSeq(free, 1, Len(free) - 1) ELSE free),
         num' = (IF free # <<>> THEN num ELSE num + 1)
  PROVE  /\ Acquired \notin Range(heap) \cup Used \cup orphan
         /\ Acquired \in 0 .. num' - 1
         /\ num' \in 0 .. MaxTimers /\ 0 .. num' - 1 = (0 .. num - 1) \cup {Acquired}
         /\ free' \in Seq(0 .. num' - 1) /\ IsInjective(free')
         /\ Range(free') = Range(free) \ {Acquired}
<1>1. CASE free # <<>>
  <2>1. /\ free[Len(free)] \in Range(free) /\ free' \in Seq(0 .. num - 1)
        /\ IsInjective(free') /\ Range(free') = Range(free) \ {free[Len(free)]}
    BY <1>1, LastOut DEF Facts
  <2>2. Acquired = free[Len(free)] /\ num' = num
    BY <1>1 DEF Acquired
  <2>3. num \in 0 .. MaxTimers
    BY Bounds DEF Facts
  <2> QED
    BY <2>1, <2>2, <2>3 DEF Facts
<1>2. CASE free = <<>>
  <2>1. Acquired = num /\ num' = num + 1 /\ free' = <<>>
    BY <1>2 DEF Acquired
  <2>2. DOMAIN free = {}
    BY <1>2
  <2>3. Range(free) = {} /\ IsInjective(free') /\ Range(free') = {}
    BY <1>2, <2>1, <2>2 DEF Range, IsInjective
  <2>4. num \in Nat /\ num + 1 \in 0 .. MaxTimers /\ num \notin 0 .. num - 1
        /\ 0 .. (num + 1) - 1 = (0 .. num - 1) \cup {num}
    <3>1. num \in Nat /\ MaxTimers \in Nat /\ num \in 0 .. MaxTimers - 1
      BY <2>1, Bounds DEF Facts, Tid
    <3> QED
      BY <3>1
  <2>5. num \notin Range(heap) \cup Used \cup orphan
    BY <2>4 DEF Facts
  <2>6. <<>> \in Seq(0 .. num' - 1) /\ num \in 0 .. num' - 1
    BY <2>1, <2>4
  <2> QED
    BY <2>1, <2>3, <2>4, <2>5, <2>6
<1> QED
  BY <1>1, <1>2

LEMMA AddTimerInv ==
  ASSUME TimersInv, NEW at \in 0 .. MaxTick, NEW k \in {"once", "interval"}, AddTimer(at, k),
         now' = now, ops' \in Nat
  PROVE  TimersInv'
<1> DEFINE t == Acquired
<1>0. Facts
  BY InvFacts
<1>1. /\ t \in Tid
      /\ tick' = [tick EXCEPT ![t] = at] /\ live' = [live EXCEPT ![t] = TRUE]
      /\ kind' = [kind EXCEPT ![t] = k] /\ heap' = Push(heap, t, tick')
      /\ free' = (IF free # <<>> THEN SubSeq(free, 1, Len(free) - 1) ELSE free)
      /\ num' = (IF free # <<>> THEN num ELSE num + 1)
      /\ running' = running /\ removed' = removed /\ orphan' = orphan
  BY DEF AddTimer
<1> HIDE DEF t
<1>2. /\ t \notin Range(heap) \cup Used \cup orphan /\ t \in 0 .. num' - 1
      /\ num' \in 0 .. MaxTimers /\ 0 .. num' - 1 = (0 .. num - 1) \cup {t}
      /\ free' \in Seq(0 .. num' - 1) /\ IsInjective(free')
      /\ Range(free') = Range(free) \ {t}
  BY <1>0, <1>1, AcquiredFacts DEF t
<1>3. /\ tick' \in [Tid -> 0 .. MaxTick + 1] /\ tick' \in [Tid -> Int]
      /\ \A x \in Tid \ {t} : tick'[x] = tick[x]
      /\ live' \in [Tid -> BOOLEAN] /\ kind' \in [Tid -> {"once", "interval"}]
  BY <1>0, <1>1, Bounds DEF Facts
<1>4. Heap(heap, Tid, tick')
  <2>1. \A x \in Range(heap) : tick'[x] = tick[x]
    BY <1>0, <1>2, <1>3 DEF Facts
  <2> QED
    BY <1>0, <2>1, OtherTicks DEF Facts
<1>5. Heap(heap', Tid, tick') /\ Range(heap') = Range(heap) \cup {t}
  <2>1. Pushed(heap', heap, t, Tid, tick')
    BY <1>1, <1>2, <1>3, <1>4, PushHeap
  <2> QED
    BY <2>1 DEF Pushed
<1>6. Used' = Used /\ RunningInv'
  <2>1. Used' = Used
    BY <1>1 DEF Used
  <2>2. running # None => running \in Tid \ {t}
    BY <1>0, <1>2 DEF Facts, Used
  <2> QED
    BY <1>0, <1>1, <1>3, <2>1, <2>2 DEF Facts, RunningInv
<1>7. /\ Range(heap') \subseteq 0 .. num' - 1
      /\ Range(heap') \cap Range(free') = {}
      /\ (Used' \cup orphan') \cap (Range(heap') \cup Range(free')) = {}
      /\ 0 .. num' - 1 = Range(heap') \cup Range(free') \cup Used' \cup orphan'
  <2>1. /\ Range(heap) \cap Range(free) = {}
        /\ (Used \cup orphan) \cap (Range(heap) \cup Range(free)) = {}
        /\ 0 .. num - 1 = Range(heap) \cup Range(free) \cup Used \cup orphan
    BY <1>0 DEF Facts
  <2>2. 0 .. num' - 1 = Range(heap') \cup Range(free') \cup Used' \cup orphan'
    <3>1. 0 .. num' - 1 = Range(heap) \cup Range(free) \cup Used \cup orphan \cup {t}
      BY <1>2, <2>1
    <3> QED
      BY <1>1, <1>2, <1>5, <1>6, <3>1
  <2>3. Range(heap') \subseteq 0 .. num' - 1
    BY <2>2
  <2>4. Range(heap') \cap Range(free') = {}
    BY <1>2, <1>5, <2>1
  <2>5. (Used' \cup orphan') \cap (Range(heap') \cup Range(free')) = {}
    BY <1>1, <1>2, <1>5, <1>6, <2>1, ZenonT(60)
  <2> QED
    BY <2>2, <2>3, <2>4, <2>5
<1>8. running' \in Tid \cup {None} /\ removed' \in BOOLEAN /\ now' \in 0 .. MaxTick
  BY <1>0, <1>1 DEF Facts
<1> QED
  BY <1>2, <1>3, <1>5, <1>6, <1>7, <1>8, FactsInv

LEMMA DeleteTimerInv ==
  ASSUME TimersInv, NEW t \in Tid, DeleteTimer(t), now' = now, ops' \in Nat
  PROVE  TimersInv'
<1>0. Facts
  BY InvFacts
<1>1. /\ InUse(t) /\ live' = [live EXCEPT ![t] = FALSE] /\ kind' = [kind EXCEPT ![t] = "once"]
      /\ removed' = (removed /\ t # running)
      /\ orphan' = (IF t = running THEN orphan \cup {t} ELSE orphan)
      /\ tick' = tick /\ heap' = heap /\ num' = num /\ free' = free /\ running' = running
  BY DEF DeleteTimer
<1>2. live' \in [Tid -> BOOLEAN] /\ kind' \in [Tid -> {"once", "interval"}] /\ removed' \in BOOLEAN
  BY <1>0, <1>1 DEF Facts
<1>3. Used' = Used /\ Used' \cup orphan' = Used \cup orphan
  BY <1>0, <1>1, Bounds DEF Used, Facts
<1>4. RunningInv'
  BY <1>0, <1>1 DEF Facts, RunningInv
<1>5. num \in 0 .. MaxTimers
  BY <1>0, Bounds DEF Facts
<1> QED
  BY <1>0, <1>1, <1>2, <1>3, <1>4, <1>5, FactsInv DEF Facts

LEMMA SetTickInv ==
  ASSUME TimersInv, NEW t \in Tid, NEW at \in 0 .. MaxTick, SetTick(t, at), now' = now, ops' \in Nat
  PROVE  TimersInv'
<1>0. Facts
  BY InvFacts
<1>1. /\ t \in Range(heap) /\ tick' = [tick EXCEPT ![t] = at] /\ heap' = Moved(t, tick')
      /\ live' = live /\ kind' = kind /\ num' = num /\ free' = free
      /\ running' = running /\ removed' = removed /\ orphan' = orphan
  BY DEF SetTick
<1> DEFINE i == Position(t)
           rest == PopIndex(heap, i, tick)
<1>2. i \in 1 .. Len(heap) /\ heap[i] = t
  <2>1. \E j \in DOMAIN heap : heap[j] = t
    BY <1>1 DEF Range
  <2>2. DOMAIN heap = 1 .. Len(heap)
    BY <1>0, SeqFacts DEF Facts
  <2> QED
    BY <2>1, <2>2 DEF Position
<1>3. heap' = Push(rest, t, tick')
  BY <1>1 DEF Moved
<1> HIDE DEF i
<1>4. Heap(rest, Tid, tick) /\ Range(rest) = Range(heap) \ {t}
  <2>1. Popped(rest, heap, t, Tid, tick)
    BY <1>0, <1>2, PopHeap DEF Facts
  <2> QED
    BY <2>1 DEF Popped
<1> HIDE DEF rest
<1>5. /\ tick' \in [Tid -> 0 .. MaxTick + 1] /\ tick' \in [Tid -> Int]
      /\ \A x \in Tid \ {t} : tick'[x] = tick[x]
  BY <1>0, <1>1, Bounds DEF Facts
<1>6. Heap(rest, Tid, tick')
  <2>1. \A x \in Range(rest) : tick'[x] = tick[x]
    BY <1>0, <1>4, <1>5 DEF Facts
  <2> QED
    BY <1>4, <2>1, OtherTicks
<1>7. Heap(heap', Tid, tick') /\ Range(heap') = Range(heap)
  <2>1. t \notin Range(rest)
    BY <1>4
  <2>2. Heap(heap', Tid, tick') /\ Range(heap') = Range(rest) \cup {t}
    BY <1>3, <1>5, <1>6, <2>1, PushHeap DEF Pushed
  <2> QED
    BY <1>1, <1>4, <2>2
<1>8. Used' = Used /\ RunningInv'
  <2>1. Used' = Used
    BY <1>1 DEF Used
  <2>2. running # None => running \in Tid \ {t}
    BY <1>0, <1>1 DEF Facts, Used
  <2> QED
    BY <1>0, <1>1, <1>5, <2>1, <2>2 DEF Facts, RunningInv
<1>9. num \in 0 .. MaxTimers
  BY <1>0, Bounds DEF Facts
<1> QED
  BY <1>0, <1>1, <1>5, <1>7, <1>8, <1>9, FactsInv DEF Facts

\* do_timer pops the first timer.
LEMMA FirstOut ==
  ASSUME Facts, Expired, heap' = PopIndex(heap, 1, tick)
  PROVE  /\ heap[1] \in Range(heap) /\ heap[1] \in Tid /\ tick[heap[1]] <= now /\ running = None
         /\ Heap(heap', Tid, tick) /\ Range(heap') = Range(heap) \ {heap[1]}
<1>1. heap # <<>> /\ running = None /\ tick[heap[1]] <= now
  BY DEF Expired
<1>2. heap \in Seq(Tid) /\ Len(heap) \in Nat /\ DOMAIN heap = 1 .. Len(heap) /\ Range(heap) \subseteq Tid
  BY SeqFacts DEF Facts, Heap
<1>3. 1 \in 1 .. Len(heap)
  BY <1>1, <1>2
<1>4. heap[1] \in Range(heap)
  BY <1>2, <1>3 DEF Range
<1>5. Heap(heap', Tid, tick) /\ Range(heap') = Range(heap) \ {heap[1]}
  <2>1. Popped(heap', heap, heap[1], Tid, tick)
    BY <1>3, PopHeap DEF Facts
  <2> QED
    BY <2>1 DEF Popped
<1> QED
  BY <1>1, <1>2, <1>4, <1>5

LEMMA CallInv ==
  ASSUME TimersInv, Call
  PROVE  TimersInv'
<1>0. Facts
  BY InvFacts
<1> DEFINE t == heap[1]
<1>1. /\ Expired /\ heap' = PopIndex(heap, 1, tick) /\ running' = t /\ removed' = TRUE
      /\ tick' = tick /\ live' = live /\ kind' = kind /\ num' = num /\ free' = free /\ now' = now
      /\ ops' = ops /\ orphan' = orphan
  BY DEF Call, data
<1>2. /\ t \in Range(heap) /\ t \in Tid /\ tick[t] <= now /\ running = None
      /\ Heap(heap', Tid, tick) /\ Range(heap') = Range(heap) \ {t}
  BY <1>0, <1>1, FirstOut
<1> HIDE DEF t
<1>3. Used = {} /\ Used' = {t}
  BY <1>1, <1>2, Bounds DEF Used
<1>4. RunningInv'
  BY <1>0, <1>1, <1>2, Bounds DEF Facts, RunningInv
<1>5. num \in 0 .. MaxTimers
  BY <1>0, Bounds DEF Facts
<1> QED
  BY <1>0, <1>1, <1>2, <1>3, <1>4, <1>5, FactsInv DEF Facts

LEMMA DropInv ==
  ASSUME TimersInv, Drop
  PROVE  TimersInv'
<1>0. Facts
  BY InvFacts
<1> DEFINE t == heap[1]
<1>1. /\ Expired /\ heap' = PopIndex(heap, 1, tick) /\ free' = Append(free, t)
      /\ tick' = tick /\ live' = live /\ kind' = kind /\ num' = num /\ now' = now
      /\ ops' = ops /\ orphan' = orphan /\ running' = running /\ removed' = removed
  BY DEF Drop, data
<1>2. /\ t \in Range(heap) /\ t \in Tid /\ running = None
      /\ Heap(heap', Tid, tick) /\ Range(heap') = Range(heap) \ {t}
  BY <1>0, <1>1, FirstOut
<1> HIDE DEF t
<1>3. free' \in Seq(0 .. num - 1) /\ IsInjective(free') /\ Range(free') = Range(free) \cup {t}
  <2>1. t \in 0 .. num - 1 /\ t \notin Range(free)
    BY <1>0, <1>2 DEF Facts
  <2> QED
    BY <1>0, <1>1, <2>1, OneIn DEF Facts
<1>4. Used' = Used /\ RunningInv'
  BY <1>0, <1>1 DEF Facts, RunningInv, Used
<1>5. num \in 0 .. MaxTimers
  BY <1>0, Bounds DEF Facts
<1> QED
  BY <1>0, <1>1, <1>2, <1>3, <1>4, <1>5, FactsInv DEF Facts

LEMMA ReturnInv ==
  ASSUME TimersInv, Return
  PROVE  TimersInv'
<1>0. Facts
  BY InvFacts
<1> DEFINE t == running
<1>1. /\ t # None /\ t \in Tid /\ running' = None /\ removed' = FALSE
      /\ live' = live /\ kind' = kind /\ num' = num /\ now' = now /\ ops' = ops /\ orphan' = orphan
  BY <1>0 DEF Return, Facts
<1>2. Used = {t} /\ Used' = {} /\ RunningInv' /\ num \in 0 .. MaxTimers
      /\ t \in 0 .. num - 1 /\ t \notin Range(heap) \cup Range(free)
  <2>1. Used = {t} /\ Used' = {} /\ RunningInv'
    BY <1>1 DEF Used, RunningInv
  <2>2. num \in 0 .. MaxTimers
    BY <1>0, Bounds DEF Facts
  <2> QED
    BY <1>0, <2>1, <2>2 DEF Facts
<1>3. CASE removed /\ kind[running] = "once"
  <2>1. free' = Append(free, t) /\ tick' = tick /\ heap' = heap /\ t \notin orphan
    BY <1>0, <1>3 DEF Return, Facts, RunningInv
  <2>2. free' \in Seq(0 .. num - 1) /\ IsInjective(free') /\ Range(free') = Range(free) \cup {t}
    BY <1>0, <1>2, <2>1, OneIn DEF Facts
  <2> HIDE DEF t
  <2> QED
    BY <1>0, <1>1, <1>2, <2>1, <2>2, FactsInv, ZenonT(60) DEF Facts
<1>4. CASE removed /\ kind[running] = "interval"
  <2>1. /\ tick' = [tick EXCEPT ![t] = Renewed(t)] /\ heap' = Push(heap, t, tick')
        /\ free' = free /\ t \notin orphan
    BY <1>0, <1>4 DEF Return, Facts, RunningInv
  <2>2. Renewed(t) \in 0 .. MaxTick + 1
    <3>1. tick[t] \in 0 .. MaxTick + 1 /\ tick[t] <= now /\ now \in 0 .. MaxTick
      BY <1>0, <1>1 DEF Facts, RunningInv
    <3> QED
      BY <3>1, Bounds DEF Renewed
  <2> HIDE DEF t
  <2>3. /\ tick' \in [Tid -> 0 .. MaxTick + 1] /\ tick' \in [Tid -> Int]
        /\ \A x \in Tid \ {t} : tick'[x] = tick[x]
    BY <1>0, <1>1, <2>1, <2>2, Bounds DEF Facts
  <2>4. Heap(heap, Tid, tick')
    <3>1. \A x \in Range(heap) : tick'[x] = tick[x]
      BY <1>0, <1>2, <2>3 DEF Facts
    <3> QED
      BY <1>0, <3>1, OtherTicks DEF Facts
  <2>5. Heap(heap', Tid, tick') /\ Range(heap') = Range(heap) \cup {t}
    <3>1. Pushed(heap', heap, t, Tid, tick')
      BY <1>1, <1>2, <2>1, <2>3, <2>4, PushHeap
    <3> QED
      BY <3>1 DEF Pushed
  <2>6. /\ Range(heap') \subseteq 0 .. num' - 1
        /\ Range(heap') \cap Range(free') = {}
        /\ (Used' \cup orphan') \cap (Range(heap') \cup Range(free')) = {}
        /\ 0 .. num' - 1 = Range(heap') \cup Range(free') \cup Used' \cup orphan'
    <3>1. /\ Range(heap) \cap Range(free) = {} /\ Range(heap) \subseteq 0 .. num - 1
          /\ (Used \cup orphan) \cap (Range(heap) \cup Range(free)) = {}
          /\ 0 .. num - 1 = Range(heap) \cup Range(free) \cup Used \cup orphan
      BY <1>0 DEF Facts
    <3>2. num' = num /\ free' = free /\ orphan' = orphan /\ Used = {t} /\ Used' = {} /\ t \notin orphan
          /\ t \notin Range(free) /\ Range(heap') = Range(heap) \cup {t} /\ t \in 0 .. num - 1
      BY <1>1, <1>2, <2>1, <2>5
    <3>3. Range(heap') \cap Range(free') = {} /\ Range(heap') \subseteq 0 .. num' - 1
      BY <3>1, <3>2
    <3>4. (Used' \cup orphan') \cap (Range(heap') \cup Range(free')) = {}
      BY <3>1, <3>2
    <3>5. 0 .. num' - 1 = Range(heap') \cup Range(free') \cup Used' \cup orphan'
      BY <3>1, <3>2
    <3> QED
      BY <3>3, <3>4, <3>5
  <2>7. /\ live' \in [Tid -> BOOLEAN] /\ kind' \in [Tid -> {"once", "interval"}]
        /\ free' \in Seq(0 .. num' - 1) /\ IsInjective(free')
        /\ running' \in Tid \cup {None} /\ removed' \in BOOLEAN /\ now' \in 0 .. MaxTick /\ ops' \in Nat
    BY <1>0, <1>1, <2>1 DEF Facts
  <2>8. num' \in 0 .. MaxTimers /\ RunningInv'
    BY <1>1, <1>2
  <2> QED
    BY <2>3, <2>5, <2>6, <2>7, <2>8, FactsInv
<1>5. CASE ~removed
  <2>1. tick' = tick /\ heap' = heap /\ free' = free /\ t \in orphan
    BY <1>0, <1>1, <1>5 DEF Return, Facts, RunningInv
  <2> HIDE DEF t
  <2> QED
    BY <1>0, <1>1, <1>2, <2>1, FactsInv, ZenonT(60) DEF Facts
<1> QED
  BY <1>0, <1>1, <1>3, <1>4, <1>5 DEF Facts

LEMMA TickInv ==
  ASSUME TimersInv, Tick
  PROVE  TimersInv'
<1>0. Facts
  BY InvFacts
<1>1. /\ running = None /\ now' = now + 1 /\ now < MaxTick /\ heap' = heap /\ num' = num /\ free' = free
      /\ tick' = tick /\ live' = live /\ kind' = kind /\ running' = running /\ removed' = removed
      /\ ops' = ops /\ orphan' = orphan
  BY DEF Tick, data
<1>2. now' \in 0 .. MaxTick /\ num \in 0 .. MaxTimers
  BY <1>0, <1>1, Bounds DEF Facts
<1>3. Used' = Used /\ RunningInv'
  BY <1>0, <1>1 DEF Facts, Used, RunningInv
<1> QED
  BY <1>0, <1>1, <1>2, <1>3, FactsInv DEF Facts

LEMMA StepInv == TimersInv /\ [Next]_vars => TimersInv'
<1> SUFFICES ASSUME TimersInv, [Next]_vars PROVE TimersInv'
  OBVIOUS
<1>1. CASE Program
  <2>1. ops' \in Nat /\ now' = now
    BY <1>1 DEF Program, TimersInv, TypeOK
  <2>2. \/ \E at \in 0 .. MaxTick, k \in {"once", "interval"} : AddTimer(at, k)
        \/ \E t \in Tid : DeleteTimer(t)
        \/ \E t \in Tid, at \in 0 .. MaxTick : SetTick(t, at)
    BY <1>1 DEF Program
  <2> QED
    BY <2>1, <2>2, AddTimerInv, DeleteTimerInv, SetTickInv
<1>2. CASE DoTimer
  BY <1>2, CallInv, DropInv, ReturnInv DEF DoTimer
<1>3. CASE Tick
  BY <1>3, TickInv
<1>4. CASE UNCHANGED vars
  BY <1>4 DEF vars, data, TimersInv, TypeOK, HeapOrdered, IdsOnce, RunningInv, Used
<1> QED
  BY <1>1, <1>2, <1>3, <1>4 DEF Next

LEMMA TimersAlways == Spec => []TimersInv
<1> QED
  BY InitInv, StepInv, PTL DEF Spec

\* Every reachable state of timer.cpp is well typed: the heap and the list of free
\* ids name timers that exist.
THEOREM TimersTypeCorrect == Spec => []TypeOK
<1>1. TimersInv => TypeOK
  BY DEF TimersInv
<1> QED
  BY <1>1, TimersAlways, PTL

\* However timers are added, moved, deleted and called, the heap is a heap: do_timer
\* takes them in the order of their ticks (BHEAP_PUSH, BHEAP_POPINDEX).
THEOREM HeapCorrect == Spec => []HeapOrdered
<1>1. TimersInv => HeapOrdered
  BY DEF TimersInv
<1> QED
  BY <1>1, TimersAlways, PTL

\* No id is used twice, and none is lost but those of timers that deleted themselves
\* (acquire_timer, delete_timer, do_timer).
THEOREM IdsCorrect == Spec => []IdsOnce
<1>1. TimersInv => IdsOnce
  BY DEF TimersInv
<1> QED
  BY <1>1, TimersAlways, PTL

============================================================================
