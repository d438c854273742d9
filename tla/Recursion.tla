------------------------------ MODULE Recursion -------------------------------
(***************************************************************************)
(* Lemmas about the recursive functions that ExportRun and Admission are   *)
(* specified by: sums over a sequence, and sequences laid end to end.      *)
(* Induction is over sets of numbers, from the well-foundedness of <.      *)
(***************************************************************************)
EXTENDS Integers, Sequences, FiniteSets, SequencesExt, TLAPS, SequenceTheorems,
        FiniteSetTheorems, WellFoundedInduction

\* Induction: a set that has 0 and is closed under successor has every number.
LEMMA SetInduction ==
  ASSUME NEW S, 0 \in S, \A n \in Nat : n \in S => n + 1 \in S
  PROVE  \A n \in Nat : n \in S
<1> SUFFICES ASSUME NEW m \in Nat, m \notin S PROVE FALSE
  OBVIOUS
<1> DEFINE T == {n \in Nat : n \notin S}
           R == OpToRel(<, Nat)
<1>1. T \subseteq Nat /\ T # {}
  OBVIOUS
<1>2. IsWellFoundedOn(R, Nat)
  BY NatLessThanWellFounded
<1> HIDE DEF R, T
<1>3. PICK x \in T : \A y \in T : ~(<<y, x>> \in R)
  BY <1>1, <1>2, WFMin
<1>4. x \in Nat /\ x \notin S /\ x # 0
  BY <1>3 DEF T
<1>5. x - 1 \in Nat /\ x - 1 \notin S
  BY <1>4
<1>6. <<x - 1, x>> \in R
  BY <1>4, <1>5 DEF R, OpToRel
<1> QED BY <1>3, <1>5, <1>6 DEF T

\* The same up to a bound.
LEMMA UpTo ==
  ASSUME NEW n \in Nat, NEW S, 0 \in S, \A i \in 0 .. n - 1 : i \in S => i + 1 \in S
  PROVE  \A i \in 0 .. n : i \in S
<1> DEFINE T == {i \in Nat : i <= n => i \in S}
<1>1. 0 \in T
  OBVIOUS
<1>2. \A i \in Nat : i \in T => i + 1 \in T
  OBVIOUS
<1> HIDE DEF T
<1>3. \A i \in Nat : i \in T
  BY <1>1, <1>2, SetInduction
<1> QED BY <1>3 DEF T

\* Steps that take a value of V to the next one, and the values that they lead through
Steps(n, V) == [1 .. n -> [V -> V]]
Leads(f, n, V, base, step) ==
  f \in [0 .. n -> V] /\ f[0] = base /\ \A i \in 1 .. n : f[i] = step[i][f[i - 1]]

\* A function that takes each value from the one before it exists.
LEMMA RecursionExists ==
  ASSUME NEW n \in Nat, NEW V, NEW base \in V, NEW step \in Steps(n, V)
  PROVE  \E f : Leads(f, n, V, base, step)
<1> DEFINE Good(f, k) == f[0] = base /\ \A i \in 1 .. k : f[i] = step[i][f[i - 1]]
           S == {k \in 0 .. n : \E f \in [0 .. k -> V] : Good(f, k)}
<1> USE DEF Steps
<1>1. 0 \in S
  <2> DEFINE f == [i \in 0 .. 0 |-> base]
  <2>1. f \in [0 .. 0 -> V] /\ Good(f, 0)
    OBVIOUS
  <2> HIDE DEF f
  <2> QED BY <2>1
<1>2. ASSUME NEW k \in 0 .. n - 1, k \in S PROVE k + 1 \in S
  <2>1. PICK f \in [0 .. k -> V] : Good(f, k)
    BY <1>2
  <2> DEFINE g == [i \in 0 .. k + 1 |-> IF i = k + 1 THEN step[k + 1][f[k]] ELSE f[i]]
  <2>2. step[k + 1] \in [V -> V] /\ f[k] \in V
    BY <2>1
  <2>3. step[k + 1][f[k]] \in V
    BY <2>2
  <2>4. g \in [0 .. k + 1 -> V]
    BY <2>1, <2>3
  <2>5. \A i \in 0 .. k : g[i] = f[i]
    OBVIOUS
  <2>6. g[k + 1] = step[k + 1][f[k]]
    OBVIOUS
  <2> HIDE DEF g
  <2>7. ASSUME NEW i \in 1 .. k + 1 PROVE g[i] = step[i][g[i - 1]]
    <3>1. CASE i = k + 1
      BY <2>5, <2>6, <3>1
    <3>2. CASE i # k + 1
      BY <2>1, <2>5, <3>2
    <3> QED BY <3>1, <3>2
  <2>8. Good(g, k + 1)
    BY <2>1, <2>5, <2>7
  <2>9. k + 1 \in 0 .. n
    OBVIOUS
  <2> HIDE DEF Good
  <2> QED BY <2>4, <2>8, <2>9
<1> HIDE DEF S
<1>3. \A k \in 0 .. n : k \in S
  BY <1>1, <1>2, UpTo
<1>4. n \in S
  BY <1>3
<1>5. PICK f \in [0 .. n -> V] : Good(f, n)
  BY <1>4 DEF S
<1> QED BY <1>5 DEF Leads

-----------------------------------------------------------------------------
(* Sums.                                                                   *)

\* f has the sums of g: f[i] is that of the first i values.
SumsOf(f, g, n) == /\ \A i \in 0 .. n : f[i] \in Int
                   /\ f[0] = 0 /\ \A i \in 1 .. n : f[i] = f[i - 1] + g[i]

\* There are such sums for any sequence of integers.
LEMMA SumsExist ==
  ASSUME NEW n \in Nat, NEW g, \A i \in 1 .. n : g[i] \in Int
  PROVE  \E f \in [0 .. n -> Int] : SumsOf(f, g, n)
<1> DEFINE step == [i \in 1 .. n |-> [v \in Int |-> v + g[i]]]
<1>1. step \in Steps(n, Int) /\ 0 \in Int
  BY DEF Steps
<1>2. \A i \in 1 .. n, v \in Int : step[i][v] = v + g[i]
  OBVIOUS
<1> HIDE DEF step
<1>3. PICK f : Leads(f, n, Int, 0, step)
  BY <1>1, RecursionExists
<1>4. f \in [0 .. n -> Int] /\ \A i \in 1 .. n : f[i - 1] \in Int
  BY <1>3 DEF Leads
<1>5. f[0] = 0 /\ \A i \in 1 .. n : f[i] = step[i][f[i - 1]]
  BY <1>3 DEF Leads
<1>6. \A i \in 1 .. n : f[i] = f[i - 1] + g[i]
  BY <1>2, <1>4, <1>5
<1>7. \A i \in 0 .. n : f[i] \in Int
  BY <1>4
<1>8. SumsOf(f, g, n)
  BY <1>5, <1>6, <1>7 DEF SumsOf
<1> QED BY <1>4, <1>8

\* Larger values have larger sums; the same values have the same.
LEMMA SumsMonotone ==
  ASSUME NEW n \in Nat, NEW f, NEW g, NEW h, NEW e,
         \A i \in 1 .. n : g[i] \in Int /\ e[i] \in Int /\ g[i] <= e[i],
         SumsOf(f, g, n), SumsOf(h, e, n)
  PROVE  \A i \in 0 .. n : f[i] <= h[i]
<1> DEFINE S == {i \in 0 .. n : f[i] <= h[i]}
<1>1. 0 \in S
  BY DEF SumsOf
<1>2. ASSUME NEW i \in 0 .. n - 1, i \in S PROVE i + 1 \in S
  <2>1. /\ f[i + 1] = f[i] + g[i + 1] /\ h[i + 1] = h[i] + e[i + 1]
        /\ f[i] \in Int /\ h[i] \in Int /\ g[i + 1] <= e[i + 1]
        /\ g[i + 1] \in Int /\ e[i + 1] \in Int
    BY DEF SumsOf
  <2> QED BY <1>2, <2>1
<1> HIDE DEF S
<1>3. \A i \in 0 .. n : i \in S
  BY <1>1, <1>2, UpTo
<1> QED BY <1>3 DEF S

\* A sum of natural numbers grows from each term to the next.
LEMMA SumsGrow ==
  ASSUME NEW n \in Nat, NEW f, NEW g, \A i \in 1 .. n : g[i] \in Nat, SumsOf(f, g, n)
  PROVE  \A i \in 0 .. n : f[i] \in Nat /\ f[i] <= f[n]
<1> DEFINE S == {i \in 0 .. n : f[i] \in Nat /\ \A j \in 0 .. i : f[j] <= f[i]}
<1>1. 0 \in S
  BY DEF SumsOf
<1>2. ASSUME NEW i \in 0 .. n - 1, i \in S PROVE i + 1 \in S
  <2>1. f[i + 1] = f[i] + g[i + 1] /\ f[i] \in Nat /\ g[i + 1] \in Nat
    BY <1>2 DEF SumsOf
  <2>2. \A j \in 0 .. i : f[j] <= f[i] /\ f[j] \in Int
    BY <1>2 DEF SumsOf
  <2>3. \A j \in 0 .. i + 1 : j \in 0 .. i \/ j = i + 1
    OBVIOUS
  <2>4. \A j \in 0 .. i + 1 : f[j] <= f[i + 1]
    BY <2>1, <2>2, <2>3
  <2> QED BY <2>1, <2>4
<1> HIDE DEF S
<1>3. \A i \in 0 .. n : i \in S
  BY <1>1, <1>2, UpTo
<1> QED BY <1>3 DEF S

\* The same values but for one
SameBut(g, e, j, n) == \A i \in 1 .. n : /\ g[i] \in Int /\ e[i] \in Int
                                         /\ i # j => g[i] = e[i]

\* Another value at one index changes the sum by the difference.
LEMMA SumsExcept ==
  ASSUME NEW n \in Nat, NEW f, NEW g, NEW h, NEW e, NEW j \in 1 .. n, SameBut(g, e, j, n),
         SumsOf(f, g, n), SumsOf(h, e, n)
  PROVE  h[n] = f[n] - g[j] + e[j]
<1> USE DEF SameBut
<1> DEFINE S == {i \in 0 .. n : h[i] = IF i < j THEN f[i] ELSE f[i] - g[j] + e[j]}
<1>1. 0 \in S
  BY DEF SumsOf
<1>2. ASSUME NEW i \in 0 .. n - 1, i \in S PROVE i + 1 \in S
  <2>1. /\ f[i + 1] = f[i] + g[i + 1] /\ h[i + 1] = h[i] + e[i + 1]
        /\ f[i] \in Int /\ h[i] \in Int
        /\ g[i + 1] \in Int /\ e[i + 1] \in Int /\ g[j] \in Int /\ e[j] \in Int
        /\ h[i] = IF i < j THEN f[i] ELSE f[i] - g[j] + e[j]
    BY <1>2 DEF SumsOf
  <2>2. CASE i + 1 = j
    BY <2>1, <2>2
  <2>3. CASE i + 1 # j
    <3>1. g[i + 1] = e[i + 1]
      BY <2>3
    <3> QED BY <2>1, <2>3, <3>1
  <2> QED BY <2>2, <2>3
<1> HIDE DEF S
<1>3. \A i \in 0 .. n : i \in S
  BY <1>1, <1>2, UpTo
<1>4. n \in S
  BY <1>3
<1> QED BY <1>4 DEF S

\* The same values have the same sum.
LEMMA SumsSame ==
  ASSUME NEW n \in Nat, NEW f, NEW g, NEW h, NEW e,
         \A i \in 1 .. n : g[i] \in Int /\ e[i] = g[i], SumsOf(f, g, n), SumsOf(h, e, n)
  PROVE  h[n] = f[n]
<1>1. f[n] <= h[n] /\ h[n] <= f[n]
  BY SumsMonotone
<1> QED BY <1>1 DEF SumsOf

IsPermutation(p, n) == /\ p \in [1 .. n -> 1 .. n]
                       /\ \A i, j \in 1 .. n : p[i] = p[j] => i = j
                       /\ \A j \in 1 .. n : \E i \in 1 .. n : p[i] = j

\* A permutation without its last index, the hole filled by what was there
LEMMA PermutationShrinks ==
  ASSUME NEW n \in Nat, NEW p, IsPermutation(p, n + 1)
  PROVE  IsPermutation([i \in 1 .. n |-> IF p[i] = n + 1 THEN p[n + 1] ELSE p[i]], n)
<1> DEFINE q == [i \in 1 .. n |-> IF p[i] = n + 1 THEN p[n + 1] ELSE p[i]]
<1>1. \A i \in 1 .. n : i \in 1 .. n + 1 /\ i # n + 1
  OBVIOUS
<1>2. n + 1 \in 1 .. n + 1
  OBVIOUS
<1>3. \A i \in 1 .. n + 1 : p[i] \in 1 .. n + 1
  BY DEF IsPermutation
<1>4. \A i, j \in 1 .. n + 1 : p[i] = p[j] => i = j
  BY DEF IsPermutation
<1>5. \A i \in 1 .. n : q[i] = IF p[i] = n + 1 THEN p[n + 1] ELSE p[i]
  OBVIOUS
<1>6. \A i \in 1 .. n : q[i] \in 1 .. n
  <2> SUFFICES ASSUME NEW i \in 1 .. n PROVE q[i] \in 1 .. n
    OBVIOUS
  <2>1. p[i] \in 1 .. n + 1 /\ p[n + 1] \in 1 .. n + 1 /\ p[i] # p[n + 1]
    BY <1>1, <1>2, <1>3, <1>4
  <2> QED BY <1>5, <2>1
<1>7. q \in [1 .. n -> 1 .. n]
  BY <1>6
<1> HIDE DEF q
<1>8. ASSUME NEW i \in 1 .. n, NEW j \in 1 .. n, q[i] = q[j] PROVE i = j
  <2>1. p[i] # p[n + 1] /\ p[j] # p[n + 1]
    BY <1>1, <1>2, <1>4
  <2>2. p[i] = p[j]
    BY <1>5, <1>8, <2>1
  <2> QED BY <1>1, <1>4, <2>2
<1>9. ASSUME NEW j \in 1 .. n PROVE \E i \in 1 .. n : q[i] = j
  <2>1. j \in 1 .. n + 1 /\ j # n + 1
    BY <1>1
  <2>2. PICK i \in 1 .. n + 1 : p[i] = j
    BY <2>1 DEF IsPermutation
  <2>3. PICK b \in 1 .. n + 1 : p[b] = n + 1
    BY <1>2 DEF IsPermutation
  <2>4. CASE i \in 1 .. n
    BY <1>5, <2>1, <2>2, <2>4
  <2>5. CASE i \notin 1 .. n
    <3>1. i = n + 1
      BY <2>5
    <3>2. b \in 1 .. n
      BY <2>1, <2>2, <2>3, <3>1
    <3> QED BY <1>5, <2>2, <2>3, <3>1, <3>2
  <2> QED BY <2>4, <2>5
<1>10. IsPermutation(q, n)
  BY <1>7, <1>8, <1>9 DEF IsPermutation
<1> QED BY <1>10 DEF q

\* A sum does not depend on the order of its terms.
LEMMA SumsPermuted ==
  \A n \in Nat : \A p, f, g, h, e :
    IsPermutation(p, n) /\ (\A i \in 1 .. n : g[i] \in Int /\ e[i] = g[p[i]])
      /\ SumsOf(f, g, n) /\ SumsOf(h, e, n) => h[n] = f[n]
<1> DEFINE Same(n) == \A p, f, g, h, e :
             IsPermutation(p, n) /\ (\A i \in 1 .. n : g[i] \in Int /\ e[i] = g[p[i]])
               /\ SumsOf(f, g, n) /\ SumsOf(h, e, n) => h[n] = f[n]
           S == {n \in Nat : Same(n)}
<1>1. 0 \in S
  BY DEF SumsOf
<1>2. ASSUME NEW n \in Nat, n \in S PROVE n + 1 \in S
  <2> SUFFICES ASSUME NEW p, NEW f, NEW g, NEW h, NEW e, IsPermutation(p, n + 1),
                      \A i \in 1 .. n + 1 : g[i] \in Int /\ e[i] = g[p[i]],
                      SumsOf(f, g, n + 1), SumsOf(h, e, n + 1)
               PROVE  h[n + 1] = f[n + 1]
    OBVIOUS
  <2> DEFINE q == [i \in 1 .. n |-> IF p[i] = n + 1 THEN p[n + 1] ELSE p[i]]
             u == [i \in 1 .. n |-> g[q[i]]]
  <2>1. IsPermutation(q, n)
    BY PermutationShrinks
  <2>2. /\ \A i \in 1 .. n : i \in 1 .. n + 1
        /\ n + 1 \in 1 .. n + 1 /\ \A i \in 1 .. n + 1 : p[i] \in 1 .. n + 1
        /\ \A i, j \in 1 .. n + 1 : p[i] = p[j] => i = j
    <3>1. /\ \A i \in 1 .. n : i \in 1 .. n + 1
          /\ n + 1 \in 1 .. n + 1
      OBVIOUS
    <3>2. p \in [1 .. n + 1 -> 1 .. n + 1]
      BY DEF IsPermutation
    <3>3. \A i, j \in 1 .. n + 1 : p[i] = p[j] => i = j
      BY DEF IsPermutation
    <3> QED BY <3>1, <3>2, <3>3
  <2>3. \A i \in 1 .. n : q[i] = IF p[i] = n + 1 THEN p[n + 1] ELSE p[i]
    OBVIOUS
  <2>4. \A i \in 1 .. n : u[i] = g[q[i]] /\ q[i] \in 1 .. n
    BY <2>1 DEF IsPermutation
  <2> HIDE DEF q, u
  <2>5. \A i \in 1 .. n : u[i] \in Int /\ g[i] \in Int /\ e[i] \in Int
    BY <2>2, <2>4
  <2>6. PICK k \in [0 .. n -> Int] : SumsOf(k, u, n)
    BY <2>5, SumsExist
  <2>7. SumsOf(f, g, n) /\ SumsOf(h, e, n)
    BY DEF SumsOf
  <2>8. k[n] = f[n]
    <3>1. \A pp, ff, gg, hh, ee :
            IsPermutation(pp, n) /\ (\A i \in 1 .. n : gg[i] \in Int /\ ee[i] = gg[pp[i]])
              /\ SumsOf(ff, gg, n) /\ SumsOf(hh, ee, n) => hh[n] = ff[n]
      BY <1>2
    <3>2. IsPermutation(q, n) /\ (\A i \in 1 .. n : g[i] \in Int /\ u[i] = g[q[i]])
            /\ SumsOf(f, g, n) /\ SumsOf(k, u, n) => k[n] = f[n]
      BY <3>1
    <3> QED BY <2>1, <2>4, <2>5, <2>6, <2>7, <3>2
  <2>9. /\ f[n + 1] = f[n] + g[n + 1] /\ f[n] \in Int
        /\ h[n + 1] = h[n] + g[p[n + 1]] /\ h[n] \in Int
        /\ g[n + 1] \in Int /\ g[p[n + 1]] \in Int
    BY <2>2 DEF SumsOf
  <2>10. CASE p[n + 1] = n + 1
    <3>1. \A i \in 1 .. n : p[i] # n + 1
      BY <2>2, <2>10
    <3>2. ASSUME NEW i \in 1 .. n PROVE e[i] = u[i]
      <4>1. i \in 1 .. n + 1 /\ q[i] = p[i]
        BY <2>2, <2>3, <3>1
      <4> QED BY <2>4, <4>1
    <3>3. h[n] = k[n]
      BY <2>5, <2>6, <2>7, <3>2, SumsSame
    <3> QED BY <2>8, <2>9, <2>10, <3>3
  <2>11. CASE p[n + 1] # n + 1
    <3>1. PICK b \in 1 .. n + 1 : p[b] = n + 1
      BY <2>2 DEF IsPermutation
    <3>2. b \in 1 .. n
      BY <2>11, <3>1
    <3>3. ASSUME NEW i \in 1 .. n, i # b PROVE u[i] = e[i]
      <4>1. p[i] # n + 1
        BY <2>2, <3>1, <3>3
      <4> QED BY <2>2, <2>3, <2>4, <4>1
    <3>4. h[n] = k[n] - u[b] + e[b]
      <4>1. SameBut(u, e, b, n)
        BY <2>5, <3>3 DEF SameBut
      <4> QED BY <2>6, <2>7, <3>2, <4>1, SumsExcept
    <3>5. u[b] = g[p[n + 1]] /\ e[b] = g[n + 1]
      BY <2>2, <2>3, <2>4, <3>1, <3>2
    <3> QED BY <2>8, <2>9, <3>4, <3>5
  <2> QED BY <2>10, <2>11
<1> HIDE DEF S
<1>3. \A n \in Nat : n \in S
  BY <1>1, <1>2, SetInduction
<1> QED BY <1>3 DEF S

\* Two sequences of n values have each value equally often.
SameOften(o, s, n, C) ==
  /\ s \in [1 .. n -> C] /\ o \in [1 .. n -> C]
  /\ \A c \in C : Cardinality({i \in 1 .. n : o[i] = c})
                 = Cardinality({i \in 1 .. n : s[i] = c})

\* They are permutations of each other.
LEMMA SameFibres ==
  ASSUME NEW n \in Nat, NEW C, NEW s, NEW o, SameOften(o, s, n, C)
  PROVE  \E p : IsPermutation(p, n) /\ \A i \in 1 .. n : o[i] = s[p[i]]
<1> DEFINE In(x, c) == {i \in 1 .. n : x[i] = c}
           bij == [c \in C |-> CHOOSE b : b \in Bijection(In(o, c), In(s, c))]
           p == [i \in 1 .. n |-> bij[o[i]][i]]
<1>1. ASSUME NEW c \in C
      PROVE  bij[c] \in Bijection(In(o, c), In(s, c))
  <2>1. IsFiniteSet(1 .. n)
    BY FS_Interval
  <2>2. IsFiniteSet(In(o, c)) /\ IsFiniteSet(In(s, c))
    BY <2>1, FS_Subset
  <2>3. Cardinality(In(o, c)) = Cardinality(In(s, c))
    BY DEF SameOften
  <2> HIDE DEF In
  <2>4. ExistsBijection(In(o, c), In(s, c))
    BY <2>2, <2>3, FS_SameCardinalityBij
  <2>5. \E b : b \in Bijection(In(o, c), In(s, c))
    BY <2>4 DEF ExistsBijection
  <2> QED BY <2>5
<1> HIDE DEF bij
<1>2. \A i \in 1 .. n : o[i] \in C /\ i \in In(o, o[i]) /\ p[i] = bij[o[i]][i]
  BY DEF SameOften
<1> HIDE DEF p
<1>3. ASSUME NEW c \in C
      PROVE  /\ \A i \in In(o, c) : bij[c][i] \in In(s, c)
             /\ \A i, j \in In(o, c) : bij[c][i] = bij[c][j] => i = j
             /\ \A j \in In(s, c) : \E i \in In(o, c) : bij[c][i] = j
  <2>1. bij[c] \in Bijection(In(o, c), In(s, c))
    BY <1>1
  <2> HIDE DEF In
  <2> QED BY <2>1 DEF Bijection, Injection, Surjection, IsInjective
<1>4. \A i \in 1 .. n : p[i] \in In(s, o[i])
  BY <1>2, <1>3
<1>5. \A i \in 1 .. n : p[i] \in 1 .. n /\ o[i] = s[p[i]]
  BY <1>4
<1>6. ASSUME NEW i \in 1 .. n, NEW j \in 1 .. n, p[i] = p[j] PROVE i = j
  <2>1. o[i] = o[j]
    BY <1>5, <1>6
  <2>2. i \in In(o, o[i]) /\ j \in In(o, o[i]) /\ o[i] \in C
    BY <1>2, <2>1
  <2>3. bij[o[i]][i] = bij[o[i]][j]
    BY <1>2, <1>6, <2>1
  <2> QED BY <1>3, <2>2, <2>3
<1>7. ASSUME NEW j \in 1 .. n PROVE \E i \in 1 .. n : p[i] = j
  <2>1. s[j] \in C /\ j \in In(s, s[j])
    BY DEF SameOften
  <2>2. PICK i \in In(o, s[j]) : bij[s[j]][i] = j
    BY <1>3, <2>1
  <2>3. i \in 1 .. n /\ o[i] = s[j]
    OBVIOUS
  <2> QED BY <1>2, <2>2, <2>3
<1>8. p \in [1 .. n -> 1 .. n]
  BY <1>5 DEF p
<1> QED BY <1>5, <1>6, <1>7, <1>8 DEF IsPermutation

-----------------------------------------------------------------------------
(* Sequences laid end to end.                                              *)

\* f[i] has the first i of seqs end to end.
FlatsOf(f, seqs, n, S) == /\ \A i \in 0 .. n : f[i] \in Seq(S)
                          /\ f[0] = <<>> /\ \A i \in 1 .. n : f[i] = f[i - 1] \o seqs[i]

\* There are such sequences for any sequences that are laid end to end.
LEMMA FlatsExist ==
  ASSUME NEW n \in Nat, NEW S, NEW seqs, \A i \in 1 .. n : seqs[i] \in Seq(S)
  PROVE  \E f \in [0 .. n -> Seq(S)] : FlatsOf(f, seqs, n, S)
<1> DEFINE step == [i \in 1 .. n |-> [v \in Seq(S) |-> v \o seqs[i]]]
<1>1. step \in Steps(n, Seq(S)) /\ <<>> \in Seq(S)
  <2>1. \A i \in 1 .. n, v \in Seq(S) : v \o seqs[i] \in Seq(S)
    BY ConcatProperties
  <2> QED BY <2>1, EmptySeq DEF Steps
<1>2. \A i \in 1 .. n, v \in Seq(S) : step[i][v] = v \o seqs[i]
  OBVIOUS
<1> HIDE DEF step
<1>3. PICK f : Leads(f, n, Seq(S), <<>>, step)
  BY <1>1, RecursionExists
<1>4. f \in [0 .. n -> Seq(S)] /\ \A i \in 1 .. n : f[i - 1] \in Seq(S)
  BY <1>3 DEF Leads
<1>5. f[0] = <<>> /\ \A i \in 1 .. n : f[i] = step[i][f[i - 1]]
  BY <1>3 DEF Leads
<1>6. \A i \in 1 .. n : f[i] = f[i - 1] \o seqs[i]
  BY <1>2, <1>4, <1>5
<1>7. \A i \in 0 .. n : f[i] \in Seq(S)
  BY <1>4
<1>8. FlatsOf(f, seqs, n, S)
  BY <1>5, <1>6, <1>7 DEF FlatsOf
<1> QED BY <1>4, <1>8

\* FlattenSeq lays them all end to end.
LEMMA FlattenIs ==
  ASSUME NEW n \in Nat, NEW S, NEW seqs \in [1 .. n -> Seq(S)], NEW f, FlatsOf(f, seqs, n, S)
  PROVE  FlattenSeq(seqs) = f[n]
<1>1. seqs \in Seq(Seq(S)) /\ Len(seqs) = n
  OBVIOUS
<1>2. CASE n = 0
  <2>1. seqs = <<>>
    BY <1>1, <1>2, EmptySeq
  <2> QED BY <1>1, <1>2, <2>1 DEF FlattenSeq, FlatsOf
<1>3. CASE n # 0
  <2> DEFINE Body(fl) == [i \in 1 .. n |-> IF i = 1 THEN seqs[i] ELSE fl[i - 1] \o seqs[i]]
             flat == CHOOSE fl : fl = Body(fl)
             g == [i \in 1 .. n |-> f[i]]
  <2>1. FlattenSeq(seqs) = flat[n]
    BY <1>1, <1>3 DEF FlattenSeq
  <2>2. \A i \in 1 .. n : g[i] = IF i = 1 THEN seqs[i] ELSE g[i - 1] \o seqs[i]
    <3> SUFFICES ASSUME NEW i \in 1 .. n
                 PROVE  g[i] = IF i = 1 THEN seqs[i] ELSE g[i - 1] \o seqs[i]
      OBVIOUS
    <3>1. f[i] = f[i - 1] \o seqs[i] /\ f[0] = <<>> /\ seqs[i] \in Seq(S)
      BY DEF FlatsOf
    <3>2. CASE i = 1
      <4>1. f[i - 1] = <<>>
        BY <3>1, <3>2
      <4>2. f[i] = seqs[i]
        BY <3>1, <4>1, ConcatEmptySeq
      <4> QED BY <3>2, <4>2
    <3>3. CASE i # 1
      BY <3>1, <3>3
    <3> QED BY <3>2, <3>3
  <2>3. g = Body(g)
    BY <2>2
  <2> HIDE DEF g
  <2>4. flat = Body(flat)
    BY <2>3
  <2> HIDE DEF flat
  <2>5. \A i \in 1 .. n : flat[i] = IF i = 1 THEN seqs[i] ELSE flat[i - 1] \o seqs[i]
    BY <2>4
  <2> DEFINE T == {i \in 0 .. n : i # 0 => flat[i] = f[i]}
  <2>6. 0 \in T
    OBVIOUS
  <2>7. ASSUME NEW i \in 0 .. n - 1, i \in T PROVE i + 1 \in T
    <3>1. PICK k \in 1 .. n : k = i + 1 /\ k - 1 = i
      OBVIOUS
    <3>2. f[k] = f[i] \o seqs[k] /\ f[0] = <<>> /\ seqs[k] \in Seq(S)
      <4>1. f[k] = f[k - 1] \o seqs[k] /\ f[0] = <<>>
        BY DEF FlatsOf
      <4> QED BY <3>1, <4>1
    <3>3. flat[k] = IF k = 1 THEN seqs[k] ELSE flat[k - 1] \o seqs[k]
      BY <2>5
    <3>4. CASE i = 0
      <4>1. f[k] = seqs[k]
        BY <3>2, <3>4, ConcatEmptySeq
      <4> QED BY <3>1, <3>3, <3>4, <4>1
    <3>5. CASE i # 0
      <4>1. flat[i] = f[i]
        BY <2>7, <3>5
      <4>2. k # 1
        BY <3>1, <3>5
      <4>3. flat[k] = flat[k - 1] \o seqs[k]
        BY <3>3, <4>2
      <4>4. flat[k] = f[k]
        BY <3>1, <3>2, <4>1, <4>3, Zenon
      <4> QED BY <3>1, <4>4
    <3> QED BY <3>4, <3>5
  <2> HIDE DEF T
  <2>8. \A i \in 0 .. n : i \in T
    BY <2>6, <2>7, UpTo
  <2>9. n \in T
    BY <2>8
  <2> QED BY <1>3, <2>1, <2>9 DEF T
<1> QED BY <1>2, <1>3

\* Nothing is laid of none.
LEMMA FlattenNone == FlattenSeq(<<>>) = <<>>
  BY EmptySeq DEF FlattenSeq

\* One more sequence is laid behind the others.
LEMMA FlattenAdds ==
  ASSUME NEW n \in Nat, NEW S, NEW seqs \in [1 .. n + 1 -> Seq(S)],
         NEW front \in [1 .. n -> Seq(S)], \A i \in 1 .. n : front[i] = seqs[i]
  PROVE  /\ FlattenSeq(front) \in Seq(S) /\ FlattenSeq(seqs) \in Seq(S)
         /\ FlattenSeq(seqs) = FlattenSeq(front) \o seqs[n + 1]
<1>1. n + 1 \in Nat /\ \A i \in 1 .. n + 1 : seqs[i] \in Seq(S)
  OBVIOUS
<1>2. PICK f : FlatsOf(f, seqs, n + 1, S)
  BY <1>1, FlatsExist
<1>3. /\ \A i \in 0 .. n + 1 : f[i] \in Seq(S)
      /\ f[0] = <<>> /\ \A i \in 1 .. n + 1 : f[i] = f[i - 1] \o seqs[i]
  BY <1>2 DEF FlatsOf
<1>4. FlatsOf(f, front, n, S)
  <2>1. \A i \in 1 .. n : i \in 1 .. n + 1
    OBVIOUS
  <2>2. \A i \in 1 .. n : f[i] = f[i - 1] \o front[i]
    BY <1>3, <2>1
  <2>3. \A i \in 0 .. n : i \in 0 .. n + 1
    OBVIOUS
  <2> QED BY <1>3, <2>2, <2>3 DEF FlatsOf
<1>5. FlattenSeq(front) = f[n]
  BY <1>4, FlattenIs
<1>6. FlattenSeq(seqs) = f[n + 1]
  BY <1>1, <1>2, FlattenIs
<1>7. PICK k \in 1 .. n + 1 : k = n + 1 /\ k - 1 = n
  OBVIOUS
<1>8. f[k] = f[k - 1] \o seqs[k] /\ f[k] \in Seq(S) /\ f[k - 1] \in Seq(S)
  <2>1. k \in 0 .. n + 1 /\ k - 1 \in 0 .. n + 1
    OBVIOUS
  <2> QED BY <1>3, <2>1
<1> QED BY <1>5, <1>6, <1>7, <1>8

\* What is appended to the last sequence is appended to all.
LEMMA AppendBehind ==
  ASSUME NEW S, NEW s \in Seq(S), NEW t \in Seq(S), NEW e \in S
  PROVE  s \o Append(t, e) = Append(s \o t, e)
<1>1. Append(t, e) = t \o <<e>> /\ <<e>> \in Seq(S)
  BY AppendIsConcat
<1>2. s \o t \in Seq(S)
  BY ConcatProperties
<1>3. Append(s \o t, e) = (s \o t) \o <<e>>
  BY <1>2, AppendIsConcat
<1>4. \A u \in Seq(S) : (s \o t) \o u = s \o (t \o u)
  BY ConcatAssociative
<1> QED BY <1>1, <1>3, <1>4

=============================================================================
