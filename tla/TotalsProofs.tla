---------------------------- MODULE TotalsProofs ----------------------------
(***************************************************************************)
(* Facts about running totals, by induction over a set of natural numbers: *)
(* what the total is when values are added at the end or at the front,     *)
(* taken from the front, or grow.                                          *)
(***************************************************************************)
EXTENDS Totals, WellFoundedInduction, TLAPS

\* A nonempty set of natural numbers has a least element.
LEMMA LeastNatural ==
    ASSUME NEW S \in SUBSET Nat, S # {}
    PROVE  \E m \in S : \A n \in S : m <= n
<1> DEFINE R == {ss \in Nat \X Nat : ss[1] < ss[2]}
<1>1. IsWellFoundedOn(R, Nat)
  BY NatLessThanWellFounded DEF OpToRel
<1>2. \A n, m \in Nat : n < m => <<n, m>> \in R
  OBVIOUS
<1>. HIDE DEF R
<1>3. PICK m \in S : \A n \in S : <<n, m>> \notin R
  BY <1>1, WFMin
<1>4. \A n \in S : ~(n < m)
  BY <1>2, <1>3
<1>. QED
  BY <1>4

\* Induction, for a set of natural numbers.
LEMMA InductiveSet ==
    ASSUME NEW S \in SUBSET Nat, 0 \in S, \A n \in S : n + 1 \in S
    PROVE  \A n \in Nat : n \in S
<1> SUFFICES ASSUME Nat \ S # {} PROVE FALSE
  OBVIOUS
<1>1. PICK m \in Nat \ S : \A n \in Nat \ S : m <= n
  <2> DEFINE T == Nat \ S
  <2>1. T \in SUBSET Nat /\ T # {}
    OBVIOUS
  <2> HIDE DEF T
  <2>2. \E m \in T : \A n \in T : m <= n
    BY <2>1, LeastNatural
  <2>. QED
    BY <2>2 DEF T
<1>2. m - 1 \in Nat /\ m - 1 \in S /\ m = (m - 1) + 1
  BY <1>1
<1>. QED
  BY <1>1, <1>2

\* t is the running total of f on 0 .. n.
Sums(t, f, n) == t \in [0 .. n -> Int] /\ t[0] = 0 /\ \A i \in 1 .. n : t[i] = t[i - 1] + f[i]

LEMMA SumsExist ==
    ASSUME NEW n \in Nat, NEW f \in [1 .. n -> Int]
    PROVE  \E t : Sums(t, f, n)
<1> DEFINE S == {k \in Nat : k <= n => \E t : Sums(t, f, k)}
<1>1. 0 \in S
  <2>1. Sums([i \in 0 .. 0 |-> 0], f, 0)
    BY DEF Sums
  <2>. QED
    BY <2>1
<1>2. ASSUME NEW k \in S PROVE k + 1 \in S
  <2>1. SUFFICES ASSUME k + 1 <= n PROVE \E t : Sums(t, f, k + 1)
    OBVIOUS
  <2>2. PICK t : Sums(t, f, k)
    BY <2>1, <1>2
  <2> DEFINE u == [i \in 0 .. k + 1 |-> IF i = k + 1 THEN t[k] + f[k + 1] ELSE t[i]]
  <2>3. t[k] + f[k + 1] \in Int
    BY <2>1, <2>2 DEF Sums
  <2>4. u \in [0 .. k + 1 -> Int] /\ u[0] = 0
    BY <2>2, <2>3 DEF Sums
  <2>5. ASSUME NEW i \in 1 .. k + 1 PROVE u[i] = u[i - 1] + f[i]
    <3>1. i - 1 \in 0 .. k /\ u[i - 1] = t[i - 1]
      OBVIOUS
    <3>2. CASE i = k + 1
      BY <3>1, <3>2
    <3>3. CASE i # k + 1
      <4>1. i \in 1 .. k /\ u[i] = t[i]
        BY <3>3
      <4>. QED
        BY <3>1, <4>1, <2>2 DEF Sums
    <3>. QED
      BY <3>2, <3>3
  <2> HIDE DEF u
  <2>6. Sums(u, f, k + 1)
    BY <2>4, <2>5 DEF Sums
  <2>. QED
    BY <2>6
<1> HIDE DEF S
<1>3. S \in SUBSET Nat
  BY DEF S
<1>4. n \in S
  BY <1>1, <1>2, <1>3, InductiveSet
<1>. QED
  BY <1>4 DEF S

LEMMA SumsAgree ==
    ASSUME NEW n \in Nat, NEW f, NEW g, \A i \in 1 .. n : f[i] = g[i]
    PROVE  \A t, u : Sums(t, f, n) /\ Sums(u, g, n) => t[n] = u[n]
<1> SUFFICES ASSUME NEW t, NEW u, Sums(t, f, n), Sums(u, g, n) PROVE t[n] = u[n]
  OBVIOUS
<1> DEFINE S == {k \in Nat : k <= n => t[k] = u[k]}
<1>1. 0 \in S
  BY DEF Sums
<1>2. ASSUME NEW k \in S PROVE k + 1 \in S
  BY DEF Sums
<1> HIDE DEF S
<1>3. S \in SUBSET Nat
  BY DEF S
<1>4. n \in S
  BY <1>1, <1>2, <1>3, InductiveSet
<1>. QED
  BY <1>4 DEF S

\* Total() is what its definition says.
LEMMA TotalSums ==
    ASSUME NEW n \in Nat, NEW f \in [1 .. n -> Int]
    PROVE  \E t : Sums(t, f, n) /\ Total(f, n) = t[n]
<1> DEFINE t == CHOOSE t : t = [i \in 0 .. n |-> IF i = 0 THEN 0 ELSE t[i - 1] + f[i]]
<1>1. PICK s : Sums(s, f, n)
  BY SumsExist
<1>2. s = [i \in 0 .. n |-> IF i = 0 THEN 0 ELSE s[i - 1] + f[i]]
  BY <1>1 DEF Sums
<1>3. t = [i \in 0 .. n |-> IF i = 0 THEN 0 ELSE t[i - 1] + f[i]]
  BY <1>2
<1>4. Total(f, n) = t[n]
  BY DEF Total
<1> HIDE DEF t
<1> DEFINE S == {k \in Nat : k <= n => t[k] = s[k]}
<1>5. 0 \in S
  BY <1>1, <1>3 DEF Sums
<1>6. ASSUME NEW k \in S PROVE k + 1 \in S
  <2>1. CASE k + 1 <= n
    <3>1. t[k + 1] = t[k] + f[k + 1]
      BY <2>1, <1>3
    <3>. QED
      BY <2>1, <3>1, <1>1 DEF Sums
  <2>. QED
    BY <2>1
<1> HIDE DEF S
<1>7. n \in S
  BY <1>5, <1>6, InductiveSet DEF S
<1>8. Total(f, n) = s[n]
  BY <1>4, <1>7 DEF S
<1>. QED
  BY <1>1, <1>8

\* The total of nothing; of a function with one more value; and of two functions that agree.
LEMMA TotalZero ==
    ASSUME NEW f \in [1 .. 0 -> Int]
    PROVE  Total(f, 0) = 0
<1>1. PICK t : Sums(t, f, 0) /\ Total(f, 0) = t[0]
  BY TotalSums
<1>. QED
  BY <1>1 DEF Sums

LEMMA TotalNext ==
    ASSUME NEW n \in Nat, NEW f \in [1 .. n + 1 -> Int], NEW g \in [1 .. n -> Int],
           \A i \in 1 .. n : f[i] = g[i]
    PROVE  Total(f, n + 1) = Total(g, n) + f[n + 1] /\ Total(g, n) \in Int
<1>1. PICK t : Sums(t, f, n + 1) /\ Total(f, n + 1) = t[n + 1]
  BY TotalSums
<1>2. PICK u : Sums(u, g, n) /\ Total(g, n) = u[n]
  BY TotalSums
<1> DEFINE s == [i \in 0 .. n |-> t[i]]
<1>3. Sums(s, f, n)
  BY <1>1 DEF Sums
<1>4. s[n] = t[n]
  OBVIOUS
<1> HIDE DEF s
<1>5. s[n] = u[n]
  <2>1. \A v, w : Sums(v, f, n) /\ Sums(w, g, n) => v[n] = w[n]
    BY SumsAgree
  <2>. QED
    BY <1>2, <1>3, <2>1
<1>6. t[n + 1] = t[n] + f[n + 1] /\ u[n] \in Int
  <2>1. n + 1 \in 1 .. n + 1 /\ (n + 1) - 1 = n /\ n \in 0 .. n
    OBVIOUS
  <2>. QED
    BY <1>1, <1>2, <2>1 DEF Sums
<1>. QED
  BY <1>1, <1>2, <1>4, <1>5, <1>6

LEMMA TotalInt ==
    ASSUME NEW n \in Nat, NEW f \in [1 .. n -> Int]
    PROVE  Total(f, n) \in Int
<1>1. PICK t : Sums(t, f, n) /\ Total(f, n) = t[n]
  BY TotalSums
<1>. QED
  BY <1>1 DEF Sums

\* One value that grows makes the total grow as much.
LEMMA TotalGrows ==
    ASSUME NEW n \in Nat, NEW f \in [1 .. n -> Int], NEW j \in 1 .. n, NEW d \in Int
    PROVE  Total([f EXCEPT ![j] = @ + d], n) = Total(f, n) + d
<1> DEFINE g == [f EXCEPT ![j] = @ + d]
<1>1. PICK t : Sums(t, f, n) /\ Total(f, n) = t[n]
  BY TotalSums
<1>2. g \in [1 .. n -> Int] /\ g[j] = f[j] + d /\ \A i \in 1 .. n : i # j => g[i] = f[i]
  OBVIOUS
<1> HIDE DEF g
<1>3. PICK u : Sums(u, g, n) /\ Total(g, n) = u[n]
  BY <1>2, TotalSums
<1> DEFINE S == {k \in Nat : k <= n => u[k] = t[k] + IF k < j THEN 0 ELSE d}
<1>4. 0 \in S
  BY <1>1, <1>3 DEF Sums
<1>5. ASSUME NEW k \in S PROVE k + 1 \in S
  <2>1. CASE k + 1 <= n
    <3>0. k + 1 \in 1 .. n /\ (k + 1) - 1 = k /\ k \in 0 .. n
      BY <2>1
    <3>1. /\ u[k + 1] = u[k] + g[k + 1] /\ t[k + 1] = t[k] + f[k + 1]
          /\ t[k] \in Int /\ f[k + 1] \in Int /\ f[j] \in Int
      BY <3>0, <1>1, <1>3 DEF Sums
    <3>2. u[k] = t[k] + IF k < j THEN 0 ELSE d
      BY <2>1
    <3>3. k + 1 \in 1 .. n /\ (k + 1 # j => g[k + 1] = f[k + 1])
      BY <2>1, <1>2
    <3>4. CASE k + 1 = j
      <4>1. g[k + 1] = f[k + 1] + d
        BY <3>4, <1>2, Zenon
      <4>2. k < j /\ ~(k + 1 < j)
        BY <3>4
      <4>3. u[k + 1] = t[k + 1] + d
        BY <3>1, <3>2, <4>1, <4>2
      <4>. QED
        BY <4>2, <4>3
    <3>5. CASE k + 1 < j
      BY <3>1, <3>2, <3>3, <3>5
    <3>6. CASE k >= j
      BY <3>1, <3>2, <3>3, <3>6
    <3>. QED
      BY <3>4, <3>5, <3>6
  <2>. QED
    BY <2>1
<1> HIDE DEF S
<1>6. n \in S
  BY <1>4, <1>5, InductiveSet DEF S
<1>7. u[n] = t[n] + d
  BY <1>6 DEF S
<1>. QED
  BY <1>1, <1>3, <1>7 DEF g

\* One more value in front.
LEMMA TotalFirst ==
    ASSUME NEW n \in Nat, NEW f \in [1 .. n + 1 -> Int], NEW g \in [1 .. n -> Int],
           \A i \in 1 .. n : g[i] = f[i + 1]
    PROVE  Total(f, n + 1) = f[1] + Total(g, n) /\ Total(g, n) \in Int
<1>1. PICK t : Sums(t, f, n + 1) /\ Total(f, n + 1) = t[n + 1]
  BY TotalSums
<1>2. PICK u : Sums(u, g, n) /\ Total(g, n) = u[n]
  BY TotalSums
<1>3. u \in [0 .. n -> Int] /\ u[0] = 0 /\ f[1] \in Int
  BY <1>2 DEF Sums
<1> DEFINE s == [i \in 0 .. n + 1 |-> IF i = 0 THEN 0 ELSE f[1] + u[i - 1]]
<1>4. s \in [0 .. n + 1 -> Int] /\ s[0] = 0 /\ \A i \in 1 .. n + 1 : s[i] = f[1] + u[i - 1]
  BY <1>3
<1> HIDE DEF s
<1>5. ASSUME NEW i \in 1 .. n + 1 PROVE s[i] = s[i - 1] + f[i]
  <2>1. s[i] = f[1] + u[i - 1]
    BY <1>4
  <2>2. CASE i = 1
    BY <1>3, <1>4, <2>1, <2>2
  <2>3. CASE i # 1
    <3>1. i - 1 \in 1 .. n /\ i - 1 \in 1 .. n + 1 /\ (i - 1) + 1 = i /\ i - 1 \in 0 .. n
          /\ (i - 1) - 1 \in 0 .. n
      BY <2>3
    <3>2. u[i - 1] = u[(i - 1) - 1] + g[i - 1] /\ g[i - 1] = f[i]
      BY <1>2, <3>1 DEF Sums
    <3>3. s[i - 1] = f[1] + u[(i - 1) - 1]
      BY <1>4, <3>1
    <3>4. u[(i - 1) - 1] \in Int /\ f[i] \in Int /\ u[i - 1] \in Int
      BY <1>3, <3>1
    <3> QED BY <1>3, <2>1, <3>2, <3>3, <3>4
  <2> QED BY <2>2, <2>3
<1>6. Sums(s, f, n + 1)
  BY <1>4, <1>5 DEF Sums
<1>7. s[n + 1] = t[n + 1]
  <2>1. \A v, w : Sums(v, f, n + 1) /\ Sums(w, f, n + 1) => v[n + 1] = w[n + 1]
    BY SumsAgree
  <2> QED BY <1>1, <1>6, <2>1
<1>8. s[n + 1] = f[1] + u[n] /\ u[n] \in Int
  <2>1. n + 1 \in 1 .. n + 1 /\ (n + 1) - 1 = n /\ n \in 0 .. n
    OBVIOUS
  <2> QED BY <1>3, <1>4, <2>1
<1> QED BY <1>1, <1>2, <1>7, <1>8
=============================================================================
