----------------------------- MODULE FoldProofs -----------------------------
(***************************************************************************)
(* Facts about FoldLeft of the community modules, for any operator: it is  *)
(* the last of a chain of values that starts at the base and takes one     *)
(* element of the sequence a step.  A module that proves something of a    *)
(* fold instantiates this one with the fold's operator.  It does not extend*)
(* SequencesExt, which every instance would then bring along.              *)
(***************************************************************************)
EXTENDS Integers, Sequences, Folds

LOCAL INSTANCE TotalsProofs

CONSTANT Op(_, _)

\* Max and FoldLeft, as the community modules define them.
Max(S) == CHOOSE x \in S : \A y \in S : x >= y

Fold(base, seq) ==
    MapThenFoldSet(LAMBDA x, y : Op(y, x), base, LAMBDA i : seq[i], LAMBDA S : Max(S), DOMAIN seq)

\* What FoldLeft computes, for every subset of the sequence's indices.
Step(f, base, q, s) == IF s = {} THEN base ELSE Op(f[s \ {Max(s)}], q[Max(s)])

Computes(f, base, q, n) == f = [s \in SUBSET (1 .. n) |-> Step(f, base, q, s)]

LEMMA MaxIs ==
    ASSUME NEW n \in Nat, NEW s \in SUBSET (1 .. n), s # {}
    PROVE  Max(s) \in s /\ \A y \in s : y <= Max(s)
<1> DEFINE R == {n - x : x \in s}
<1>1. R \in SUBSET Nat /\ R # {}
  <2>1. \A x \in s : n - x \in Nat
    OBVIOUS
  <2> QED BY <2>1
<1> HIDE DEF R
<1>2. PICK m \in R : \A r \in R : m <= r
  BY <1>1, LeastNatural
<1>3. PICK x \in s : m = n - x
  BY <1>2 DEF R
<1>4. \A y \in s : x >= y
  <2>1. SUFFICES ASSUME NEW y \in s PROVE x >= y
    OBVIOUS
  <2>2. n - x <= n - y
    BY <1>2, <1>3 DEF R
  <2> QED BY <2>2
<1> QED BY <1>4 DEF Max

LEMMA MaxOfPrefix ==
    ASSUME NEW n \in Nat, NEW s \in SUBSET (1 .. n + 1), n + 1 \in s
    PROVE  Max(s) = n + 1
<1>1. Max(s) \in s /\ \A y \in s : y <= Max(s)
  <2>1. n + 1 \in Nat /\ s # {}
    OBVIOUS
  <2> QED BY <2>1, MaxIs
<1> DEFINE m == Max(s)
<1> HIDE DEF m
<1>2. m \in s /\ \A y \in s : y <= m
  BY <1>1 DEF m
<1>3. m \in 1 .. n + 1 /\ n + 1 <= m
  BY <1>2
<1>4. m = n + 1
  BY <1>3
<1> QED BY <1>4 DEF m

LEMMA ComputesExists ==
    ASSUME NEW n \in Nat, NEW base, NEW q
    PROVE  \E f : Computes(f, base, q, n)
<1> DEFINE S == {k \in Nat : \E f : Computes(f, base, q, k)}
<1>1. 0 \in S
  <2> DEFINE f == [s \in SUBSET (1 .. 0) |-> base]
  <2>1. \A s \in SUBSET (1 .. 0) : s = {}
    OBVIOUS
  <2>2. \A s \in SUBSET (1 .. 0) : base = Step(f, base, q, s)
    BY <2>1 DEF Step
  <2>3. Computes(f, base, q, 0)
    BY <2>2 DEF Computes
  <2> QED BY <2>3
<1>2. ASSUME NEW k \in S PROVE k + 1 \in S
  <2>1. PICK f : Computes(f, base, q, k)
    BY <1>2
  <2> DEFINE g == [s \in SUBSET (1 .. k + 1) |->
                     IF k + 1 \in s THEN Op(f[s \ {k + 1}], q[k + 1]) ELSE f[s]]
  <2>2. ASSUME NEW s \in SUBSET (1 .. k + 1) PROVE g[s] = Step(g, base, q, s)
    <3>1. CASE k + 1 \in s
      <4>1. Max(s) = k + 1
        BY <3>1, MaxOfPrefix
      <4>2. s \ {k + 1} \in SUBSET (1 .. k) /\ s \ {k + 1} \in SUBSET (1 .. k + 1)
        OBVIOUS
      <4>3. g[s \ {k + 1}] = f[s \ {k + 1}]
        BY <4>2
      <4> QED BY <3>1, <4>1, <4>3 DEF Step
    <3>2. CASE k + 1 \notin s
      <4>1. s \in SUBSET (1 .. k) /\ g[s] = f[s]
        BY <3>2
      <4>2. f[s] = Step(f, base, q, s)
        BY <2>1, <4>1 DEF Computes
      <4>3. CASE s = {}
        BY <4>1, <4>2, <4>3 DEF Step
      <4>4. CASE s # {}
        <5>1. Max(s) \in s
          BY <4>1, <4>4, MaxIs
        <5>2. s \ {Max(s)} \in SUBSET (1 .. k + 1) /\ k + 1 \notin s \ {Max(s)}
          BY <3>2
        <5>3. g[s \ {Max(s)}] = f[s \ {Max(s)}]
          BY <5>2
        <5> QED BY <4>1, <4>2, <4>4, <5>3 DEF Step
      <4> QED BY <4>3, <4>4
    <3> QED BY <3>1, <3>2
  <2>3. g = [s \in SUBSET (1 .. k + 1) |-> Step(g, base, q, s)]
    <3>1. g = [s \in SUBSET (1 .. k + 1) |-> g[s]]
      OBVIOUS
    <3> HIDE DEF g
    <3> QED BY <2>2, <3>1
  <2>4. Computes(g, base, q, k + 1)
    BY <2>3 DEF Computes
  <2> QED BY <2>4
<1> HIDE DEF S
<1>3. n \in S
  BY <1>1, <1>2, InductiveSet DEF S
<1> QED BY <1>3 DEF S

\* t takes the elements of q one by one, from base.
Chain(t, base, q, n) == t[0] = base /\ \A i \in 1 .. n : t[i] = Op(t[i - 1], q[i])

LEMMA FoldChain ==
    ASSUME NEW base, NEW q, NEW n \in Nat, DOMAIN q = 1 .. n
    PROVE  \E t : Chain(t, base, q, n) /\ Fold(base, q) = t[n] /\ t = [i \in 0 .. n |-> t[i]]
<1> DEFINE h == CHOOSE h : h = [s \in SUBSET (1 .. n) |->
                              IF s = {} THEN base ELSE Op(h[s \ {Max(s)}], q[Max(s)])]
<1>1. Fold(base, q) = h[1 .. n]
  BY DEF Fold, MapThenFoldSet
<1>2. PICK f : Computes(f, base, q, n)
  BY ComputesExists
<1>3. f = [s \in SUBSET (1 .. n) |->
             IF s = {} THEN base ELSE Op(f[s \ {Max(s)}], q[Max(s)])]
  BY <1>2 DEF Computes, Step
<1>4. h = [s \in SUBSET (1 .. n) |->
             IF s = {} THEN base ELSE Op(h[s \ {Max(s)}], q[Max(s)])]
  BY <1>3
<1> HIDE DEF h
<1> DEFINE t == [i \in 0 .. n |-> h[1 .. i]]
<1>5. t[0] = base
  <2>1. 1 .. 0 = {} /\ 1 .. 0 \in SUBSET (1 .. n)
    OBVIOUS
  <2> QED BY <1>4, <2>1
<1>6. ASSUME NEW i \in 1 .. n PROVE t[i] = Op(t[i - 1], q[i])
  <2>1. 1 .. i \in SUBSET (1 .. n) /\ 1 .. i # {} /\ i \in 1 .. i
    OBVIOUS
  <2>2. Max(1 .. i) = i
    <3>1. i - 1 \in Nat /\ (i - 1) + 1 = i /\ 1 .. i \in SUBSET (1 .. (i - 1) + 1)
      OBVIOUS
    <3> QED BY <2>1, <3>1, MaxOfPrefix
  <2>3. (1 .. i) \ {i} = 1 .. (i - 1)
    OBVIOUS
  <2>4. h[1 .. i] = Op(h[1 .. (i - 1)], q[i])
    BY <1>4, <2>1, <2>2, <2>3
  <2> QED BY <2>4
<1>7. t[n] = h[1 .. n]
  OBVIOUS
<1>8. t = [i \in 0 .. n |-> t[i]]
  OBVIOUS
<1> HIDE DEF t
<1> QED BY <1>1, <1>5, <1>6, <1>7, <1>8 DEF Chain

Alike(q, r, k) == \A i \in 1 .. k : q[i] = r[i]

\* Two chains over sequences that begin alike are alike as far.
LEMMA ChainsAgree ==
    ASSUME NEW base, NEW q, NEW r, NEW n \in Nat, NEW k \in 0 .. n, NEW t, NEW u,
           Chain(t, base, q, n), Chain(u, base, r, k), Alike(q, r, k)
    PROVE  t[k] = u[k]
<1> DEFINE S == {i \in Nat : i <= k => t[i] = u[i]}
<1>1. 0 \in S
  BY DEF Chain
<1>2. ASSUME NEW i \in S PROVE i + 1 \in S
  <2>1. SUFFICES ASSUME i + 1 <= k PROVE t[i + 1] = u[i + 1]
    BY DEF S
  <2>2. i + 1 \in 1 .. k /\ i + 1 \in 1 .. n /\ (i + 1) - 1 = i /\ i <= k
    BY <2>1
  <2>3. t[i + 1] = Op(t[i], q[i + 1]) /\ u[i + 1] = Op(u[i], r[i + 1])
    BY <2>2 DEF Chain
  <2>4. t[i] = u[i] /\ q[i + 1] = r[i + 1]
    BY <1>2, <2>2 DEF Alike
  <2> QED BY <2>3, <2>4
<1>3. S \in SUBSET Nat /\ k \in Nat
  OBVIOUS
<1> HIDE DEF S
<1>4. k \in S
  BY <1>1, <1>2, <1>3, InductiveSet
<1> QED BY <1>4 DEF S

-----------------------------------------------------------------------------
(* Folds of sequences. *)

LEMMA FoldEmpty == \A base : Fold(base, <<>>) = base
<1> SUFFICES ASSUME NEW base PROVE Fold(base, <<>>) = base
  OBVIOUS
<1> DEFINE e == <<>>
<1>1. DOMAIN e = 1 .. 0
  OBVIOUS
<1> HIDE DEF e
<1>2. PICK t : Chain(t, base, e, 0) /\ Fold(base, e) = t[0]
  BY <1>1, FoldChain
<1>3. Fold(base, e) = base
  BY <1>2 DEF Chain
<1> QED BY <1>3 DEF e

\* The last element is taken last.
LEMMA FoldAppend ==
    ASSUME NEW X, NEW base, NEW s \in Seq(X), NEW x \in X
    PROVE  Fold(base, Append(s, x)) = Op(Fold(base, s), x)
<1> DEFINE n == Len(s)
<1> DEFINE a == Append(s, x)
<1>1. n \in Nat /\ DOMAIN s = 1 .. n /\ n + 1 \in Nat /\ DOMAIN a = 1 .. n + 1
  OBVIOUS
<1>2. Alike(a, s, n)
  BY DEF Alike
<1>3. a[n + 1] = x
  OBVIOUS
<1> HIDE DEF n, a
<1>4. PICK t : Chain(t, base, a, n + 1) /\ Fold(base, a) = t[n + 1]
  BY <1>1, FoldChain
<1>5. PICK u : Chain(u, base, s, n) /\ Fold(base, s) = u[n]
  BY <1>1, FoldChain
<1>6. n \in 0 .. n + 1 /\ n + 1 \in 1 .. n + 1 /\ (n + 1) - 1 = n
  BY <1>1
<1>7. t[n] = u[n]
  BY <1>1, <1>2, <1>4, <1>5, <1>6, ChainsAgree
<1>8. t[n + 1] = Op(t[n], x)
  BY <1>3, <1>4, <1>6 DEF Chain
<1> QED BY <1>4, <1>5, <1>7, <1>8 DEF a

\* The second sequence is taken from where the first has led.
LEMMA FoldConcat ==
    ASSUME NEW X, NEW base, NEW s \in Seq(X), NEW r \in Seq(X)
    PROVE  Fold(base, s \o r) = Fold(Fold(base, s), r)
<1> DEFINE n == Len(s)
<1> DEFINE m == Len(r)
<1> DEFINE c == s \o r
<1>1. /\ n \in Nat /\ DOMAIN s = 1 .. n
      /\ m \in Nat /\ DOMAIN r = 1 .. m
      /\ n + m \in Nat /\ DOMAIN c = 1 .. n + m
  OBVIOUS
<1>2. Alike(c, s, n)
  BY DEF Alike
<1>3. \A i \in 1 .. m : c[n + i] = r[i]
  OBVIOUS
<1> HIDE DEF n, m, c
<1>5. PICK t : Chain(t, base, c, n + m) /\ Fold(base, c) = t[n + m]
  BY <1>1, FoldChain
<1>6. PICK u : Chain(u, base, s, n) /\ Fold(base, s) = u[n]
  BY <1>1, FoldChain
<1> DEFINE b == u[n]
<1> HIDE DEF b
<1>7. PICK v : Chain(v, b, r, m) /\ Fold(b, r) = v[m]
  BY <1>1, FoldChain
<1>8. n \in 0 .. n + m
  BY <1>1
<1>9. t[n] = u[n]
  BY <1>1, <1>2, <1>5, <1>6, <1>8, ChainsAgree
<1> DEFINE w == [i \in 0 .. m |-> t[n + i]]
<1>10. Chain(w, b, r, m)
  <2>1. w[0] = b
    BY <1>1, <1>9 DEF b
  <2>2. ASSUME NEW i \in 1 .. m PROVE w[i] = Op(w[i - 1], r[i])
    <3>1. n + i \in 1 .. n + m /\ (n + i) - 1 = n + (i - 1) /\ i \in 0 .. m /\ i - 1 \in 0 .. m
      BY <1>1
    <3>2. t[n + i] = Op(t[(n + i) - 1], c[n + i])
      BY <1>5, <3>1 DEF Chain
    <3>3. w[i] = t[n + i] /\ w[i - 1] = t[n + (i - 1)]
      BY <3>1
    <3> HIDE DEF w
    <3> QED BY <1>3, <3>1, <3>2, <3>3
  <2> QED BY <2>1, <2>2 DEF Chain
<1>11. w[m] = t[n + m]
  BY <1>1
<1> HIDE DEF w
<1>12. m \in 0 .. m /\ Alike(r, r, m)
  BY <1>1 DEF Alike
<1>13. w[m] = v[m]
  BY <1>1, <1>7, <1>10, <1>12, ChainsAgree
<1> QED BY <1>5, <1>6, <1>7, <1>11, <1>13 DEF b, c

\* A set that every step stays in.
LEMMA FoldWithin ==
    ASSUME NEW X, NEW S, NEW base \in S, NEW s \in Seq(X),
           \A v \in S : \A i \in 1 .. Len(s) : Op(v, s[i]) \in S
    PROVE  Fold(base, s) \in S
<1> DEFINE n == Len(s)
<1>1. n \in Nat /\ DOMAIN s = 1 .. n
  OBVIOUS
<1> HIDE DEF n
<1>2. PICK t : Chain(t, base, s, n) /\ Fold(base, s) = t[n]
  BY <1>1, FoldChain
<1> DEFINE T == {i \in Nat : i <= n => t[i] \in S}
<1>3. 0 \in T
  BY <1>2 DEF Chain
<1>4. ASSUME NEW i \in T PROVE i + 1 \in T
  <2>1. SUFFICES ASSUME i + 1 <= n PROVE t[i + 1] \in S
    BY DEF T
  <2>2. i + 1 \in 1 .. n /\ (i + 1) - 1 = i /\ i <= n
    BY <1>1, <2>1
  <2>3. t[i + 1] = Op(t[i], s[i + 1])
    BY <1>2, <2>2 DEF Chain
  <2>4. t[i] \in S
    BY <1>4, <2>2
  <2> QED BY <2>2, <2>3, <2>4 DEF n
<1> HIDE DEF T
<1>5. n \in T
  BY <1>1, <1>3, <1>4, InductiveSet DEF T
<1> QED BY <1>1, <1>2, <1>5 DEF T
=============================================================================
