----------------------------- MODULE NatLemmas ------------------------------
(***************************************************************************)
(* Facts about natural numbers that the proofs about rings and credits     *)
(* cite: remainders, largest elements, induction over a set, and sums over  *)
(* finite sets, whose fold recurses over the set without a chosen element.  *)
(***************************************************************************)
EXTENDS Integers, FiniteSetsExt, Functions, WellFoundedInduction, FiniteSetTheorems, TLAPS

----------------------------------------------------------------------------
(* Products, for the provers that treat them as unknown functions *)

\* A product of a positive factor has the sign of the other.
LEMMA ProductSign ==
  ASSUME NEW m \in Nat \ {0}, NEW q \in Int
  PROVE  /\ m * q \in Int
         /\ q > 0 => m * q >= m
         /\ q < 0 => m * q <= 0 - m
  OBVIOUS

\* Products distribute over sums.
LEMMA ProductSum ==
  ASSUME NEW m \in Int, NEW q \in Int, NEW p \in Int
  PROVE  /\ m * q \in Int /\ m * p \in Int
         /\ m * (q + p) = m * q + m * p
         /\ m * (q - p) = m * q - m * p
  OBVIOUS

----------------------------------------------------------------------------
(* Remainders *)

\* A number is a quotient and a remainder.
LEMMA DivMod ==
  ASSUME NEW x \in Nat, NEW m \in Nat \ {0}
  PROVE  \E q \in Nat, r \in 0 .. m - 1 : x = m * q + r /\ x % m = r
  <1>. DEFINE a == x \div m
              b == x % m
  <1>1. x = m * a + b /\ a \in Int /\ b \in 0 .. m - 1 /\ x % m = b
    OBVIOUS
  <1>. HIDE DEF a, b
  <1>2. a >= 0
    BY <1>1, ProductSign
  <1>3. a \in Nat
    BY <1>1, <1>2
  <1>. QED
    BY <1>1, <1>3, Zenon

\* A remainder is what is left of any multiple.
LEMMA ModIs ==
  ASSUME NEW m \in Nat \ {0}, NEW q \in Nat, NEW r \in 0 .. m - 1
  PROVE  (m * q + r) % m = r
  OBVIOUS

\* Below twice the modulus a remainder is one subtraction.
LEMMA ModSmall ==
  ASSUME NEW m \in Nat \ {0}, NEW x \in 0 .. 2 * m - 1
  PROVE  x % m = IF x < m THEN x ELSE x - m
  <1>1. CASE x < m
    BY <1>1
  <1>2. CASE x >= m
    BY <1>2
  <1>. QED
    BY <1>1, <1>2

\* Multiples do not count.
LEMMA ModPlus ==
  ASSUME NEW m \in Nat \ {0}, NEW q \in Nat, NEW x \in Nat
  PROVE  (x + m * q) % m = x % m
  <1>1. PICK p \in Nat, r \in 0 .. m - 1 : x = m * p + r /\ x % m = r
    BY DivMod
  <1>2. p + q \in Nat
    OBVIOUS
  <1>. DEFINE mp == m * p
              mq == m * q
              mpq == m * (p + q)
  <1>3. mp \in Int /\ mq \in Int /\ mpq = mp + mq
    BY ProductSum
  <1>4. mpq + r = x + mq
    <2>1. x = mp + r
      BY <1>1
    <2>. HIDE DEF mp, mq, mpq
    <2>. QED
      BY <2>1, <1>3
  <1>5. (mpq + r) % m = r
    BY <1>2, ModIs
  <1>. QED
    BY <1>1, <1>4, <1>5, Zenon

\* A summand may be reduced first.
LEMMA ModOfSum ==
  ASSUME NEW m \in Nat \ {0}, NEW x \in Nat, NEW y \in Nat
  PROVE  ((x % m) + y) % m = (x + y) % m
  <1>1. PICK q \in Nat, r \in 0 .. m - 1 : x = m * q + r /\ x % m = r
    BY DivMod
  <1>. DEFINE mq == m * q
  <1>2. mq \in Int
    OBVIOUS
  <1>3. x = mq + r
    BY <1>1, Zenon
  <1>4. r + y \in Nat
    OBVIOUS
  <1>5. ((r + y) + mq) % m = (r + y) % m
    BY ModPlus, <1>4, Zenon
  <1>. HIDE DEF mq
  <1>6. x + y = (r + y) + mq
    BY <1>2, <1>3
  <1>. QED
    BY <1>1, <1>5, <1>6, Zenon

\* A counter that wraps at a multiple of m keeps its remainder by m.
LEMMA ModOfMod ==
  ASSUME NEW w \in Nat \ {0}, NEW m \in Nat \ {0}, w % m = 0, NEW x \in Nat
  PROVE  (x % w) % m = x % m
  <1>1. PICK q \in Nat, s \in 0 .. w - 1 : x = w * q + s /\ x % w = s
    BY DivMod
  <1>2. PICK p \in Nat : w = m * p
    <2>1. PICK p \in Nat, r \in 0 .. m - 1 : w = m * p + r /\ w % m = r
      BY DivMod
    <2>2. r = 0 /\ m * p + 0 = m * p
      BY <2>1
    <2>. QED
      BY <2>1, <2>2
  <1>3. w * q = m * (p * q) /\ p * q \in Nat
    BY <1>1, <1>2
  <1>4. x = s + m * (p * q)
    <2>. DEFINE wq == w * q
    <2>1. wq \in Int /\ x = wq + s
      BY <1>1
    <2>2. x = s + wq
      <3>. HIDE DEF wq
      <3>. QED
        BY <2>1
    <2>. QED
      BY <2>2, <1>3
  <1>5. s \in Nat
    OBVIOUS
  <1>6. (s + m * (p * q)) % m = s % m
    BY <1>3, <1>5, ModPlus, Zenon
  <1>. QED
    BY <1>1, <1>4, <1>6, Zenon

\* m successive numbers have different remainders ...
LEMMA ModInjective ==
  ASSUME NEW m \in Nat \ {0}, NEW d \in Nat, NEW j \in 0 .. m - 1, NEW k \in 0 .. m - 1,
         (d + j) % m = (d + k) % m
  PROVE  j = k
  <1>. d + j \in Nat /\ d + k \in Nat
    OBVIOUS
  <1>1. PICK q \in Nat, r \in 0 .. m - 1 : d + j = m * q + r /\ (d + j) % m = r
    BY DivMod, Zenon
  <1>2. PICK p \in Nat, s \in 0 .. m - 1 : d + k = m * p + s /\ (d + k) % m = s
    BY DivMod, Zenon
  <1>. DEFINE mp == m * p
              mq == m * q
              mqp == m * (q - p)
  <1>3. mp \in Int /\ mq \in Int /\ mqp = mq - mp
    BY ProductSum
  <1>4. d + j = mq + r /\ d + k = mp + s /\ r = s
    BY <1>1, <1>2, Zenon
  <1>5. q - p \in Int /\ (q > p => q - p > 0) /\ (q < p => q - p < 0)
    OBVIOUS
  <1>6. (q > p => mqp >= m) /\ (q < p => mqp <= 0 - m)
    BY ProductSign, <1>5, Zenon
  <1>7. q = p => mp = mq
    OBVIOUS
  <1>. HIDE DEF mp, mq, mqp
  <1>. QED
    BY <1>3, <1>4, <1>6, <1>7

\* ... and so every remainder is met.
LEMMA ModSurjective ==
  ASSUME NEW m \in Nat \ {0}, NEW d \in Nat, NEW i \in 0 .. m - 1
  PROVE  \E k \in 0 .. m - 1 : (d + k) % m = i
  <1>1. PICK q \in Nat, r \in 0 .. m - 1 : d = m * q + r /\ d % m = r
    BY DivMod
  <1>. DEFINE mq == m * q
              next == m * (q + 1)
  <1>2. mq \in Int /\ d = mq + r /\ next = mq + m /\ q + 1 \in Nat
    BY <1>1, ProductSum
  <1>3. (mq + i) % m = i /\ (next + i) % m = i
    BY ModIs, <1>2
  <1>. HIDE DEF mq, next
  <1>4. CASE r <= i
    <2>1. d + (i - r) = mq + i /\ i - r \in 0 .. m - 1
      BY <1>2, <1>4
    <2>. QED
      BY <2>1, <1>3, Zenon
  <1>5. CASE r > i
    <2>1. d + ((i + m) - r) = next + i /\ (i + m) - r \in 0 .. m - 1
      BY <1>2, <1>5
    <2>. QED
      BY <2>1, <1>3, Zenon
  <1>. QED
    BY <1>4, <1>5

----------------------------------------------------------------------------
(* Largest elements and induction.  Both come from the library's fact that every set of   *)
(* numbers has a least one: unlike its induction theorems, that fact takes no operator.    *)

\* A set of natural numbers that is not empty has a least element.
LEMMA LeastNat ==
  ASSUME NEW S, S \subseteq Nat, S # {}
  PROVE  \E n \in S : \A k \in S : n <= k
  <1>. DEFINE R == {ss \in Nat \X Nat : ss[1] < ss[2]}
  <1>1. IsWellFoundedOn(R, Nat)
    BY NatLessThanWellFounded, Zenon DEF OpToRel
  <1>2. \E n \in S : \A k \in S : <<k, n>> \notin R
    <2>. HIDE DEF R
    <2>. QED
      BY WFMin, <1>1, Zenon
  <1>3. \A k, n \in Nat : k < n => <<k, n>> \in R
    OBVIOUS
  <1>4. \A k, n \in Nat : ~(k < n) => n <= k
    OBVIOUS
  <1>. HIDE DEF R
  <1>. QED
    BY <1>2, <1>3, <1>4, Zenon

\* A bounded set of numbers has a largest element.
LEMMA NatMax ==
  ASSUME NEW S, S \subseteq Nat, S # {}, NEW n \in Nat, \A k \in S : k <= n
  PROVE  Max(S) \in S /\ \A k \in S : k <= Max(S)
  <1>. DEFINE T == {k \in Nat : \A s \in S : s <= k}
  <1>1. PICK b \in T : \A k \in T : b <= k
    <2>. n \in T
      OBVIOUS
    <2>. QED
      BY LeastNat, Zenon
  <1>2. b \in S
    <2>. SUFFICES ASSUME b \notin S PROVE FALSE
      OBVIOUS
    <2>1. b # 0
      <3>. PICK s \in S : TRUE
        OBVIOUS
      <3>. s <= b /\ s # b /\ s \in Nat
        OBVIOUS
      <3>. QED
        OBVIOUS
    <2>2. b - 1 \in T
      BY <2>1
    <2>. QED
      BY <2>2, <1>1
  <1>3. \E x \in S : \A y \in S : x >= y
    BY <1>2
  <1>. QED
    BY <1>3 DEF Max

\* A set that holds 0 and the successor of each of its numbers up to n holds all up to n.
LEMMA NatSetInduction ==
  ASSUME NEW n \in Nat, NEW T, 0 \in T, \A k \in 0 .. n - 1 : k \in T => k + 1 \in T
  PROVE  0 .. n \subseteq T
  <1>. DEFINE S == {k \in 0 .. n : k \notin T}
  <1>. SUFFICES ASSUME S # {} PROVE FALSE
    OBVIOUS
  <1>1. PICK k \in S : \A j \in S : k <= j
    <2>. S \subseteq Nat
      OBVIOUS
    <2>. HIDE DEF S
    <2>. QED
      BY LeastNat, Zenon
  <1>2. k # 0 /\ k - 1 \in 0 .. n - 1 /\ k - 1 \notin S
    BY <1>1
  <1>. QED
    BY <1>1, <1>2

----------------------------------------------------------------------------
(* Finite sets, smaller by an element at a time *)

\* An element less.
LEMMA OneLess ==
  ASSUME NEW D, IsFiniteSet(D), NEW s \in SUBSET D, NEW x \in s
  PROVE  /\ IsFiniteSet(s) /\ Cardinality(s) \in Nat \ {0} /\ s \ {x} \in SUBSET D
         /\ Cardinality(s \ {x}) \in Nat /\ Cardinality(s \ {x}) = Cardinality(s) - 1
  <1>1. IsFiniteSet(s) /\ Cardinality(s) \in Nat /\ s # {}
    BY FS_Subset, FS_CardinalityType
  <1>2. IsFiniteSet(s \ {x}) /\ Cardinality(s \ {x}) = Cardinality(s) - 1
    BY <1>1, FS_RemoveElement
  <1>3. Cardinality(s \ {x}) \in Nat
    BY <1>2, FS_CardinalityType
  <1>. QED
    BY <1>1, <1>2, <1>3

\* What holds of a set when it holds of all smaller ones holds of every subset of a finite
\* set: T is the set of those of which it holds.
LEMMA SubsetInduction ==
  ASSUME NEW D, IsFiniteSet(D), NEW T,
         \A s \in SUBSET D : (\A x \in s : s \ {x} \in T) => s \in T
  PROVE  SUBSET D \subseteq T
  <1>. DEFINE N == {n \in Nat : \A s \in SUBSET D : Cardinality(s) <= n => s \in T}
              m == Cardinality(D)
  <1>1. m \in Nat
    BY FS_CardinalityType
  <1>2. \A s \in SUBSET D : IsFiniteSet(s) /\ Cardinality(s) \in 0 .. m
    <2>. TAKE s \in SUBSET D
    <2>1. IsFiniteSet(s) /\ Cardinality(s) <= m
      BY FS_Subset
    <2>. QED
      BY <1>1, <2>1, FS_CardinalityType
  <1>3. 0 \in N
    <2>. SUFFICES ASSUME NEW s \in SUBSET D, Cardinality(s) <= 0 PROVE s \in T
      OBVIOUS
    <2>1. s = {}
      BY <1>2, FS_EmptySet
    <2>. QED
      BY <2>1
  <1>4. ASSUME NEW k \in 0 .. m - 1, k \in N PROVE k + 1 \in N
    <2>. SUFFICES ASSUME NEW s \in SUBSET D, Cardinality(s) <= k + 1 PROVE s \in T
      BY <1>1
    <2>1. ASSUME NEW x \in s PROVE s \ {x} \in T
      <3>1. s \ {x} \in SUBSET D /\ Cardinality(s \ {x}) <= k
        BY <1>1, OneLess
      <3>. QED
        BY <1>4, <3>1
    <2>. QED
      BY <2>1
  <1>5. 0 .. m \subseteq N
    <2>. HIDE DEF N
    <2>. QED
      BY <1>1, <1>3, <1>4, NatSetInduction
  <1>. QED
    BY <1>1, <1>2, <1>5

\* Equations that define a function on the subsets of D from its value on the set without
\* the element that ch takes out.
FoldEquations(g, D, b, ch, st) ==
  \A s \in SUBSET D : g[s] = IF s = {} THEN b ELSE st[ch[s]][g[s \ {ch[s]}]]

\* They have a solution on a finite set.
LEMMA FoldExists ==
  ASSUME NEW D, IsFiniteSet(D), NEW S, NEW b \in S,
         NEW ch, \A s \in SUBSET D : s # {} => ch[s] \in s,
         NEW st, \A x \in D : st[x] \in [S -> S]
  PROVE  \E g \in [SUBSET D -> S] : FoldEquations(g, D, b, ch, st)
  <1>. DEFINE Rhs(g, s) == IF s = {} THEN b ELSE st[ch[s]][g[s \ {ch[s]}]]
              m == Cardinality(D)
              N == {n \in Nat : \E g \in [SUBSET D -> S] :
                                  \A s \in SUBSET D : Cardinality(s) <= n => g[s] = Rhs(g, s)}
  <1>1. m \in Nat
    BY FS_CardinalityType
  <1>2. \A s \in SUBSET D : IsFiniteSet(s) /\ Cardinality(s) \in 0 .. m
    <2>. TAKE s \in SUBSET D
    <2>1. IsFiniteSet(s) /\ Cardinality(s) <= m
      BY FS_Subset
    <2>. QED
      BY <1>1, <2>1, FS_CardinalityType
  <1>3. \A g \in [SUBSET D -> S] : \A s \in SUBSET D : Rhs(g, s) \in S
    <2>. TAKE g \in [SUBSET D -> S]
    <2>. TAKE s \in SUBSET D
    <2>1. CASE s = {}
      BY <2>1
    <2>2. CASE s # {}
      <3>1. ch[s] \in D /\ s \ {ch[s]} \in SUBSET D
        BY <2>2
      <3>. QED
        BY <2>2, <3>1
    <2>. QED
      BY <2>1, <2>2
  <1>4. 0 \in N
    <2>. DEFINE g == [s \in SUBSET D |-> b]
    <2>1. g \in [SUBSET D -> S]
      OBVIOUS
    <2>2. ASSUME NEW s \in SUBSET D, Cardinality(s) <= 0 PROVE g[s] = Rhs(g, s)
      BY <1>2, <2>2, FS_EmptySet
    <2>. QED
      BY <2>1, <2>2
  <1>5. ASSUME NEW k \in 0 .. m - 1, k \in N PROVE k + 1 \in N
    <2>1. PICK g \in [SUBSET D -> S] :
            \A s \in SUBSET D : Cardinality(s) <= k => g[s] = Rhs(g, s)
      BY <1>5
    <2>. DEFINE h == [s \in SUBSET D |-> Rhs(g, s)]
    <2>2. h \in [SUBSET D -> S]
      BY <1>3
    <2>3. ASSUME NEW s \in SUBSET D, Cardinality(s) <= k + 1 PROVE h[s] = Rhs(h, s)
      <3>1. CASE s = {}
        BY <3>1
      <3>2. CASE s # {}
        <4>. DEFINE t == s \ {ch[s]}
        <4>1. ch[s] \in s
          BY <3>2
        <4>2. t \in SUBSET D /\ Cardinality(t) <= k
          BY <1>1, <2>3, <4>1, OneLess
        <4>3. g[t] = Rhs(g, t) /\ h[t] = Rhs(g, t) /\ h[s] = Rhs(g, s)
          BY <2>1, <4>2
        <4>4. Rhs(g, s) = st[ch[s]][g[t]] /\ Rhs(h, s) = st[ch[s]][h[t]]
          BY <3>2
        <4>. HIDE DEF h, t, Rhs
        <4>. QED
          BY <4>3, <4>4
      <3>. QED
        BY <3>1, <3>2
    <2>4. k + 1 \in Nat
      BY <1>1
    <2>. HIDE DEF h, Rhs
    <2>. QED
      BY <2>2, <2>3, <2>4
  <1>6. m \in N
    <2>1. 0 .. m \subseteq N /\ m \in 0 .. m
      <3>. HIDE DEF N
      <3>. QED
        BY <1>1, <1>4, <1>5, NatSetInduction
    <2>. QED
      BY <2>1
  <1>7. PICK g \in [SUBSET D -> S] :
          \A s \in SUBSET D : Cardinality(s) <= m => g[s] = Rhs(g, s)
    BY <1>6
  <1>8. \A s \in SUBSET D : g[s] = Rhs(g, s)
    <2>. TAKE s \in SUBSET D
    <2>1. Cardinality(s) <= m
      BY <1>1, <1>2
    <2>. HIDE DEF Rhs, m
    <2>. QED
      BY <1>7, <2>1
  <1>. QED
    BY <1>8 DEF FoldEquations

----------------------------------------------------------------------------
(* Sums over finite sets *)

\* The values of f, whatever its domain, are integers on S.
IntOn(f, S) == \A x \in S : f[x] \in Int
NatOn(f, S) == \A x \in S : f[x] \in Nat
SameOn(f, g, S) == \A x \in S : f[x] = g[x]

\* The function that the library's fold defines on the subsets of S.
SumEq(g, f, S) ==
  g = [s \in SUBSET S |->
         IF s = {} THEN 0 ELSE LET x == CHOOSE x \in s : TRUE IN f[x] + g[s \ {x}]]
SumFun(f, S) == CHOOSE g : SumEq(g, f, S)

\* The sum is the value of that function at the whole set.
LEMMA SumIs ==
  ASSUME NEW f, NEW S
  PROVE  SumFunctionOnSet(f, S) = SumFun(f, S)[S]
  BY DEF SumFunctionOnSet, FoldFunctionOnSet, MapThenFoldSet, SumEq, SumFun

\* On a finite set there is such a function: the recursion of the fold is well founded.
LEMMA SumFunEq ==
  ASSUME NEW f, NEW S, IsFiniteSet(S), IntOn(f, S)
  PROVE  SumEq(SumFun(f, S), f, S)
  <1>. DEFINE ch == [s \in SUBSET S |-> CHOOSE x \in s : TRUE]
              st == [x \in S |-> [n \in Int |-> f[x] + n]]
  <1>1. \A s \in SUBSET S : s # {} => ch[s] \in s
    OBVIOUS
  <1>2. \A x \in S : st[x] \in [Int -> Int]
    BY DEF IntOn
  <1>3. \E g \in [SUBSET S -> Int] : FoldEquations(g, S, 0, ch, st)
    <2>. 0 \in Int
      OBVIOUS
    <2>. HIDE DEF ch, st
    <2>. QED
      BY <1>1, <1>2, FoldExists
  <1>4. PICK g \in [SUBSET S -> Int] : FoldEquations(g, S, 0, ch, st)
    BY <1>3
  <1>5. SumEq(g, f, S)
    <2>. DEFINE rhs == [s \in SUBSET S |->
                          IF s = {} THEN 0 ELSE LET x == CHOOSE x \in s : TRUE IN f[x] + g[s \ {x}]]
    <2>1. ASSUME NEW s \in SUBSET S PROVE g[s] = rhs[s]
      <3>1. CASE s = {}
        BY <1>4, <3>1 DEF FoldEquations
      <3>2. CASE s # {}
        <4>. DEFINE x == CHOOSE x \in s : TRUE
        <4>1. x \in s /\ ch[s] = x
          BY <3>2
        <4>2. g[s] = st[ch[s]][g[s \ {ch[s]}]]
          BY <1>4, <3>2 DEF FoldEquations
        <4>3. s \ {x} \in SUBSET S /\ x \in S /\ g[s \ {x}] \in Int
          BY <4>1
        <4>4. st[x][g[s \ {x}]] = f[x] + g[s \ {x}]
          <5>. HIDE DEF x
          <5>. QED
            BY <4>3
        <4>5. g[s] = f[x] + g[s \ {x}]
          BY <4>1, <4>2, <4>4
        <4>. QED
          BY <3>2, <4>5
      <3>. QED
        BY <3>1, <3>2
    <2>2. g = rhs
      <3>. rhs = [s \in SUBSET S |-> rhs[s]]
        OBVIOUS
      <3>. HIDE DEF rhs
      <3>. QED
        BY <2>1
    <2>. QED
      BY <2>2 DEF SumEq
  <1>. QED
    BY <1>5 DEF SumFun

\* The functions for two sets agree where both are defined.
LEMMA SumFunsAgree ==
  ASSUME NEW f, NEW A, NEW B, IsFiniteSet(A), NEW g, SumEq(g, f, A), NEW h, SumEq(h, f, B),
         B \subseteq A
  PROVE  \A s \in SUBSET B : g[s] = h[s]
  <1>. DEFINE T == {s \in SUBSET B : g[s] = h[s]}
  <1>1. IsFiniteSet(B)
    BY FS_Subset
  <1>2. ASSUME NEW s \in SUBSET B, \A x \in s : s \ {x} \in T PROVE s \in T
    <2>. DEFINE x == CHOOSE x \in s : TRUE
    <2>1. s \in SUBSET A
      OBVIOUS
    <2>2. /\ g[s] = IF s = {} THEN 0 ELSE f[x] + g[s \ {x}]
          /\ h[s] = IF s = {} THEN 0 ELSE f[x] + h[s \ {x}]
      BY <2>1 DEF SumEq
    <2>3. s # {} => x \in s
      OBVIOUS
    <2>. HIDE DEF x
    <2>. QED
      BY <1>2, <2>2, <2>3
  <1>3. SUBSET B \subseteq T
    <2>. HIDE DEF T
    <2>. QED
      BY <1>1, <1>2, SubsetInduction
  <1>. QED
    BY <1>3

\* A sum is that of the set without an element, and the value of the element.
LEMMA SumUnfold ==
  ASSUME NEW f, NEW S, IsFiniteSet(S), IntOn(f, S)
  PROVE  SumFunctionOnSet(f, S) =
           IF S = {} THEN 0
           ELSE LET x == CHOOSE x \in S : TRUE IN f[x] + SumFunctionOnSet(f, S \ {x})
  <1>. DEFINE x == CHOOSE x \in S : TRUE
              g == SumFun(f, S)
              h == SumFun(f, S \ {x})
  <1>1. SumEq(g, f, S)
    BY SumFunEq
  <1>2. SumEq(h, f, S \ {x})
    <2>. IsFiniteSet(S \ {x}) /\ IntOn(f, S \ {x})
      BY FS_Subset DEF IntOn
    <2>. QED
      BY SumFunEq
  <1>3. g[S] = IF S = {} THEN 0 ELSE f[x] + g[S \ {x}]
    <2>. S \in SUBSET S
      OBVIOUS
    <2>. HIDE DEF g
    <2>. QED
      BY <1>1 DEF SumEq
  <1>4. g[S \ {x}] = h[S \ {x}]
    <2>. S \ {x} \subseteq S /\ S \ {x} \in SUBSET (S \ {x})
      OBVIOUS
    <2>. HIDE DEF g, h
    <2>. QED
      BY <1>1, <1>2, SumFunsAgree
  <1>5. SumFunctionOnSet(f, S) = g[S] /\ SumFunctionOnSet(f, S \ {x}) = h[S \ {x}]
    BY SumIs
  <1>. QED
    BY <1>3, <1>4, <1>5, Zenon

\* An empty sum.
LEMMA SumEmpty == \A f : SumFunctionOnSet(f, {}) = 0
  <1>. TAKE f
  <1>. IsFiniteSet({}) /\ IntOn(f, {})
    BY FS_EmptySet DEF IntOn
  <1>. QED
    BY SumUnfold

\* A sum of integers is one.
LEMMA SumType ==
  ASSUME NEW f, NEW S, IsFiniteSet(S), IntOn(f, S)
  PROVE  SumFunctionOnSet(f, S) \in Int
  <1>. DEFINE T == {s \in SUBSET S : SumFunctionOnSet(f, s) \in Int}
  <1>1. ASSUME NEW s \in SUBSET S, \A x \in s : s \ {x} \in T PROVE s \in T
    <2>. DEFINE x == CHOOSE x \in s : TRUE
    <2>1. IsFiniteSet(s) /\ IntOn(f, s)
      BY FS_Subset DEF IntOn
    <2>2. SumFunctionOnSet(f, s) = IF s = {} THEN 0 ELSE f[x] + SumFunctionOnSet(f, s \ {x})
      BY <2>1, SumUnfold
    <2>3. s # {} => x \in s
      OBVIOUS
    <2>. HIDE DEF x
    <2>. QED
      BY <1>1, <2>1, <2>2, <2>3 DEF IntOn
  <1>2. SUBSET S \subseteq T
    <2>. HIDE DEF T
    <2>. QED
      BY <1>1, SubsetInduction
  <1>. QED
    BY <1>2

\* The order does not matter: any element may be taken out first.
LEMMA SumRemove ==
  ASSUME NEW f, NEW S, IsFiniteSet(S), IntOn(f, S), NEW x \in S
  PROVE  SumFunctionOnSet(f, S) = f[x] + SumFunctionOnSet(f, S \ {x})
  <1>. DEFINE Sum(s) == SumFunctionOnSet(f, s)
              T == {s \in SUBSET S : \A y \in s : Sum(s) = f[y] + Sum(s \ {y})}
  <1>1. \A s \in SUBSET S : IsFiniteSet(s) /\ IntOn(f, s) /\ Sum(s) \in Int
    BY FS_Subset, SumType DEF IntOn
  <1>2. ASSUME NEW s \in SUBSET S, \A y \in s : s \ {y} \in T PROVE s \in T
    <2>. SUFFICES ASSUME NEW y \in s PROVE Sum(s) = f[y] + Sum(s \ {y})
      OBVIOUS
    <2>. DEFINE z == CHOOSE z \in s : TRUE
    <2>1. z \in s /\ Sum(s) = f[z] + Sum(s \ {z})
      BY <1>1, SumUnfold
    <2>. HIDE DEF z
    <2>2. CASE y = z
      BY <2>1, <2>2
    <2>3. CASE y # z
      <3>1. s \ {z} \in T /\ y \in s \ {z} /\ s \ {y} \in T /\ z \in s \ {y}
        BY <1>2, <2>1, <2>3
      <3>2. /\ Sum(s \ {z}) = f[y] + Sum((s \ {z}) \ {y})
            /\ Sum(s \ {y}) = f[z] + Sum((s \ {y}) \ {z})
        <4>. HIDE DEF Sum
        <4>. QED
          BY <3>1
      <3>3. (s \ {z}) \ {y} = (s \ {y}) \ {z} /\ (s \ {y}) \ {z} \in SUBSET S
        OBVIOUS
      <3>. DEFINE r == Sum((s \ {y}) \ {z})
      <3>4. f[y] \in Int /\ f[z] \in Int /\ r \in Int
        BY <1>1, <2>1, <3>3 DEF IntOn
      <3>5. Sum(s) = f[z] + (f[y] + r) /\ Sum(s \ {y}) = f[z] + r
        BY <2>1, <3>2, <3>3, Zenon
      <3>. HIDE DEF Sum, r
      <3>6. f[z] + (f[y] + r) = f[y] + (f[z] + r)
        BY <3>4
      <3>. QED
        BY <3>5, <3>6, Zenon
    <2>. QED
      BY <2>2, <2>3
  <1>3. SUBSET S \subseteq T
    <2>. HIDE DEF T
    <2>. QED
      BY <1>2, SubsetInduction
  <1>4. S \in T
    BY <1>3
  <1>. QED
    BY <1>4

\* Functions that agree on a set have the same sum there.
LEMMA SumSame ==
  ASSUME NEW f, NEW g, NEW S, IsFiniteSet(S), IntOn(f, S), SameOn(f, g, S)
  PROVE  SumFunctionOnSet(f, S) = SumFunctionOnSet(g, S)
  <1>. DEFINE T == {s \in SUBSET S : SumFunctionOnSet(f, s) = SumFunctionOnSet(g, s)}
  <1>1. ASSUME NEW s \in SUBSET S, \A x \in s : s \ {x} \in T PROVE s \in T
    <2>. DEFINE x == CHOOSE x \in s : TRUE
    <2>1. IsFiniteSet(s) /\ IntOn(f, s) /\ IntOn(g, s)
      BY FS_Subset DEF IntOn, SameOn
    <2>2. /\ SumFunctionOnSet(f, s) = IF s = {} THEN 0 ELSE f[x] + SumFunctionOnSet(f, s \ {x})
          /\ SumFunctionOnSet(g, s) = IF s = {} THEN 0 ELSE g[x] + SumFunctionOnSet(g, s \ {x})
      BY <2>1, SumUnfold
    <2>3. s # {} => x \in s
      OBVIOUS
    <2>. HIDE DEF x
    <2>. QED
      BY <1>1, <2>2, <2>3 DEF SameOn
  <1>2. SUBSET S \subseteq T
    <2>. HIDE DEF T
    <2>. QED
      BY <1>1, SubsetInduction
  <1>. QED
    BY <1>2

\* A sum changes by as much as the only value that changes.
LEMMA SumChange ==
  ASSUME NEW f, NEW g, NEW S, IsFiniteSet(S), IntOn(f, S), IntOn(g, S), NEW x \in S,
         SameOn(f, g, S \ {x})
  PROVE  SumFunctionOnSet(g, S) = SumFunctionOnSet(f, S) + (g[x] - f[x])
  <1>1. IsFiniteSet(S \ {x}) /\ IntOn(f, S \ {x}) /\ f[x] \in Int /\ g[x] \in Int
    BY FS_Subset DEF IntOn
  <1>2. SumFunctionOnSet(f, S \ {x}) = SumFunctionOnSet(g, S \ {x})
    BY <1>1, SumSame
  <1>3. /\ SumFunctionOnSet(f, S) = f[x] + SumFunctionOnSet(f, S \ {x})
        /\ SumFunctionOnSet(g, S) = g[x] + SumFunctionOnSet(g, S \ {x})
    BY SumRemove
  <1>4. SumFunctionOnSet(f, S \ {x}) \in Int
    BY <1>1, SumType
  <1>. QED
    BY <1>1, <1>2, <1>3, <1>4

\* One more element.
LEMMA SumInsert ==
  ASSUME NEW f, NEW S, IsFiniteSet(S), NEW x, x \notin S, IntOn(f, S \cup {x})
  PROVE  SumFunctionOnSet(f, S \cup {x}) = SumFunctionOnSet(f, S) + f[x]
  <1>. DEFINE R == S \cup {x}
  <1>1. IsFiniteSet(R) /\ R \ {x} = S /\ x \in R /\ IntOn(f, R) /\ IntOn(f, S) /\ f[x] \in Int
    BY FS_AddElement DEF IntOn
  <1>2. SumFunctionOnSet(f, R) = f[x] + SumFunctionOnSet(f, R \ {x})
    <2>. HIDE DEF R
    <2>. QED
      BY <1>1, SumRemove
  <1>3. SumFunctionOnSet(f, R) = f[x] + SumFunctionOnSet(f, S)
    BY <1>1, <1>2, Zenon
  <1>4. SumFunctionOnSet(f, S) \in Int
    BY <1>1, SumType
  <1>. HIDE DEF R
  <1>. f[x] + SumFunctionOnSet(f, S) = SumFunctionOnSet(f, S) + f[x]
    BY <1>1, <1>4
  <1>. QED
    BY <1>3, Zenon DEF R

\* A sum of natural numbers is at least each of them.
LEMMA SumNat ==
  ASSUME NEW f, NEW S, IsFiniteSet(S), NatOn(f, S)
  PROVE  SumFunctionOnSet(f, S) \in Nat /\ \A x \in S : f[x] <= SumFunctionOnSet(f, S)
  <1>. DEFINE T == {s \in SUBSET S : SumFunctionOnSet(f, s) \in Nat}
  <1>1. IntOn(f, S)
    BY DEF IntOn, NatOn
  <1>2. ASSUME NEW s \in SUBSET S, \A x \in s : s \ {x} \in T PROVE s \in T
    <2>. DEFINE x == CHOOSE x \in s : TRUE
    <2>1. IsFiniteSet(s) /\ IntOn(f, s)
      BY <1>1, FS_Subset DEF IntOn
    <2>2. SumFunctionOnSet(f, s) = IF s = {} THEN 0 ELSE f[x] + SumFunctionOnSet(f, s \ {x})
      BY <2>1, SumUnfold
    <2>3. s # {} => x \in s
      OBVIOUS
    <2>. HIDE DEF x
    <2>. QED
      BY <1>2, <2>2, <2>3 DEF NatOn
  <1>3. SUBSET S \subseteq T
    <2>. HIDE DEF T
    <2>. QED
      BY <1>2, SubsetInduction
  <1>4. ASSUME NEW x \in S PROVE f[x] <= SumFunctionOnSet(f, S)
    <2>1. SumFunctionOnSet(f, S) = f[x] + SumFunctionOnSet(f, S \ {x})
      BY <1>1, SumRemove
    <2>2. SumFunctionOnSet(f, S \ {x}) \in Nat /\ f[x] \in Nat
      <3>. S \ {x} \in T
        BY <1>3
      <3>. QED
        BY DEF NatOn
    <2>. QED
      BY <2>1, <2>2
  <1>. QED
    BY <1>3, <1>4

\* A function with one value changed, for the provers that do not match EXCEPT.
Changed(f, x, w) == [f EXCEPT ![x] = w]

\* The sum of a function with one value changed.
LEMMA SumExcept ==
  ASSUME NEW S, IsFiniteSet(S), NEW f \in [S -> Int], NEW x \in S, NEW w \in Int
  PROVE  SumFunctionOnSet(Changed(f, x, w), S) = SumFunctionOnSet(f, S) + (w - f[x])
  <1>. DEFINE g == Changed(f, x, w)
  <1>1. IntOn(f, S)
    BY DEF IntOn, Changed
  <1>2. IntOn(g, S)
    BY DEF IntOn, Changed
  <1>3. SameOn(f, g, S \ {x})
    BY DEF SameOn, Changed
  <1>4. g[x] = w
    BY DEF Changed
  <1>. HIDE DEF g
  <1>5. SumFunctionOnSet(g, S) = SumFunctionOnSet(f, S) + (g[x] - f[x])
    BY <1>1, <1>2, <1>3, SumChange
  <1>. QED
    BY <1>4, <1>5 DEF g

\* The values of h on S are those of f and g together.
AddsTo(f, g, h, S) == \A x \in S : h[x] = f[x] + g[x]

\* The sum of two functions.
LEMMA SumPlus ==
  ASSUME NEW f, NEW g, NEW h, NEW S, IsFiniteSet(S), IntOn(f, S), IntOn(g, S),
         AddsTo(f, g, h, S)
  PROVE  SumFunctionOnSet(h, S) = SumFunctionOnSet(f, S) + SumFunctionOnSet(g, S)
  <1>. DEFINE Sum(k, s) == SumFunctionOnSet(k, s)
              T == {s \in SUBSET S : Sum(h, s) = Sum(f, s) + Sum(g, s)}
  <1>1. ASSUME NEW s \in SUBSET S, \A x \in s : s \ {x} \in T PROVE s \in T
    <2>. DEFINE x == CHOOSE x \in s : TRUE
    <2>1. IsFiniteSet(s) /\ IntOn(f, s) /\ IntOn(g, s) /\ IntOn(h, s)
      BY FS_Subset DEF IntOn, AddsTo
    <2>2. /\ Sum(f, s) = IF s = {} THEN 0 ELSE f[x] + Sum(f, s \ {x})
          /\ Sum(g, s) = IF s = {} THEN 0 ELSE g[x] + Sum(g, s \ {x})
          /\ Sum(h, s) = IF s = {} THEN 0 ELSE h[x] + Sum(h, s \ {x})
      BY <2>1, SumUnfold
    <2>3. s # {} => x \in s
      OBVIOUS
    <2>4. CASE s = {}
      <3>1. Sum(f, s) = 0 /\ Sum(g, s) = 0 /\ Sum(h, s) = 0
        BY <2>2, <2>4
      <3>. HIDE DEF Sum
      <3>. QED
        BY <3>1
    <2>5. CASE s # {}
      <3>1. /\ f[x] \in Int /\ g[x] \in Int /\ h[x] = f[x] + g[x]
            /\ s \ {x} \in T
        BY <1>1, <2>1, <2>3, <2>5 DEF IntOn, AddsTo
      <3>2. IsFiniteSet(s \ {x}) /\ IntOn(f, s \ {x}) /\ IntOn(g, s \ {x})
        BY <2>1, FS_Subset DEF IntOn
      <3>3. Sum(f, s \ {x}) \in Int /\ Sum(g, s \ {x}) \in Int
        BY <3>2, SumType
      <3>. HIDE DEF Sum, x
      <3>. QED
        BY <2>2, <2>5, <3>1, <3>3
    <2>. QED
      BY <2>4, <2>5
  <1>2. SUBSET S \subseteq T
    <2>. HIDE DEF T
    <2>. QED
      BY <1>1, SubsetInduction
  <1>. QED
    BY <1>2

\* A sum of nothing but zeros.
LEMMA SumZero ==
  ASSUME NEW f, NEW S, IsFiniteSet(S), \A x \in S : f[x] = 0
  PROVE  SumFunctionOnSet(f, S) = 0
  <1>. DEFINE n == SumFunctionOnSet(f, S)
  <1>1. IntOn(f, S) /\ AddsTo(f, f, f, S)
    BY DEF IntOn, AddsTo
  <1>2. n \in Int
    BY <1>1, SumType
  <1>3. SumFunctionOnSet(f, S) = SumFunctionOnSet(f, S) + SumFunctionOnSet(f, S)
    <2>. IntOn(f, S) /\ AddsTo(f, f, f, S)
      BY <1>1
    <2>. QED
      BY SumPlus
  <1>4. n = n + n
    BY <1>3
  <1>. HIDE DEF n
  <1>5. n = 0
    BY <1>2, <1>4
  <1>. QED
    BY <1>5 DEF n
=============================================================================
