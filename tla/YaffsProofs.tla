---------------------------- MODULE YaffsProofs -----------------------------
(***************************************************************************)
(* Proofs about Yaffs for any number of files, blocks, chunks and caches,  *)
(* with the power lost between any two steps.                              *)
(*                                                                         *)
(* RefsMatch and OldestExact are not inductive.  Of the memory, Good says  *)
(* that every pointer of a file is at a page that was programmed with that *)
(* chunk of that file (Pointed), that chunks and cached chunks end where   *)
(* their file does, and Blk that the state of each block, the marks of the *)
(* collector and the order of the blocks agree.  Of the list of steps that *)
(* is left, Todo says what an operation owes to the steps before: a file   *)
(* is freed when each of its chunks has been pruned and none written       *)
(* since, shrunk when those beyond the new size have, and a cached chunk   *)
(* that is flushed is within its file.  Where the flash is read, at a      *)
(* mount, ScanFinds shows that the scan finds pointers of that kind, by    *)
(* the invariant ScansOf of its recursion.                                 *)
(*                                                                         *)
(* The lemmas go from sequences and the age of blocks, the scan, blocks    *)
(* and pages, to lists of steps, and then take each action in turn.        *)
(***************************************************************************)
EXTENDS Yaffs, NatLemmas, SequenceTheorems

----------------------------------------------------------------------------
(* Sequences put together *)

\* F[i] is what the first i sequences of ss make together.
Chained(F, ss, n) ==
  /\ F[1] = ss[1]
  /\ \A i \in 1 .. n : i # 1 => F[i] = F[i - 1] \o ss[i]

\* FlattenSeq is the end of a chain of concatenations.
LEMMA FlattenChain ==
  ASSUME NEW S, NEW n \in Nat, n # 0, NEW ss \in [1 .. n -> Seq(S)]
  PROVE  \E F \in [1 .. n -> Seq(S)] :
           Chained(F, ss, n) /\ FlattenSeq(ss) = F[n]
  <1>. DEFINE Eq(F, k) == \A i \in 1 .. k : F[i] = IF i = 1 THEN ss[i] ELSE F[i - 1] \o ss[i]
              T == {k \in 0 .. n : \E F \in [1 .. n -> Seq(S)] : Eq(F, k)}
              R(F) == [i \in 1 .. n |-> IF i = 1 THEN ss[i] ELSE F[i - 1] \o ss[i]]
  <1>1. 0 \in T
    <2>1. ss \in [1 .. n -> Seq(S)] /\ Eq(ss, 0)
      OBVIOUS
    <2>. QED
      BY <2>1
  <1>2. ASSUME NEW k \in 0 .. n - 1, k \in T PROVE k + 1 \in T
    <2>1. PICK F \in [1 .. n -> Seq(S)] : Eq(F, k)
      BY <1>2
    <2>. DEFINE x == IF k = 0 THEN ss[1] ELSE F[k] \o ss[k + 1]
                G == [F EXCEPT ![k + 1] = x]
    <2>2. x \in Seq(S)
      <3>1. CASE k = 0
        BY <3>1
      <3>2. CASE k # 0
        <4>1. F[k] \in Seq(S) /\ ss[k + 1] \in Seq(S)
          BY <3>2
        <4>. QED
          BY <3>2, <4>1, ConcatProperties
      <3>. QED
        BY <3>1, <3>2
    <2>. HIDE DEF x
    <2>3. G \in [1 .. n -> Seq(S)] /\ G[k + 1] = x /\ \A i \in 1 .. n : i # k + 1 => G[i] = F[i]
      BY <2>2
    <2>4. ASSUME NEW i \in 1 .. k + 1
          PROVE  G[i] = IF i = 1 THEN ss[i] ELSE G[i - 1] \o ss[i]
      <3>1. CASE i = k + 1
        <4>1. CASE k = 0
          BY <2>3, <3>1, <4>1 DEF x
        <4>2. CASE k # 0
          <5>1. G[k] = F[k] /\ i # 1 /\ i - 1 = k
            BY <2>3, <3>1, <4>2
          <5>. QED
            BY <2>3, <3>1, <4>2, <5>1 DEF x
        <4>. QED
          BY <4>1, <4>2
      <3>2. CASE i # k + 1
        <4>1. i \in 1 .. k /\ G[i] = F[i] /\ (i # 1 => G[i - 1] = F[i - 1])
          BY <2>3, <3>2
        <4>. QED
          BY <2>1, <4>1
      <3>. QED
        BY <3>1, <3>2
    <2>5. Eq(G, k + 1)
      BY <2>4
    <2>. HIDE DEF G, Eq
    <2>. QED
      BY <2>3, <2>5
  <1>3. n \in T
    <2>. HIDE DEF T
    <2>1. 0 .. n \subseteq T
      BY <1>1, <1>2, NatSetInduction
    <2>. QED
      BY <2>1
  <1>4. PICK F \in [1 .. n -> Seq(S)] : Eq(F, n)
    BY <1>3
  <1>5. F = R(F)
    BY <1>4, SMTT(30)
  <1>. DEFINE H == CHOOSE f : f = R(f)
  <1>6. H = R(H)
    BY <1>5, Zenon
  <1>7. FlattenSeq(ss) = H[n]
    <2>1. Len(ss) = n
      OBVIOUS
    <2>. QED
      BY <2>1 DEF FlattenSeq
  <1>. HIDE DEF H
  <1>8. \A i \in 1 .. n : H[i] = IF i = 1 THEN ss[i] ELSE H[i - 1] \o ss[i]
    BY <1>6
  <1>12. \A i \in 1 .. n : i # 1 => H[i] = H[i - 1] \o ss[i]
    BY <1>8
  <1>13. H[1] = ss[1]
    BY <1>8
  <1>. DEFINE U == {k \in 0 .. n : k # 0 => H[k] \in Seq(S)}
  <1>9. ASSUME NEW k \in 0 .. n - 1, k \in U PROVE k + 1 \in U
    <2>1. H[k + 1] = IF k + 1 = 1 THEN ss[k + 1] ELSE H[k + 1 - 1] \o ss[k + 1]
      BY <1>8
    <2>2. ss[k + 1] \in Seq(S)
      OBVIOUS
    <2>3. CASE k = 0
      BY <2>1, <2>2, <2>3
    <2>4. CASE k # 0
      <3>1. H[k] \in Seq(S) /\ H[k + 1] = H[k] \o ss[k + 1]
        <4>1. k + 1 \in 1 .. n /\ k + 1 # 1 /\ (k + 1) - 1 = k /\ H[k] \in Seq(S)
          BY <1>9, <2>4
        <4>2. H[k + 1] = H[(k + 1) - 1] \o ss[k + 1]
          BY <1>12, <4>1
        <4>. QED
          BY <4>1, <4>2
      <3>2. H[k + 1] \in Seq(S)
        BY <2>2, <3>1, ConcatProperties
      <3>. QED
        BY <3>2
    <2>. QED
      BY <2>3, <2>4
  <1>10. 0 .. n \subseteq U
    <2>. 0 \in U
      OBVIOUS
    <2>. HIDE DEF U
    <2>. QED
      BY <1>9, NatSetInduction
  <1>11. H \in [1 .. n -> Seq(S)]
    <2>1. \A i \in 1 .. n : H[i] \in Seq(S)
      BY <1>10
    <2>2. DOMAIN R(H) = 1 .. n
      OBVIOUS
    <2>3. R(H) = [i \in 1 .. n |-> R(H)[i]]
      OBVIOUS
    <2>. HIDE DEF R
    <2>4. H = [i \in 1 .. n |-> H[i]]
      BY <1>6, <2>3
    <2>. QED
      BY <2>1, <2>4
  <1>. QED
    BY <1>7, <1>11, <1>12, <1>13 DEF Chained

\* A set of sequences closed under concatenation is closed under FlattenSeq.
LEMMA FlattenIn ==
  ASSUME NEW S, NEW G, G \subseteq Seq(S), <<>> \in G, \A s, t \in G : s \o t \in G,
         NEW n \in Nat, NEW ss \in [1 .. n -> G]
  PROVE  FlattenSeq(ss) \in G
  <1>1. CASE n = 0
    <2>1. ss = <<>> /\ Len(ss) = 0
      BY <1>1
    <2>. QED
      BY <2>1 DEF FlattenSeq
  <1>2. CASE n # 0
    <2>1. ss \in [1 .. n -> Seq(S)]
      OBVIOUS
    <2>0. PICK F \in [1 .. n -> Seq(S)] : Chained(F, ss, n) /\ FlattenSeq(ss) = F[n]
      BY <1>2, <2>1, FlattenChain
    <2>2. /\ F[1] = ss[1]
          /\ \A i \in 1 .. n : i # 1 => F[i] = F[i - 1] \o ss[i]
          /\ FlattenSeq(ss) = F[n]
      BY <2>0 DEF Chained
    <2>. DEFINE T == {k \in 0 .. n : k # 0 => F[k] \in G}
    <2>3. ASSUME NEW k \in 0 .. n - 1, k \in T PROVE k + 1 \in T
      <3>1. CASE k = 0
        BY <2>2, <3>1
      <3>2. CASE k # 0
        <4>1. F[k] \in G /\ ss[k + 1] \in G
          BY <2>3, <3>2
        <4>2. F[k + 1] = F[k] \o ss[k + 1]
          <5>1. k + 1 # 1 /\ (k + 1) - 1 = k /\ k + 1 \in 1 .. n
            BY <3>2
          <5>. QED
            BY <2>2, <5>1
        <4>3. F[k + 1] \in G
          BY <4>1, <4>2
        <4>. QED
          BY <4>3
      <3>. QED
        BY <3>1, <3>2
    <2>4. 0 .. n \subseteq T
      <3>. 0 \in T
        OBVIOUS
      <3>. HIDE DEF T
      <3>. QED
        BY <2>3, NatSetInduction
    <2>. QED
      BY <1>2, <2>2, <2>4
  <1>. QED
    BY <1>1, <1>2

\* The positions of a concatenation.
LEMMA ConcatAt ==
  ASSUME NEW S, NEW s \in Seq(S), NEW t \in Seq(S)
  PROVE  /\ s \o t \in Seq(S) /\ Len(s) \in Nat /\ Len(t) \in Nat
         /\ Len(s \o t) = Len(s) + Len(t)
         /\ \A i \in 1 .. Len(s) : (s \o t)[i] = s[i]
         /\ \A i \in 1 .. Len(t) : (s \o t)[Len(s) + i] = t[i]
         /\ \A i \in 1 .. Len(s) + Len(t) :
              i \in 1 .. Len(s) \/ (i - Len(s) \in 1 .. Len(t) /\ (s \o t)[i] = t[i - Len(s)])
  <1>1. /\ s \o t \in Seq(S)
        /\ Len(s \o t) = Len(s) + Len(t)
        /\ \A i \in 1 .. Len(s) + Len(t) :
             (s \o t)[i] = IF i <= Len(s) THEN s[i] ELSE t[i - Len(s)]
    BY ConcatProperties
  <1>2. Len(s) \in Nat /\ Len(t) \in Nat
    OBVIOUS
  <1>. DEFINE st == s \o t
              m == Len(s)
              n == Len(t)
  <1>. HIDE DEF st, m, n
  <1>3. \A i \in 1 .. m + n : st[i] = IF i <= m THEN s[i] ELSE t[i - m]
    BY <1>1 DEF st, m, n
  <1>4. m \in Nat /\ n \in Nat
    BY <1>2 DEF m, n
  <1>5. ASSUME NEW i \in 1 .. n PROVE st[m + i] = t[i]
    <2>1. m + i \in 1 .. m + n /\ ~(m + i <= m) /\ (m + i) - m = i
      BY <1>4
    <2>. QED
      BY <1>3, <2>1
  <1>6. \A i \in 1 .. m + n : i \in 1 .. m \/ (i - m \in 1 .. n /\ st[i] = t[i - m])
    BY <1>3, <1>4
  <1>7. \A i \in 1 .. m : st[i] = s[i]
    BY <1>3, <1>4
  <1>. QED
    BY <1>1, <1>2, <1>5, <1>6, <1>7 DEF st, m, n

Occurs(x, s) == \E k \in 1 .. Len(s) : s[k] = x

\* Nothing of the parts is lost.
LEMMA FlattenHas ==
  ASSUME NEW S, NEW n \in Nat, NEW ss \in [1 .. n -> Seq(S)],
         NEW j \in 1 .. n, NEW i \in 1 .. Len(ss[j])
  PROVE  Occurs(ss[j][i], FlattenSeq(ss))
  <1>0. PICK F \in [1 .. n -> Seq(S)] : Chained(F, ss, n) /\ FlattenSeq(ss) = F[n]
    <2>1. n # 0
      OBVIOUS
    <2>. QED
      BY <2>1, FlattenChain
  <1>1. /\ F[1] = ss[1]
        /\ \A l \in 1 .. n : l # 1 => F[l] = F[l - 1] \o ss[l]
        /\ FlattenSeq(ss) = F[n]
    BY <1>0 DEF Chained
  <1>. DEFINE Has(l) == \E k \in 1 .. Len(F[l]) : F[l][k] = ss[j][i]
              T == {l \in 0 .. n : l >= j => Has(l)}
  <1>2. ASSUME NEW l \in 0 .. n - 1, l \in T PROVE l + 1 \in T
    <2>. SUFFICES ASSUME l + 1 >= j PROVE Has(l + 1)
      OBVIOUS
    <2>1. CASE l = 0
      <3>1. j = 1 /\ F[l + 1] = ss[j]
        BY <1>1, <2>1
      <3>. QED
        BY <3>1
    <2>2. CASE l # 0
      <3>1. F[l + 1] = F[l] \o ss[l + 1] /\ F[l] \in Seq(S) /\ ss[l + 1] \in Seq(S)
        <4>1. l + 1 # 1 /\ (l + 1) - 1 = l /\ l + 1 \in 1 .. n /\ l \in 1 .. n
          BY <2>2
        <4>. QED
          BY <1>1, <4>1
      <3>. DEFINE s == F[l]
                  t == ss[l + 1]
      <3>2. /\ Len(s) \in Nat /\ Len(t) \in Nat /\ Len(s \o t) = Len(s) + Len(t)
            /\ \A k \in 1 .. Len(s) : (s \o t)[k] = s[k]
            /\ \A k \in 1 .. Len(t) : (s \o t)[Len(s) + k] = t[k]
        <4>1. s \in Seq(S) /\ t \in Seq(S)
          BY <3>1
        <4>. HIDE DEF s, t
        <4>. QED
          BY <4>1, ConcatAt
      <3>3. CASE l >= j
        <4>1. PICK k \in 1 .. Len(F[l]) : F[l][k] = ss[j][i]
          BY <1>2, <3>3
        <4>2. k \in 1 .. Len(F[l + 1]) /\ F[l + 1][k] = ss[j][i]
          <5>1. F[l + 1] = s \o t /\ k \in 1 .. Len(s) /\ s[k] = ss[j][i]
            BY <3>1, <4>1
          <5>. HIDE DEF s, t
          <5>. QED
            BY <3>2, <5>1
        <4>. QED
          BY <4>2
      <3>4. CASE ~(l >= j)
        <4>1. j = l + 1
          BY <3>4
        <4>2. i \in 1 .. Len(t) /\ t[i] = ss[j][i]
          BY <4>1
        <4>3. Len(s) + i \in 1 .. Len(F[l + 1]) /\ F[l + 1][Len(s) + i] = ss[j][i]
          <5>. HIDE DEF s, t
          <5>1. F[l + 1] = s \o t
            BY <3>1 DEF s, t
          <5>. QED
            BY <3>2, <4>2, <5>1, SMTT(30)
        <4>. QED
          BY <4>3
      <3>. QED
        BY <3>3, <3>4
    <2>. QED
      BY <2>1, <2>2
  <1>3. 0 .. n \subseteq T
    <2>. 0 \in T
      OBVIOUS
    <2>. HIDE DEF T
    <2>. QED
      BY <1>2, NatSetInduction
  <1>4. n \in T
    BY <1>3
  <1>5. Has(n)
    BY <1>4
  <1>. QED
    BY <1>1, <1>5 DEF Occurs

----------------------------------------------------------------------------
(* The blocks in use, by age *)

InUse(ord) == {ord[i] : i \in 1 .. Len(ord)}
Before(ord, x, y) == \E i, j \in 1 .. Len(ord) : i < j /\ ord[i] = x /\ ord[j] = y

\* For blocks in use Older is the order of the sequence.
LEMMA OlderIs ==
  ASSUME order \in Seq(Blocks), IsInjective(order), NEW x \in InUse(order), NEW y \in InUse(order)
  PROVE  Older(x, y) <=> Before(order, x, y)
  <1>1. DOMAIN order = 1 .. Len(order)
    OBVIOUS
  <1>2. ASSUME NEW b \in InUse(order)
        PROVE  IndexOf(b) \in 1 .. Len(order) /\ order[IndexOf(b)] = b
    <2>1. \E i \in 1 .. Len(order) : order[i] = b
      BY <1>2 DEF InUse
    <2>. QED
      BY <2>1 DEF IndexOf
  <1>3. ASSUME NEW i \in 1 .. Len(order), NEW j \in 1 .. Len(order), order[i] = order[j]
        PROVE  i = j
    BY <1>1, <1>3 DEF IsInjective
  <1>4. /\ IndexOf(x) \in 1 .. Len(order) /\ order[IndexOf(x)] = x
        /\ IndexOf(y) \in 1 .. Len(order) /\ order[IndexOf(y)] = y
    BY <1>2
  <1>. QED
    BY <1>3, <1>4 DEF Older, Before

\* One of two blocks in use is the older one.
LEMMA BeforeTotal ==
  ASSUME NEW ord \in Seq(Blocks), IsInjective(ord), NEW x \in InUse(ord), NEW y \in InUse(ord)
  PROVE  /\ x # y => Before(ord, x, y) \/ Before(ord, y, x)
         /\ ~(Before(ord, x, y) /\ Before(ord, y, x))
         /\ ~Before(ord, x, x)
  <1>1. DOMAIN ord = 1 .. Len(ord) /\ Len(ord) \in Nat
    OBVIOUS
  <1>2. ASSUME NEW i \in 1 .. Len(ord), NEW j \in 1 .. Len(ord), ord[i] = ord[j]
        PROVE  i = j
    BY <1>1, <1>2 DEF IsInjective
  <1>3. PICK i \in 1 .. Len(ord), j \in 1 .. Len(ord) : ord[i] = x /\ ord[j] = y
    BY DEF InUse
  <1>. QED
    BY <1>1, <1>2, <1>3 DEF Before

\* Blocks with an age are in use.
LEMMA BeforeInUse ==
  ASSUME NEW ord, NEW x, NEW y, Before(ord, x, y)
  PROVE  x \in InUse(ord) /\ y \in InUse(ord)
  BY DEF Before, InUse

\* The order of age is transitive.
LEMMA BeforeTrans ==
  ASSUME NEW ord \in Seq(Blocks), IsInjective(ord), NEW x, NEW y, NEW z,
         Before(ord, x, y), Before(ord, y, z)
  PROVE  Before(ord, x, z)
  <1>1. DOMAIN ord = 1 .. Len(ord) /\ Len(ord) \in Nat
    OBVIOUS
  <1>2. ASSUME NEW i \in 1 .. Len(ord), NEW j \in 1 .. Len(ord), ord[i] = ord[j]
        PROVE  i = j
    BY <1>1, <1>2 DEF IsInjective
  <1>3. PICK i \in 1 .. Len(ord), j \in 1 .. Len(ord) : i < j /\ ord[i] = x /\ ord[j] = y
    BY DEF Before
  <1>4. PICK k \in 1 .. Len(ord), l \in 1 .. Len(ord) : k < l /\ ord[k] = y /\ ord[l] = z
    BY DEF Before
  <1>5. j = k /\ i < l
    BY <1>1, <1>2, <1>3, <1>4
  <1>. QED
    BY <1>3, <1>4, <1>5 DEF Before

\* A block taken into use is the newest.
LEMMA TakenNewest ==
  ASSUME NEW ord \in Seq(Blocks), IsInjective(ord), NEW t \in Blocks, t \notin InUse(ord)
  PROVE  /\ Append(ord, t) \in Seq(Blocks) /\ IsInjective(Append(ord, t))
         /\ InUse(Append(ord, t)) = InUse(ord) \cup {t}
         /\ \A x, y : Before(ord, x, y) => Before(Append(ord, t), x, y)
         /\ \A x, y \in InUse(ord) : Before(Append(ord, t), x, y) => Before(ord, x, y)
         /\ \A x \in InUse(ord) : Before(Append(ord, t), x, t)
  <1>. DEFINE a == Append(ord, t)
              n == Len(ord)
  <1>1. n \in Nat /\ DOMAIN ord = 1 .. n
    OBVIOUS
  <1>2. /\ a \in Seq(Blocks) /\ Len(a) = n + 1 /\ DOMAIN a = 1 .. n + 1
        /\ a[n + 1] = t /\ \A i \in 1 .. n : a[i] = ord[i]
    OBVIOUS
  <1>3. ASSUME NEW i \in 1 .. n, NEW j \in 1 .. n, ord[i] = ord[j] PROVE i = j
    BY <1>1, <1>3 DEF IsInjective
  <1>4. \A i \in 1 .. n : ord[i] # t
    BY DEF InUse
  <1>. HIDE DEF a, n
  <1>5. \A i \in 1 .. n + 1 : i \in 1 .. n \/ i = n + 1
    BY <1>1
  <1>6. IsInjective(a)
    <2>. SUFFICES ASSUME NEW i \in 1 .. n + 1, NEW j \in 1 .. n + 1, a[i] = a[j] PROVE i = j
      BY <1>2 DEF IsInjective
    <2>. QED
      BY <1>2, <1>3, <1>4, <1>5
  <1>7. InUse(ord) = {ord[i] : i \in 1 .. n} /\ InUse(a) = {a[i] : i \in 1 .. n + 1}
    BY <1>2 DEF InUse, n
  <1>8. InUse(a) = InUse(ord) \cup {t}
    <2>1. \A i \in 1 .. n : i \in 1 .. n + 1
      BY <1>1
    <2>2. n + 1 \in 1 .. n + 1
      BY <1>1
    <2>. QED
      BY <1>2, <1>5, <1>7, <2>1, <2>2
  <1>9. ASSUME NEW x, NEW y
        PROVE  Before(ord, x, y) <=> \E i, j \in 1 .. n : i < j /\ ord[i] = x /\ ord[j] = y
    BY DEF Before, n
  <1>10. ASSUME NEW x, NEW y
         PROVE  Before(a, x, y) <=> \E i, j \in 1 .. n + 1 : i < j /\ a[i] = x /\ a[j] = y
    BY <1>2 DEF Before
  <1>11. ASSUME NEW x, NEW y, Before(ord, x, y) PROVE Before(a, x, y)
    <2>1. PICK i \in 1 .. n, j \in 1 .. n : i < j /\ ord[i] = x /\ ord[j] = y
      BY <1>9, <1>11
    <2>2. i \in 1 .. n + 1 /\ j \in 1 .. n + 1 /\ a[i] = x /\ a[j] = y
      BY <1>1, <1>2, <2>1
    <2>. QED
      BY <1>10, <2>1, <2>2
  <1>12. ASSUME NEW x \in InUse(ord), NEW y \in InUse(ord), Before(a, x, y) PROVE Before(ord, x, y)
    <2>1. PICK i \in 1 .. n + 1, j \in 1 .. n + 1 : i < j /\ a[i] = x /\ a[j] = y
      BY <1>10, <1>12
    <2>2. x # t /\ y # t
      BY <1>4, <1>7
    <2>3. i \in 1 .. n /\ j \in 1 .. n
      BY <1>2, <1>5, <2>1, <2>2
    <2>4. ord[i] = x /\ ord[j] = y
      BY <1>2, <2>1, <2>3
    <2>. QED
      BY <1>9, <2>1, <2>3, <2>4
  <1>13. ASSUME NEW x \in InUse(ord) PROVE Before(a, x, t)
    <2>1. PICK i \in 1 .. n : ord[i] = x
      BY <1>7
    <2>2. i \in 1 .. n + 1 /\ n + 1 \in 1 .. n + 1 /\ i < n + 1 /\ a[i] = x /\ a[n + 1] = t
      BY <1>1, <1>2, <2>1
    <2>. QED
      BY <1>10, <2>2
  <1>. QED
    BY <1>2, <1>6, <1>8, <1>11, <1>12, <1>13 DEF a

\* Blocks that leave leave the others in the order they had.
LEMMA OthersStay ==
  ASSUME order \in Seq(Blocks), IsInjective(order), NEW S
  PROVE  /\ InUseBut(S) \in Seq(Blocks) /\ IsInjective(InUseBut(S))
         /\ InUse(InUseBut(S)) = InUse(order) \ S
         /\ \A x, y : Before(InUseBut(S), x, y) => Before(order, x, y)
         /\ \A x, y \in InUse(InUseBut(S)) : Before(order, x, y) => Before(InUseBut(S), x, y)
  <1>. DEFINE n == Len(order)
              one(i) == IF order[i] \in S THEN <<>> ELSE <<order[i]>>
              ss == [i \in 1 .. n |-> one(i)]
              o == InUseBut(S)
  <1>1. n \in Nat /\ DOMAIN order = 1 .. n /\ \A i \in 1 .. n : order[i] \in Blocks
    OBVIOUS
  <1>2. ASSUME NEW i \in 1 .. n, NEW j \in 1 .. n, order[i] = order[j] PROVE i = j
    BY <1>1, <1>2 DEF IsInjective
  <1>3. o = FlattenSeq(ss)
    BY DEF InUseBut
  <1>4. ss \in [1 .. n -> Seq(Blocks)]
    <2>1. ASSUME NEW i \in 1 .. n PROVE one(i) \in Seq(Blocks)
      <3>1. order[i] \in Blocks
        BY <1>1
      <3>2. <<order[i]>> \in Seq(Blocks) /\ <<>> \in Seq(Blocks)
        BY <3>1
      <3>. QED
        BY <3>2
    <2>. HIDE DEF one
    <2>. QED
      BY <2>1
  <1>. HIDE DEF o
  \* The first k blocks without those of S are q.
  <1>. DEFINE Kept(q, k) ==
         /\ q \in Seq(Blocks)
         /\ \A p \in 1 .. Len(q) : \E i \in 1 .. k : order[i] = q[p] /\ order[i] \notin S
         /\ \A i \in 1 .. k : order[i] \notin S => \E p \in 1 .. Len(q) : q[p] = order[i]
         /\ \A p1, p2 \in 1 .. Len(q) : p1 < p2 =>
              \E i, j \in 1 .. k : i < j /\ order[i] = q[p1] /\ order[j] = q[p2]
  <1>5. Kept(o, n)
    <2>1. CASE n = 0
      <3>1. ss = <<>> /\ Len(ss) = 0
        BY <2>1
      <3>2. o = <<>>
        BY <1>3, <3>1 DEF FlattenSeq
      <3>. QED
        BY <2>1, <3>2
    <2>2. CASE n # 0
      <3>1. PICK F \in [1 .. n -> Seq(Blocks)] : Chained(F, ss, n) /\ FlattenSeq(ss) = F[n]
        <4>. HIDE DEF ss, n
        <4>. QED
          BY <1>1, <1>4, <2>2, FlattenChain
      <3>. DEFINE T == {k \in 0 .. n : k # 0 => Kept(F[k], k)}
      <3>2. ASSUME NEW k \in 0 .. n - 1, k \in T PROVE k + 1 \in T
        <4>. DEFINE q == IF k = 0 THEN <<>> ELSE F[k]
                    x == order[k + 1]
        <4>1. k + 1 \in 1 .. n /\ k \in Nat /\ x \in Blocks
          BY <1>1
        <4>2. Kept(q, k)
          <5>1. CASE k = 0
            BY <5>1
          <5>2. CASE k # 0
            BY <3>2, <5>2
          <5>. QED
            BY <5>1, <5>2
        <4>3. F[k + 1] = q \o one(k + 1)
          <5>1. one(k + 1) \in Seq(Blocks) /\ ss[k + 1] = one(k + 1)
            BY <1>4, <4>1
          <5>2. CASE k = 0
            <6>1. F[k + 1] = one(k + 1)
              BY <3>1, <5>1, <5>2 DEF Chained
            <6>2. <<>> \o one(k + 1) = one(k + 1)
              BY <5>1, ConcatEmptySeq
            <6>. QED
              BY <5>2, <6>1, <6>2
          <5>3. CASE k # 0
            <6>1. k + 1 \in 1 .. n /\ k + 1 # 1 /\ (k + 1) - 1 = k
              BY <4>1, <5>3
            <6>2. F[k + 1] = F[k] \o ss[k + 1]
              <7>. HIDE DEF ss, one
              <7>. QED
                BY <3>1, <6>1 DEF Chained
            <6>. QED
              BY <5>1, <5>3, <6>2
          <5>. QED
            BY <5>2, <5>3
        <4>4. CASE x \in S
          <5>1. one(k + 1) = <<>>
            BY <4>4
          <5>2. F[k + 1] = q
            <6>1. q \in Seq(Blocks)
              BY <4>2
            <6>. HIDE DEF q, one
            <6>. QED
              BY <4>3, <5>1, <6>1, ConcatEmptySeq
          <5>3. Kept(q, k + 1)
            <6>. HIDE DEF q
            <6>1. \A i \in 1 .. k : i \in 1 .. k + 1
              BY <4>1
            <6>2. \A i \in 1 .. k + 1 : i \in 1 .. k \/ i = k + 1
              BY <4>1
            <6>. QED
              BY <4>2, <4>4, <6>1, <6>2
          <5>. HIDE DEF Kept, q
          <5>. QED
            BY <4>1, <5>2, <5>3
        <4>5. CASE x \notin S
          <5>1. one(k + 1) = <<x>>
            BY <4>5
          <5>. DEFINE m == Len(q)
                      r == F[k + 1]
          <5>2. q \in Seq(Blocks) /\ m \in Nat
            <6>1. q \in Seq(Blocks)
              BY <4>2
            <6>. QED
              BY <6>1
          <5>3. /\ r \in Seq(Blocks) /\ Len(r) = m + 1
                /\ r[m + 1] = x /\ \A p \in 1 .. m : r[p] = q[p]
            <6>1. r = q \o <<x>>
              BY <4>3, <5>1
            <6>. HIDE DEF q, x, r
            <6>. QED
              BY <4>1, <5>2, <6>1
          <5>4. Kept(r, k + 1)
            <6>. HIDE DEF r, q, m
            <6>1. \A i \in 1 .. k : i \in 1 .. k + 1 /\ i < k + 1
              BY <4>1
            <6>2. \A i \in 1 .. k + 1 : i \in 1 .. k \/ i = k + 1
              BY <4>1
            <6>3. \A p \in 1 .. m + 1 : p \in 1 .. m \/ p = m + 1
              BY <5>2
            <6>4. \A p \in 1 .. m : p \in 1 .. m + 1
              BY <5>2
            <6>5. /\ \A p \in 1 .. m : \E i \in 1 .. k : order[i] = q[p] /\ order[i] \notin S
                  /\ \A i \in 1 .. k : order[i] \notin S => \E p \in 1 .. m : q[p] = order[i]
                  /\ \A p1, p2 \in 1 .. m : p1 < p2 =>
                       \E i, j \in 1 .. k : i < j /\ order[i] = q[p1] /\ order[j] = q[p2]
              BY <4>2 DEF m
            <6>6. ASSUME NEW p \in 1 .. m + 1
                  PROVE  \E i \in 1 .. k + 1 : order[i] = r[p] /\ order[i] \notin S
              BY <4>1, <4>5, <5>3, <6>1, <6>3, <6>5, SMTT(30)
            <6>7. ASSUME NEW i \in 1 .. k + 1, order[i] \notin S
                  PROVE  \E p \in 1 .. m + 1 : r[p] = order[i]
              <7>1. CASE i \in 1 .. k
                <8>1. PICK p \in 1 .. m : q[p] = order[i]
                  BY <6>5, <6>7, <7>1
                <8>. QED
                  BY <5>3, <6>4, <8>1
              <7>2. CASE i = k + 1
                <8>1. m + 1 \in 1 .. m + 1
                  BY <5>2
                <8>. QED
                  BY <5>3, <7>2, <8>1
              <7>. QED
                BY <6>2, <7>1, <7>2
            <6>8. ASSUME NEW p1 \in 1 .. m + 1, NEW p2 \in 1 .. m + 1, p1 < p2
                  PROVE  \E i, j \in 1 .. k + 1 : i < j /\ order[i] = r[p1] /\ order[j] = r[p2]
              <7>1. p1 \in 1 .. m
                BY <5>2, <6>8
              <7>2. CASE p2 \in 1 .. m
                <8>1. PICK i \in 1 .. k, j \in 1 .. k : i < j /\ order[i] = q[p1] /\ order[j] = q[p2]
                  BY <6>5, <6>8, <7>1, <7>2
                <8>. QED
                  BY <5>3, <6>1, <7>1, <7>2, <8>1
              <7>3. CASE p2 = m + 1
                <8>1. PICK i \in 1 .. k : order[i] = q[p1]
                  BY <6>5, <7>1
                <8>2. k + 1 \in 1 .. k + 1 /\ i < k + 1 /\ i \in 1 .. k + 1
                  BY <4>1, <6>1
                <8>3. order[i] = r[p1] /\ order[k + 1] = r[p2]
                  BY <5>3, <7>1, <7>3, <8>1
                <8>. QED
                  BY <8>2, <8>3
              <7>. QED
                BY <6>3, <7>2, <7>3
            <6>. QED
              BY <5>3, <6>6, <6>7, <6>8
          <5>. HIDE DEF Kept
          <5>. QED
            BY <4>1, <5>4
        <4>. QED
          BY <4>4, <4>5
      <3>3. 0 .. n \subseteq T
        <4>. 0 \in T
          BY <1>1
        <4>. HIDE DEF T, n
        <4>. QED
          BY <1>1, <3>2, NatSetInduction
      <3>4. n \in T
        <4>. HIDE DEF T
        <4>. QED
          BY <1>1, <3>3
      <3>5. Kept(F[n], n)
        <4>. HIDE DEF Kept
        <4>. QED
          BY <2>2, <3>4
      <3>. QED
        <4>. HIDE DEF Kept, ss
        <4>. QED
          BY <1>3, <3>1, <3>5
    <2>. QED
      BY <2>1, <2>2
  <1>6. /\ o \in Seq(Blocks) /\ Len(o) \in Nat /\ DOMAIN o = 1 .. Len(o)
        /\ \A p \in 1 .. Len(o) : \E i \in 1 .. n : order[i] = o[p] /\ order[i] \notin S
        /\ \A i \in 1 .. n : order[i] \notin S => \E p \in 1 .. Len(o) : o[p] = order[i]
        /\ \A p1, p2 \in 1 .. Len(o) : p1 < p2 =>
              \E i, j \in 1 .. n : i < j /\ order[i] = o[p1] /\ order[j] = o[p2]
    BY <1>5
  <1>. HIDE DEF Kept
  <1>a. InUse(order) = {order[i] : i \in 1 .. n} /\ InUse(o) = {o[i] : i \in 1 .. Len(o)}
    BY DEF InUse
  <1>b. \A x, y : Before(order, x, y) <=> \E i, j \in 1 .. n : i < j /\ order[i] = x /\ order[j] = y
    BY DEF Before
  <1>. HIDE DEF n
  <1>7. IsInjective(o)
    <2>. SUFFICES ASSUME NEW p1 \in 1 .. Len(o), NEW p2 \in 1 .. Len(o), o[p1] = o[p2], p1 # p2
                  PROVE  FALSE
      BY <1>6 DEF IsInjective
    <2>1. p1 < p2 \/ p2 < p1
      OBVIOUS
    <2>2. \E i, j \in 1 .. n : i < j /\ order[i] = order[j]
      <3>1. CASE p1 < p2
        <4>1. PICK i \in 1 .. n, j \in 1 .. n : i < j /\ order[i] = o[p1] /\ order[j] = o[p2]
          BY <1>6, <3>1
        <4>. QED
          BY <4>1
      <3>2. CASE p2 < p1
        <4>1. PICK i \in 1 .. n, j \in 1 .. n : i < j /\ order[i] = o[p2] /\ order[j] = o[p1]
          BY <1>6, <3>2
        <4>. QED
          BY <4>1
      <3>. QED
        BY <2>1, <3>1, <3>2
    <2>. QED
      BY <1>1, <1>2, <2>2
  <1>8. InUse(o) = InUse(order) \ S
    <2>1. ASSUME NEW x \in InUse(o) PROVE x \in InUse(order) \ S
      <3>1. PICK p \in 1 .. Len(o) : x = o[p]
        BY <1>a
      <3>2. PICK i \in 1 .. n : order[i] = o[p] /\ order[i] \notin S
        BY <1>6
      <3>. QED
        BY <1>a, <3>1, <3>2
    <2>2. ASSUME NEW x \in InUse(order), x \notin S PROVE x \in InUse(o)
      <3>1. PICK i \in 1 .. n : x = order[i]
        BY <1>a
      <3>2. PICK p \in 1 .. Len(o) : o[p] = order[i]
        BY <1>6, <2>2, <3>1
      <3>. QED
        BY <1>a, <3>1, <3>2
    <2>. QED
      BY <2>1, <2>2
  <1>9. ASSUME NEW x, NEW y, Before(o, x, y) PROVE Before(order, x, y)
    <2>1. PICK p1 \in 1 .. Len(o), p2 \in 1 .. Len(o) : p1 < p2 /\ o[p1] = x /\ o[p2] = y
      BY <1>9 DEF Before
    <2>2. PICK i \in 1 .. n, j \in 1 .. n : i < j /\ order[i] = o[p1] /\ order[j] = o[p2]
      BY <1>6, <2>1
    <2>. QED
      BY <1>b, <2>1, <2>2
  <1>10. ASSUME NEW x \in InUse(o), NEW y \in InUse(o), Before(order, x, y) PROVE Before(o, x, y)
    <2>1. x # y
      BY <1>8, <1>10, BeforeTotal
    <2>2. Before(o, x, y) \/ Before(o, y, x)
      BY <1>6, <1>7, <2>1, BeforeTotal
    <2>3. ~Before(order, y, x)
      BY <1>8, <1>10, BeforeTotal
    <2>. QED
      BY <1>9, <2>2, <2>3
  <1>. QED
    BY <1>6, <1>7, <1>8, <1>9, <1>10 DEF o

\* The collector finds the oldest of some blocks in use.
LEMMA OldestExists ==
  ASSUME order \in Seq(Blocks), IsInjective(order), NEW S, S \subseteq InUse(order), S # {}
  PROVE  /\ OldestOf(S) \in S
         /\ \A x \in S \ {OldestOf(S)} : Before(order, OldestOf(S), x)
  <1>. DEFINE n == Len(order)
              I == {i \in 1 .. n : order[i] \in S}
  <1>1. n \in Nat
    OBVIOUS
  <1>2. PICK s \in S : TRUE
    OBVIOUS
  <1>3. PICK i \in 1 .. n : order[i] = s
    BY <1>2 DEF InUse
  <1>4. I \subseteq Nat /\ I # {}
    BY <1>2, <1>3
  <1>5. PICK k \in I : \A j \in I : k <= j
    BY <1>4, LeastNat
  <1>6. ASSUME NEW x \in S \ {order[k]} PROVE Before(order, order[k], x)
    <2>1. PICK j \in 1 .. n : order[j] = x
      BY DEF InUse
    <2>2. j \in I /\ k <= j /\ k # j
      BY <1>5, <2>1
    <2>3. k < j
      BY <2>1, <2>2
    <2>. QED
      BY <2>1, <2>3 DEF Before
  <1>7. \A x \in S \ {order[k]} : Older(order[k], x)
    <2>1. order[k] \in InUse(order)
      BY <1>5 DEF InUse
    <2>. QED
      BY <1>6, <2>1, OlderIs
  <1>8. \E b \in S : \A x \in S \ {b} : Older(b, x)
    BY <1>5, <1>7
  <1>9. OldestOf(S) \in S /\ \A x \in S \ {OldestOf(S)} : Older(OldestOf(S), x)
    BY <1>8 DEF OldestOf
  <1>10. \A x \in S \ {OldestOf(S)} : OldestOf(S) \in InUse(order) /\ x \in InUse(order)
    BY <1>9
  <1>. QED
    BY <1>9, <1>10, OlderIs

\* The newest of some blocks in use.
LEMMA NewestExists ==
  ASSUME order \in Seq(Blocks), IsInjective(order), NEW S, S \subseteq InUse(order), S # {}
  PROVE  (CHOOSE x \in S : \A y \in S \ {x} : Older(y, x)) \in S
  <1>. DEFINE n == Len(order)
              I == {i \in 1 .. n : order[i] \in S}
  <1>1. n \in Nat
    OBVIOUS
  <1>2. PICK s \in S : TRUE
    OBVIOUS
  <1>3. PICK i \in 1 .. n : order[i] = s
    BY <1>2 DEF InUse
  <1>4. I \subseteq Nat /\ I # {} /\ \A j \in I : j <= n
    BY <1>1, <1>2, <1>3
  <1>5. PICK k \in I : \A j \in I : j <= k
    BY <1>1, <1>4, NatMax
  <1>6. ASSUME NEW x \in S \ {order[k]} PROVE Before(order, x, order[k])
    <2>1. PICK j \in 1 .. n : order[j] = x
      BY DEF InUse
    <2>2. j \in I /\ j <= k /\ k # j
      BY <1>5, <2>1
    <2>3. j < k
      BY <2>1, <2>2
    <2>. QED
      BY <2>1, <2>3 DEF Before
  <1>7. \A x \in S \ {order[k]} : Older(x, order[k])
    <2>1. order[k] \in InUse(order)
      BY <1>5 DEF InUse
    <2>. QED
      BY <1>6, <2>1, OlderIs
  <1>8. \E b \in S : \A x \in S \ {b} : Older(x, b)
    BY <1>5, <1>7
  <1>. QED
    BY <1>8

\* The least of some blocks.
LEMMA LeastBlock ==
  ASSUME NEW S, S \subseteq Blocks, S # {}
  PROVE  Min(S) \in S
  <1>1. S \subseteq Nat
    BY DEF Blocks
  <1>2. \E n \in S : \A k \in S : n <= k
    BY <1>1, LeastNat
  <1>. QED
    BY <1>2 DEF Min

\* The larger of two.
LEMMA MaxOfTwo ==
  ASSUME NEW x \in Nat, NEW y \in Nat
  PROVE  Max({x, y}) = IF x >= y THEN x ELSE y
  <1>1. \A z \in {x, y} : z \in Nat
    OBVIOUS
  <1>2. \E z \in {x, y} : \A w \in {x, y} : z >= w
    OBVIOUS
  <1>3. Max({x, y}) \in {x, y} /\ \A w \in {x, y} : Max({x, y}) >= w
    BY <1>2 DEF Max
  <1>. QED
    BY <1>3

----------------------------------------------------------------------------
(* Kinds of things *)

Pages == Blocks \X (1 .. Cpb)
Refs == Pages \cup {NoRef}
TagDirs == {"", "root", "unlinked", "deleted"}
Tags == [obj : Files, chunk : 0 .. MaxChunk, val : 0 .. MaxOps, size : 0 .. MaxChunk,
         dir : TagDirs, name : Names \cup {""}, shrink : BOOLEAN, shadows : Files \cup {0}]
Objects == [hdr : Refs, chunk : [Chunks -> Refs], size : 0 .. MaxChunk,
            dir : TagDirs \cup {"none"}, name : Names \cup {""}, dirty : BOOLEAN]
Cachings == [f : Files, c : Chunks, v : 0 .. MaxOps]
BlockStates == {"EMPTY", "ALLOCATING", "FULL", "COLLECTING", "DIRTY"}
Devs == [objs : [Files -> Objects], used : SUBSET Pages, shrink : [Blocks -> BOOLEAN],
         state : [Blocks -> BlockStates], alloc : 0 .. NBlocks, gcBlock : 0 .. NBlocks,
         gcChunk : Nat, dirtiest : 0 .. NBlocks, oldest : 0 .. NBlocks,
         cache : SUBSET Cachings]

GcSteps == [do : {"gc", "bggc"}]
CopySteps == [do : {"copy"}, left : Nat \ {0}]
DataSteps == [do : {"data"}, f : Files, c : Chunks, v : 0 .. MaxOps, reserve : BOOLEAN]
HdrSteps == [do : {"hdr"}, f : Files, dir : TagDirs \ {""}, name : Names \cup {""},
             shrink : BOOLEAN, shadows : Files \cup {0}]
CacheSteps == [do : {"cache"}, f : Files, c : Chunks, v : 0 .. MaxOps]
PruneSteps == [do : {"prune"}, f : Files, c : Chunks]
SizeSteps == [do : {"size"}, f : Files, n : 0 .. MaxChunk]
FreeSteps == [do : {"free"}, f : Files]
EndSteps == [do : {"end"}, result : {"done", "failed"}]
StepSet == GcSteps \cup CopySteps \cup DataSteps \cup HdrSteps \cup CacheSteps
           \cup PruneSteps \cup SizeSteps \cup FreeSteps \cup EndSteps

\* What the kind of a step says of its fields.
LEMMA StepKinds ==
  ASSUME NEW s \in StepSet
  PROVE  /\ s.do = "copy" => s \in CopySteps
         /\ s.do = "data" => s \in DataSteps
         /\ s.do = "hdr" => s \in HdrSteps
         /\ s.do = "cache" => s \in CacheSteps
         /\ s.do = "prune" => s \in PruneSteps
         /\ s.do = "size" => s \in SizeSteps
         /\ s.do = "free" => s \in FreeSteps
         /\ s.do \in {"gc", "bggc", "copy", "data", "hdr", "cache", "prune", "size", "free", "end"}
  BY DEF StepSet, GcSteps, CopySteps, DataSteps, HdrSteps, CacheSteps, PruneSteps, SizeSteps,
         FreeSteps, EndSteps

----------------------------------------------------------------------------
(* References *)

\* The page of chunk c of f, of its header for 0.
Ptr(objs, f, c) == IF c = 0 THEN objs[f].hdr ELSE objs[f].chunk[c]

\* Page r was programmed with chunk c of f.
Holds(fl, r, f, c) == /\ r[2] \in 1 .. Len(fl[r[1]])
                      /\ fl[r[1]][r[2]].obj = f /\ fl[r[1]][r[2]].chunk = c

Pointed(fl, objs) ==
  \A f \in Files : \A c \in 0 .. MaxChunk :
    Ptr(objs, f, c) # NoRef => Holds(fl, Ptr(objs, f, c), f, c)

\* A file has chunks, and chunk 0 stands for its header.
LEMMA ChunksAre == MaxChunk \in Nat /\ MaxChunk # 0 /\ 0 .. MaxChunk = {0} \cup Chunks /\ 0 \notin Chunks
  BY YaffsAssumption DEF Chunks

\* The pages referred to are those of some header or chunk.
LEMMA RefsAre ==
  ASSUME NEW objs, NEW r
  PROVE  r \in RefsOf(objs) <=> /\ r # NoRef
                                /\ \E f \in Files, c \in 0 .. MaxChunk : r = Ptr(objs, f, c)
  <1>1. r \in RefsOf(objs) <=>
          /\ r # NoRef
          /\ \/ \E f \in Files : r = objs[f].hdr
             \/ \E f \in Files : \E c \in Chunks : r = objs[f].chunk[c]
    BY DEF RefsOf
  <1>2. \A f \in Files : \A c \in Chunks : Ptr(objs, f, c) = objs[f].chunk[c]
    BY ChunksAre DEF Ptr
  <1>3. \A f \in Files : Ptr(objs, f, 0) = objs[f].hdr
    BY DEF Ptr
  <1>. QED
    BY <1>1, <1>2, <1>3, ChunksAre

\* Flash fl2 keeps what fl has.
Extends(fl, fl2) == \A r \in Pages : \A f, c : Holds(fl, r, f, c) => Holds(fl2, r, f, c)

\* A pointer names a page or nothing.
LEMMA PtrType ==
  ASSUME NEW objs \in [Files -> Objects], NEW f \in Files, NEW c \in 0 .. MaxChunk
  PROVE  Ptr(objs, f, c) \in Pages \cup {NoRef}
  <1>1. objs[f] \in Objects /\ (c # 0 => c \in Chunks)
    BY ChunksAre
  <1>2. objs[f].hdr \in Refs /\ objs[f].chunk \in [Chunks -> Refs]
    BY <1>1 DEF Objects
  <1>. QED
    BY <1>1, <1>2 DEF Ptr, Refs

\* One pointer changes, to nothing or to a page of its own.
LEMMA PointerMoves ==
  ASSUME NEW fl, NEW fl2, NEW objs \in [Files -> Objects], NEW objs2, Pointed(fl, objs), Extends(fl, fl2),
         NEW f \in Files, NEW c \in 0 .. MaxChunk, NEW x,
         x # NoRef => x \notin RefsOf(objs) /\ Holds(fl2, x, f, c),
         Ptr(objs2, f, c) = x,
         \A g \in Files : \A d \in 0 .. MaxChunk :
           <<g, d>> # <<f, c>> => Ptr(objs2, g, d) = Ptr(objs, g, d)
  PROVE  /\ Pointed(fl2, objs2)
         /\ RefsOf(objs2) = (RefsOf(objs) \ {Ptr(objs, f, c)}) \cup ({x} \ {NoRef})
  <1>1. Pointed(fl2, objs2)
    BY PtrType DEF Pointed, Extends
  <1>2. ASSUME NEW g \in Files, NEW d \in 0 .. MaxChunk, <<g, d>> # <<f, c>>,
               Ptr(objs, g, d) # NoRef
        PROVE  Ptr(objs, g, d) # Ptr(objs, f, c)
    <2>1. SUFFICES ASSUME Ptr(objs, g, d) = Ptr(objs, f, c) PROVE FALSE
      OBVIOUS
    <2>2. Holds(fl, Ptr(objs, g, d), g, d) /\ Holds(fl, Ptr(objs, g, d), f, c)
      BY <1>2, <2>1 DEF Pointed
    <2>3. g = f /\ d = c
      BY <2>2 DEF Holds
    <2>. QED
      BY <1>2, <2>3
  <1>3. ASSUME NEW r \in RefsOf(objs2)
        PROVE  r \in (RefsOf(objs) \ {Ptr(objs, f, c)}) \cup ({x} \ {NoRef})
    <2>1. r # NoRef
      BY RefsAre
    <2>2. PICK g \in Files, d \in 0 .. MaxChunk : r = Ptr(objs2, g, d)
      BY RefsAre
    <2>3. CASE <<g, d>> = <<f, c>>
      <3>1. r = x
        BY <2>2, <2>3
      <3>. QED
        BY <2>1, <3>1
    <2>4. CASE <<g, d>> # <<f, c>>
      <3>1. r = Ptr(objs, g, d)
        BY <2>2, <2>4
      <3>2. r \in RefsOf(objs)
        BY <2>1, <3>1, RefsAre
      <3>3. r # Ptr(objs, f, c)
        BY <1>2, <2>1, <2>4, <3>1
      <3>. QED
        BY <3>2, <3>3
    <2>. QED
      BY <2>3, <2>4
  <1>4. ASSUME NEW r \in RefsOf(objs), r # Ptr(objs, f, c) PROVE r \in RefsOf(objs2)
    <2>1. r # NoRef
      BY RefsAre
    <2>2. PICK g \in Files, d \in 0 .. MaxChunk : r = Ptr(objs, g, d)
      BY RefsAre
    <2>3. <<g, d>> # <<f, c>>
      BY <1>4, <2>2
    <2>4. r = Ptr(objs2, g, d)
      BY <2>2, <2>3
    <2>. QED
      BY <2>1, <2>4, RefsAre
  <1>5. x # NoRef => x \in RefsOf(objs2)
    BY RefsAre
  <1>. QED
    BY <1>1, <1>3, <1>4, <1>5

\* The same pointers refer to the same pages.
LEMMA SameRefs ==
  ASSUME NEW objs, NEW objs2,
         \A f \in Files : \A c \in 0 .. MaxChunk : Ptr(objs2, f, c) = Ptr(objs, f, c)
  PROVE  RefsOf(objs2) = RefsOf(objs) /\ \A fl : Pointed(fl, objs2) <=> Pointed(fl, objs)
  <1>1. \A r : r \in RefsOf(objs2) <=> r \in RefsOf(objs)
    BY RefsAre
  <1>2. ASSUME NEW fl PROVE Pointed(fl, objs2) <=> Pointed(fl, objs)
    BY DEF Pointed
  <1>. QED
    BY <1>1, <1>2

----------------------------------------------------------------------------
(* What a mount makes of the flash *)

Scans == [objs : [Files -> Objects], met : SUBSET Files, valid : SUBSET Files,
          limit : [Files -> 0 .. MaxChunk], marked : SUBSET Blocks]

\* Chunks end where their file does.
ChunksInside(objs) ==
  \A f \in Files : \A c \in Chunks : objs[f].chunk[c] # NoRef => c <= objs[f].size

\* The scans of a flash: what they found is there, within the sizes and limits found.
ScansOf(fl) ==
  {m \in Scans : /\ Pointed(fl, m.objs) /\ ChunksInside(m.objs)
                 /\ \A f \in m.valid : m.limit[f] <= m.objs[f].size}

FlashOK(fl) == fl \in [Blocks -> Seq(Tags)] /\ \A b \in Blocks : Len(fl[b]) <= Cpb

\* The lesser and the larger of two sizes are sizes.
LEMMA LeastMost ==
  ASSUME NEW x \in 0 .. MaxChunk, NEW y \in 0 .. MaxChunk
  PROVE  /\ LeastOf(x, y) \in 0 .. MaxChunk /\ LeastOf(x, y) <= x /\ LeastOf(x, y) <= y
         /\ MostOf(x, y) \in 0 .. MaxChunk /\ MostOf(x, y) >= x /\ MostOf(x, y) >= y
  BY ChunksAre DEF LeastOf, MostOf

\* A scan that has met nothing is one.
LEMMA BlankScanOK ==
  ASSUME NEW fl
  PROVE  BlankScan \in ScansOf(fl)
  <1>1. NoObj \in Objects
    BY ChunksAre DEF NoObj, Objects, Refs
  <1>2. BlankScan \in Scans
    BY <1>1, ChunksAre DEF BlankScan, Scans
  <1>3. \A f \in Files : BlankScan.objs[f] = NoObj
    BY DEF BlankScan
  <1>a. NoObj.hdr = NoRef /\ \A c \in Chunks : NoObj.chunk[c] = NoRef
    BY DEF NoObj
  <1>4. ASSUME NEW f \in Files, NEW c \in 0 .. MaxChunk PROVE Ptr(BlankScan.objs, f, c) = NoRef
    <2>1. BlankScan.objs[f] = NoObj /\ (c = 0 \/ c \in Chunks)
      BY <1>3, ChunksAre
    <2>. QED
      BY <1>a, <2>1 DEF Ptr
  <1>5. Pointed(fl, BlankScan.objs)
    BY <1>4 DEF Pointed
  <1>6. ChunksInside(BlankScan.objs)
    BY <1>a, <1>3 DEF ChunksInside
  <1>7. BlankScan.valid = {}
    BY DEF BlankScan
  <1>. QED
    BY <1>2, <1>5, <1>6, <1>7 DEF ScansOf

\* yaffs2_scan_backwards at a data chunk.
LEMMA MeetDataOK ==
  ASSUME NEW fl, NEW m \in ScansOf(fl), NEW r \in Pages, NEW t \in Tags, t.chunk > 0,
         Holds(fl, r, t.obj, t.chunk)
  PROVE  MeetData(m, r, t) \in ScansOf(fl)
  <1>. DEFINE n == MeetData(m, r, t)
              f == t.obj
              c == t.chunk
  <1>1. m \in Scans /\ f \in Files /\ c \in Chunks /\ c \in 0 .. MaxChunk /\ c # 0
    <2>1. m \in Scans /\ f \in Files /\ c \in 0 .. MaxChunk
      BY DEF ScansOf, Tags
    <2>2. c # 0
      BY <2>1
    <2>. QED
      BY <2>1, <2>2, ChunksAre
  <1>2. CASE c > m.limit[f]
    BY <1>2 DEF MeetData
  <1>3. CASE ~(c > m.limit[f])
    <2>. DEFINE x == IF m.objs[f].chunk[c] = NoRef THEN r ELSE m.objs[f].chunk[c]
                z == IF f \in m.valid THEN m.objs[f].size ELSE MostOf(m.objs[f].size, c)
                o == [m.objs[f] EXCEPT !.chunk = [@ EXCEPT ![c] = x], !.size = z]
    <2>1. /\ m.objs \in [Files -> Objects] /\ m.met \in SUBSET Files /\ m.valid \in SUBSET Files
          /\ m.limit \in [Files -> 0 .. MaxChunk] /\ m.marked \in SUBSET Blocks
      BY <1>1 DEF Scans
    <2>2. m.objs[f] \in Objects /\ m.objs[f].size \in 0 .. MaxChunk
          /\ m.objs[f].chunk \in [Chunks -> Refs]
      BY <1>1, <2>1 DEF Objects
    <2>3. z \in 0 .. MaxChunk /\ z >= m.objs[f].size /\ (f \notin m.valid => z >= c)
      <3>1. CASE f \in m.valid
        BY <2>2, <3>1
      <3>2. CASE f \notin m.valid
        <4>1. z = MostOf(m.objs[f].size, c)
          BY <3>2
        <4>. HIDE DEF z
        <4>. QED
          BY <1>1, <2>2, <3>2, <4>1, LeastMost
      <3>. QED
        BY <3>1, <3>2
    <2>4. x \in Refs /\ r # NoRef
      BY <1>1, <2>2 DEF Refs, Pages, NoRef, Blocks
    <2>5. n = [m EXCEPT !.objs = [@ EXCEPT ![f] = o]]
      BY <1>1, <1>3, <2>1, <2>2, ZenonT(60) DEF MeetData, Scans, Objects
    <2>. HIDE DEF n, x, z
    <2>6. o \in Objects /\ o.hdr = m.objs[f].hdr /\ o.size = z
          /\ o.chunk[c] = x /\ \A d \in Chunks : d # c => o.chunk[d] = m.objs[f].chunk[d]
      BY <1>1, <2>2, <2>3, <2>4 DEF Objects
    <2>. HIDE DEF o
    <2>7. /\ n \in Scans /\ n.valid = m.valid /\ n.limit = m.limit
          /\ n.objs[f] = o /\ \A g \in Files : g # f => n.objs[g] = m.objs[g]
      BY <1>1, <2>1, <2>5, <2>6 DEF Scans
    <2>8. Pointed(fl, n.objs)
      <3>. SUFFICES ASSUME NEW g \in Files, NEW d \in 0 .. MaxChunk, Ptr(n.objs, g, d) # NoRef
                    PROVE  Holds(fl, Ptr(n.objs, g, d), g, d)
        BY DEF Pointed
      <3>1. CASE g = f /\ d = c
        <4>1. Ptr(n.objs, g, d) = x
          BY <1>1, <2>6, <2>7, <3>1 DEF Ptr
        <4>2. CASE m.objs[f].chunk[c] = NoRef
          BY <3>1, <4>1, <4>2 DEF x
        <4>3. CASE m.objs[f].chunk[c] # NoRef
          <5>1. x = Ptr(m.objs, f, c)
            BY <1>1, <4>3 DEF x, Ptr
          <5>. QED
            BY <1>1, <3>1, <4>1, <5>1 DEF ScansOf, Pointed
        <4>. QED
          BY <4>2, <4>3
      <3>2. CASE ~(g = f /\ d = c)
        <4>1. Ptr(n.objs, g, d) = Ptr(m.objs, g, d)
          BY <1>1, <2>6, <2>7, <3>2, ChunksAre DEF Ptr
        <4>. QED
          BY <4>1 DEF ScansOf, Pointed
      <3>. QED
        BY <3>1, <3>2
    <2>9. ChunksInside(n.objs)
      <3>. SUFFICES ASSUME NEW g \in Files, NEW d \in Chunks, n.objs[g].chunk[d] # NoRef
                    PROVE  d <= n.objs[g].size
        BY DEF ChunksInside
      <3>1. CASE g # f
        BY <2>7, <3>1 DEF ScansOf, ChunksInside
      <3>2. CASE g = f /\ d # c
        <4>1. m.objs[f].chunk[d] # NoRef /\ n.objs[f].size = z
          BY <2>6, <2>7, <3>2
        <4>2. d <= m.objs[f].size
          BY <1>1, <4>1 DEF ScansOf, ChunksInside
        <4>3. d \in Int
          BY DEF Chunks
        <4>. QED
          BY <2>2, <2>3, <3>2, <4>1, <4>2, <4>3
      <3>3. CASE g = f /\ d = c
        <4>1. n.objs[f].size = z
          BY <2>6, <2>7
        <4>2. CASE f \in m.valid
          <5>1. m.limit[f] <= m.objs[f].size /\ m.limit[f] \in 0 .. MaxChunk
            BY <2>1, <4>2 DEF ScansOf
          <5>. QED
            BY <1>1, <1>3, <2>2, <2>3, <3>3, <4>1, <5>1
        <4>3. CASE f \notin m.valid
          BY <2>3, <3>3, <4>1, <4>3
        <4>. QED
          BY <4>2, <4>3
      <3>. QED
        BY <3>1, <3>2, <3>3
    <2>10. ASSUME NEW g \in n.valid PROVE n.limit[g] <= n.objs[g].size
      <3>1. g \in m.valid /\ n.limit[g] = m.limit[g] /\ m.limit[g] <= m.objs[g].size
            /\ g \in Files
        BY <2>1, <2>7 DEF ScansOf
      <3>2. CASE g = f
        <4>1. m.limit[f] \in 0 .. MaxChunk
          BY <1>1, <2>1
        <4>. QED
          BY <2>2, <2>3, <2>6, <2>7, <3>1, <3>2, <4>1
      <3>3. CASE g # f
        BY <2>7, <3>1, <3>3
      <3>. QED
        BY <3>2, <3>3
    <2>. QED
      BY <2>7, <2>8, <2>9, <2>10 DEF ScansOf, n
  <1>. QED
    BY <1>2, <1>3

\* yaffs2_scan_backwards at an older header.
LEMMA MeetOldHdrOK ==
  ASSUME NEW fl, NEW m \in ScansOf(fl), NEW r \in Pages, NEW t \in Tags
  PROVE  MeetOldHdr(m, r, t) \in ScansOf(fl)
  <1>. DEFINE n == MeetOldHdr(m, r, t)
              f == t.obj
              l == LeastOf(m.limit[f], IF Dead(t) THEN 0 ELSE t.size)
  <1>1. m \in Scans /\ f \in Files /\ t.size \in 0 .. MaxChunk /\ r[1] \in Blocks
    BY DEF ScansOf, Tags, Pages
  <1>2. /\ m.objs \in [Files -> Objects] /\ m.met \in SUBSET Files /\ m.valid \in SUBSET Files
        /\ m.limit \in [Files -> 0 .. MaxChunk] /\ m.marked \in SUBSET Blocks
    BY <1>1 DEF Scans
  <1>3. CASE ~t.shrink /\ ~Dead(t)
    BY <1>3 DEF MeetOldHdr
  <1>4. CASE ~(~t.shrink /\ ~Dead(t))
    <2>1. l \in 0 .. MaxChunk /\ l <= m.limit[f] /\ m.limit[f] \in 0 .. MaxChunk
      <3>1. (IF Dead(t) THEN 0 ELSE t.size) \in 0 .. MaxChunk
        BY <1>1, ChunksAre
      <3>. QED
        BY <1>1, <1>2, <3>1, LeastMost
    <2>2. n = [m EXCEPT !.limit = [@ EXCEPT ![f] = l], !.marked = @ \cup {r[1]}]
      BY <1>1, <1>2, <1>4 DEF MeetOldHdr, Scans
    <2>. HIDE DEF n, l
    <2>3. /\ n \in Scans /\ n.objs = m.objs /\ n.valid = m.valid
          /\ n.limit[f] = l /\ \A g \in Files : g # f => n.limit[g] = m.limit[g]
      BY <1>1, <1>2, <2>1, <2>2 DEF Scans
    <2>4. ASSUME NEW g \in n.valid PROVE n.limit[g] <= n.objs[g].size
      <3>1. g \in Files /\ m.limit[g] <= m.objs[g].size /\ m.objs[g] \in Objects
        BY <1>2, <2>3 DEF ScansOf
      <3>2. m.objs[g].size \in 0 .. MaxChunk
        BY <3>1 DEF Objects
      <3>. QED
        BY <2>1, <2>3, <3>1, <3>2
    <2>. QED
      BY <2>3, <2>4 DEF ScansOf, n
  <1>. QED
    BY <1>3, <1>4

\* yaffs2_scan_backwards at the newest header of a file.
LEMMA MeetHdrOK ==
  ASSUME NEW fl, NEW m \in ScansOf(fl), NEW r \in Pages, NEW t \in Tags, t.chunk = 0,
         Holds(fl, r, t.obj, 0)
  PROVE  MeetHdr(m, r, t) \in ScansOf(fl)
  <1>. DEFINE f == t.obj
              l == LeastOf(m.limit[f], t.size)
              z == MostOf(m.objs[f].size, t.size)
              o == [m.objs[f] EXCEPT !.hdr = r, !.dir = t.dir, !.name = t.name, !.size = z]
              m1 == [m EXCEPT !.valid = @ \cup {f}, !.objs[f] = o, !.limit[f] = l,
                              !.marked = IF t.shrink THEN @ \cup {r[1]} ELSE @]
              g == t.shadows
              m2 == [m1 EXCEPT !.met = @ \cup {g}, !.valid = @ \cup {g},
                               !.objs[g].dir = "unlinked", !.limit[g] = 0]
  <1>1. /\ m \in Scans /\ f \in Files /\ t.size \in 0 .. MaxChunk /\ r[1] \in Blocks
        /\ g \in Files \cup {0}
    BY DEF ScansOf, Tags, Pages
  <1>n. t.dir \in TagDirs /\ t.name \in Names \cup {""}
    BY DEF Tags
  <1>2. /\ m.objs \in [Files -> Objects] /\ m.met \in SUBSET Files /\ m.valid \in SUBSET Files
        /\ m.limit \in [Files -> 0 .. MaxChunk] /\ m.marked \in SUBSET Blocks
    BY <1>1 DEF Scans
  <1>3. m.objs[f] \in Objects /\ m.objs[f].size \in 0 .. MaxChunk /\ m.limit[f] \in 0 .. MaxChunk
    BY <1>1, <1>2 DEF Objects
  <1>4. /\ l \in 0 .. MaxChunk /\ l <= m.limit[f] /\ l <= t.size
        /\ z \in 0 .. MaxChunk /\ z >= m.objs[f].size /\ z >= t.size
    BY <1>1, <1>3, LeastMost
  <1>b. l <= z
    <2>. HIDE DEF l, z
    <2>1. l \in Int /\ z \in Int /\ t.size \in Int
      BY <1>1, <1>4
    <2>. QED
      BY <1>4, <2>1
  <1>5. MeetHdr(m, r, t) = IF g = 0 \/ g \in m.met THEN m1 ELSE m2
    <2>1. m1.met = m.met
      BY <1>1 DEF Scans
    <2>2. MeetHdr(m, r, t) = IF g = 0 \/ g \in m1.met THEN m1 ELSE m2
      BY DEF MeetHdr
    <2>. QED
      BY <2>1, <2>2
  <1>. HIDE DEF l, z
  <1>6. /\ o \in Objects /\ o.hdr = r /\ o.chunk = m.objs[f].chunk /\ o.size = z
    <2>1. r \in Refs
      BY DEF Refs
    <2>. QED
      BY <1>1, <1>3, <1>4, <1>n, <2>1 DEF Objects
  <1>. HIDE DEF o
  <1>7. /\ m1 \in Scans /\ m1.valid = m.valid \cup {f}
        /\ m1.objs[f] = o /\ \A h \in Files : h # f => m1.objs[h] = m.objs[h]
        /\ m1.limit[f] = l /\ \A h \in Files : h # f => m1.limit[h] = m.limit[h]
    <2>1. (IF t.shrink THEN m.marked \cup {r[1]} ELSE m.marked) \in SUBSET Blocks
      BY <1>1, <1>2
    <2>. QED
      BY <1>1, <1>2, <1>4, <1>6, <2>1 DEF Scans
  <1>. HIDE DEF m1, m2
  <1>8. m1 \in ScansOf(fl)
    <2>1. ASSUME NEW h \in Files, NEW d \in 0 .. MaxChunk, Ptr(m1.objs, h, d) # NoRef
          PROVE  Holds(fl, Ptr(m1.objs, h, d), h, d)
      <3>1. CASE h = f /\ d = 0
        BY <1>6, <1>7, <3>1 DEF Ptr
      <3>2. CASE ~(h = f /\ d = 0)
        <4>1. Ptr(m1.objs, h, d) = Ptr(m.objs, h, d)
          BY <1>6, <1>7, <3>2, ChunksAre DEF Ptr
        <4>. QED
          BY <2>1, <4>1 DEF ScansOf, Pointed
      <3>. QED
        BY <3>1, <3>2
    <2>2. ASSUME NEW h \in Files, NEW d \in Chunks, m1.objs[h].chunk[d] # NoRef
          PROVE  d <= m1.objs[h].size
      <3>0. d \in Int
        BY DEF Chunks
      <3>1. m.objs[h].chunk[d] # NoRef
        BY <1>6, <1>7, <2>2
      <3>2. d <= m.objs[h].size
        BY <3>1 DEF ScansOf, ChunksInside
      <3>. QED
        BY <1>3, <1>4, <1>6, <1>7, <3>0, <3>2
    <2>3. ASSUME NEW h \in m1.valid PROVE m1.limit[h] <= m1.objs[h].size
      <3>1. CASE h = f
        BY <1>6, <1>7, <1>b, <3>1
      <3>2. CASE h # f
        <4>1. h \in m.valid /\ h \in Files
          BY <1>2, <1>7, <3>2
        <4>. QED
          BY <1>7, <3>2, <4>1 DEF ScansOf
      <3>. QED
        BY <3>1, <3>2
    <2>. QED
      BY <1>7, <2>1, <2>2, <2>3 DEF ScansOf, Pointed, ChunksInside
  <1>9. ASSUME g # 0 PROVE m2 \in ScansOf(fl)
    <2>1. g \in Files
      BY <1>1, <1>9
    <2>2. /\ m1.objs \in [Files -> Objects] /\ m1.met \in SUBSET Files
          /\ m1.valid \in SUBSET Files
          /\ m1.limit \in [Files -> 0 .. MaxChunk] /\ m1.marked \in SUBSET Blocks
      BY <1>7 DEF Scans
    <2>. DEFINE q == [m1.objs[g] EXCEPT !.dir = "unlinked"]
    <2>3. /\ q \in Objects /\ q.hdr = m1.objs[g].hdr /\ q.chunk = m1.objs[g].chunk
          /\ q.size = m1.objs[g].size
      BY <2>1, <2>2, ZenonT(60) DEF Objects, TagDirs
    <2>4. m2 = [m1 EXCEPT !.met = @ \cup {g}, !.valid = @ \cup {g},
                          !.objs = [@ EXCEPT ![g] = q], !.limit = [@ EXCEPT ![g] = 0]]
      BY <1>7, <2>1, <2>2 DEF Scans, m2
    <2>. HIDE DEF q
    <2>5. /\ m2 \in Scans /\ m2.valid = m1.valid \cup {g}
          /\ m2.objs[g] = q /\ \A h \in Files : h # g => m2.objs[h] = m1.objs[h]
          /\ m2.limit[g] = 0 /\ \A h \in Files : h # g => m2.limit[h] = m1.limit[h]
      BY <1>7, <2>1, <2>2, <2>3, <2>4, ChunksAre DEF Scans
    <2>6. \A h \in Files : /\ m2.objs[h].hdr = m1.objs[h].hdr
                           /\ m2.objs[h].chunk = m1.objs[h].chunk
                           /\ m2.objs[h].size = m1.objs[h].size
      BY <2>3, <2>5
    <2>7. Pointed(fl, m2.objs)
      <3>1. \A h \in Files : \A d \in 0 .. MaxChunk : Ptr(m2.objs, h, d) = Ptr(m1.objs, h, d)
        BY <2>6 DEF Ptr
      <3>. QED
        BY <1>8, <3>1, SameRefs DEF ScansOf
    <2>8. ChunksInside(m2.objs)
      BY <1>8, <2>6 DEF ScansOf, ChunksInside
    <2>9. ASSUME NEW h \in m2.valid PROVE m2.limit[h] <= m2.objs[h].size
      <3>1. h \in Files /\ m2.objs[h].size = m1.objs[h].size /\ m1.objs[h].size \in 0 .. MaxChunk
        BY <2>1, <2>2, <2>5, <2>6 DEF Objects
      <3>2. CASE h = g
        BY <2>5, <3>1, <3>2, ChunksAre
      <3>3. CASE h # g
        BY <1>8, <2>5, <3>1, <3>3 DEF ScansOf
      <3>. QED
        BY <3>2, <3>3
    <2>. QED
      BY <2>5, <2>7, <2>8, <2>9 DEF ScansOf
  <1>. QED
    BY <1>5, <1>8, <1>9

\* One chunk of a block is read.
LEMMA ScanChunkOK ==
  ASSUME NEW fl, FlashOK(fl), NEW m \in ScansOf(fl), NEW b \in Blocks, NEW p \in 1 .. Len(fl[b])
  PROVE  ScanChunk(m, <<b, p>>, fl[b][p]) \in ScansOf(fl)
  <1>. DEFINE r == <<b, p>>
              t == fl[b][p]
              n == [m EXCEPT !.met = @ \cup {t.obj}]
  <1>1. fl[b] \in Seq(Tags) /\ Len(fl[b]) <= Cpb /\ Len(fl[b]) \in Nat
    BY DEF FlashOK
  <1>2. t \in Tags /\ p \in 1 .. Cpb
    <2>1. t \in Tags
      BY <1>1
    <2>2. p \in 1 .. Cpb
      BY <1>1, YaffsAssumption
    <2>. QED
      BY <2>1, <2>2
  <1>3. r \in Pages /\ r[1] = b /\ r[2] = p
    BY <1>2 DEF Pages
  <1>4. t.obj \in Files /\ t.chunk \in 0 .. MaxChunk
    BY <1>2 DEF Tags
  <1>5. Holds(fl, r, t.obj, t.chunk)
    BY <1>3 DEF Holds
  <1>6. n \in ScansOf(fl)
    <2>1. /\ n \in Scans /\ n.objs = m.objs /\ n.valid = m.valid /\ n.limit = m.limit
      BY <1>4 DEF ScansOf, Scans
    <2>. QED
      BY <2>1 DEF ScansOf
  <1>7. ScanChunk(m, r, t) = IF t.chunk > 0 THEN MeetData(n, r, t)
                             ELSE IF t.obj \in n.valid THEN MeetOldHdr(n, r, t)
                             ELSE MeetHdr(n, r, t)
    BY DEF ScanChunk
  <1>. HIDE DEF n, r, t
  <1>8. CASE t.chunk > 0
    <2>1. MeetData(n, r, t) \in ScansOf(fl)
      BY <1>2, <1>3, <1>5, <1>6, <1>8, MeetDataOK
    <2>. QED
      BY <1>7, <1>8, <2>1 DEF r, t
  <1>9. CASE ~(t.chunk > 0)
    <2>1. t.chunk = 0 /\ Holds(fl, r, t.obj, 0)
      BY <1>4, <1>5, <1>9
    <2>2. MeetOldHdr(n, r, t) \in ScansOf(fl)
      BY <1>2, <1>3, <1>6, MeetOldHdrOK
    <2>3. MeetHdr(n, r, t) \in ScansOf(fl)
      BY <1>2, <1>3, <1>6, <2>1, MeetHdrOK
    <2>. QED
      BY <1>7, <1>9, <2>2, <2>3 DEF r, t
  <1>. QED
    BY <1>8, <1>9

\* g goes down from n + 1, where it has b, by the steps st.
Descends(g, n, b, st) == g = [p \in 1 .. n + 1 |-> IF p > n THEN b ELSE st[p][g[p + 1]]]

\* A recursion from n + 1 down to 1 whose steps stay in M has a solution in M.
LEMMA DownExists ==
  ASSUME NEW n \in Nat, NEW M, NEW b \in M, NEW st \in [1 .. n -> [M -> M]]
  PROVE  \E g \in [1 .. n + 1 -> M] :
           Descends(g, n, b, st)
  <1>. DEFINE Eq(g, k) == /\ g[n + 1] = b
                          /\ \A p \in n + 1 - k .. n : g[p] = st[p][g[p + 1]]
              T == {k \in 0 .. n : \E g \in [1 .. n + 1 -> M] : Eq(g, k)}
  <1>1. 0 \in T
    <2>. DEFINE g == [p \in 1 .. n + 1 |-> b]
    <2>1. g \in [1 .. n + 1 -> M] /\ Eq(g, 0)
      OBVIOUS
    <2>. QED
      BY <2>1
  <1>2. ASSUME NEW k \in 0 .. n - 1, k \in T PROVE k + 1 \in T
    <2>1. PICK g \in [1 .. n + 1 -> M] : Eq(g, k)
      BY <1>2
    <2>. DEFINE q == n - k
                x == st[q][g[q + 1]]
                h == [g EXCEPT ![q] = x]
    <2>2. q \in 1 .. n /\ q + 1 \in 1 .. n + 1 /\ q # n + 1 /\ q \in 1 .. n + 1
          /\ n + 1 \in 1 .. n + 1 /\ n + 1 - (k + 1) = q /\ n + 1 - k = q + 1
      OBVIOUS
    <2>. HIDE DEF q
    <2>3. x \in M
      BY <2>2
    <2>. HIDE DEF x
    <2>4. h \in [1 .. n + 1 -> M] /\ h[q] = x /\ \A p \in 1 .. n + 1 : p # q => h[p] = g[p]
      BY <2>2, <2>3
    <2>. HIDE DEF h
    <2>5. h[n + 1] = b /\ h[q + 1] = g[q + 1]
      <3>1. q + 1 # q
        BY <2>2
      <3>. QED
        BY <2>1, <2>2, <2>4, <3>1
    <2>6. ASSUME NEW p \in q .. n PROVE h[p] = st[p][h[p + 1]]
      <3>1. CASE p = q
        BY <2>4, <2>5, <3>1 DEF x
      <3>2. CASE p # q
        <4>1. p \in q + 1 .. n /\ p + 1 # q /\ p + 1 \in 1 .. n + 1 /\ p \in 1 .. n + 1
          BY <2>2, <3>2
        <4>2. g[p] = st[p][g[p + 1]]
          BY <2>1, <2>2, <4>1
        <4>. QED
          BY <2>4, <3>2, <4>1, <4>2
      <3>. QED
        BY <3>1, <3>2
    <2>7. Eq(h, k + 1)
      BY <2>2, <2>5, <2>6
    <2>. HIDE DEF Eq
    <2>. QED
      BY <2>4, <2>7
  <1>3. n \in T
    <2>. HIDE DEF T
    <2>1. 0 .. n \subseteq T
      BY <1>1, <1>2, NatSetInduction
    <2>. QED
      BY <2>1
  <1>4. PICK g \in [1 .. n + 1 -> M] : Eq(g, n)
    BY <1>3
  <1>5. ASSUME NEW p \in 1 .. n + 1
        PROVE  g[p] = IF p > n THEN b ELSE st[p][g[p + 1]]
    <2>1. CASE p > n
      <3>1. p = n + 1
        BY <2>1
      <3>. QED
        BY <1>4, <2>1, <3>1
    <2>2. CASE ~(p > n)
      <3>1. p \in n + 1 - n .. n
        BY <2>2
      <3>. QED
        BY <1>4, <2>2, <3>1
    <2>. QED
      BY <2>1, <2>2
  <1>6. g = [p \in 1 .. n + 1 |-> IF p > n THEN b ELSE st[p][g[p + 1]]]
    BY <1>5
  <1>. QED
    BY <1>6 DEF Descends

\* What the recursion reaches from b stays in M.
LEMMA DownIn ==
  ASSUME NEW n \in Nat, NEW M, NEW b \in M, NEW g, NEW st \in [1 .. n -> [M -> M]],
         g[n + 1] = b, \A p \in 1 .. n : g[p + 1] \in M => g[p] = st[p][g[p + 1]]
  PROVE  g[1] \in M
  <1>. DEFINE T == {k \in 0 .. n : g[n + 1 - k] \in M}
  <1>1. 0 \in T
    <2>1. n + 1 - 0 = n + 1
      OBVIOUS
    <2>. QED
      BY <2>1
  <1>2. ASSUME NEW k \in 0 .. n - 1, k \in T PROVE k + 1 \in T
    <2>1. n - k \in 1 .. n /\ (n - k) + 1 = n + 1 - k /\ n + 1 - (k + 1) = n - k
      OBVIOUS
    <2>2. g[(n - k) + 1] \in M
      BY <1>2, <2>1
    <2>3. g[n - k] = st[n - k][g[(n - k) + 1]]
      BY <2>1, <2>2
    <2>4. g[n - k] \in M
      <3>. DEFINE q == n - k
                  y == g[q + 1]
      <3>1. q \in 1 .. n /\ y \in M /\ g[q] = st[q][y]
        BY <2>1, <2>2, <2>3
      <3>. HIDE DEF q, y
      <3>2. g[q] \in M
        BY <3>1
      <3>. QED
        BY <3>2 DEF q
    <2>. QED
      BY <2>1, <2>4
  <1>3. 0 .. n \subseteq T
    <2>. HIDE DEF T
    <2>. QED
      BY <1>1, <1>2, NatSetInduction
  <1>4. n \in T
    <2>. HIDE DEF T
    <2>. QED
      BY <1>3
  <1>5. n + 1 - n = 1
    OBVIOUS
  <1>. QED
    BY <1>4, <1>5

\* The chunks of a block are read, the newest first.
LEMMA ScanBlockOK ==
  ASSUME NEW fl, FlashOK(fl), NEW m \in ScansOf(fl), NEW b \in Blocks
  PROVE  ScanBlock(m, b, fl[b]) \in ScansOf(fl)
  <1>. DEFINE M == ScansOf(fl)
              n == Len(fl[b])
              st == [p \in 1 .. n |-> [x \in M |-> ScanChunk(x, <<b, p>>, fl[b][p])]]
              R(g) == [p \in 1 .. n + 1 |->
                         IF p > n THEN m ELSE ScanChunk(g[p + 1], <<b, p>>, fl[b][p])]
  <1>1. n \in Nat
    BY DEF FlashOK
  <1>2. st \in [1 .. n -> [M -> M]]
    <2>1. ASSUME NEW p \in 1 .. n, NEW x \in M PROVE ScanChunk(x, <<b, p>>, fl[b][p]) \in M
      BY ScanChunkOK
    <2>. HIDE DEF M, n
    <2>. QED
      BY <2>1
  <1>3. \A p \in 1 .. n : \A x \in M : st[p][x] = ScanChunk(x, <<b, p>>, fl[b][p])
    OBVIOUS
  <1>. HIDE DEF st, M, n
  <1>b. PICK g \in [1 .. n + 1 -> M] : Descends(g, n, m, st)
    <2>1. m \in M
      BY DEF M
    <2>. QED
      BY <1>1, <1>2, <2>1, DownExists
  <1>4. g = [q \in 1 .. n + 1 |-> IF q > n THEN m ELSE st[q][g[q + 1]]]
    BY <1>b DEF Descends
  <1>5. g = R(g)
    <2>1. ASSUME NEW p \in 1 .. n + 1
          PROVE  g[p] = IF p > n THEN m ELSE ScanChunk(g[p + 1], <<b, p>>, fl[b][p])
      <3>1. CASE p > n
        BY <1>4, <3>1
      <3>2. CASE ~(p > n)
        <4>1. p \in 1 .. n /\ p + 1 \in 1 .. n + 1
          BY <1>1, <3>2
        <4>2. g[p + 1] \in M
          BY <4>1
        <4>3. g[p] = st[p][g[p + 1]]
          BY <1>4, <3>2
        <4>. QED
          BY <1>3, <3>2, <4>1, <4>2, <4>3
      <3>. QED
        BY <3>1, <3>2
    <2>. QED
      BY <2>1
  <1>. DEFINE h == CHOOSE g_1 : g_1 = R(g_1)
  <1>6. h = R(h)
    BY <1>5
  <1>7. ScanBlock(m, b, fl[b]) = h[1]
    BY DEF ScanBlock, n
  <1>. HIDE DEF h
  <1>8. h[n + 1] = m
    BY <1>1, <1>6
  <1>9. ASSUME NEW p \in 1 .. n, h[p + 1] \in M PROVE h[p] = st[p][h[p + 1]]
    <2>1. p \in 1 .. n + 1 /\ ~(p > n)
      BY <1>1
    <2>2. h[p] = ScanChunk(h[p + 1], <<b, p>>, fl[b][p])
      BY <1>6, <2>1
    <2>. QED
      BY <1>3, <1>9, <2>2
  <1>10. h[1] \in M
    <2>1. m \in M
      BY DEF M
    <2>. HIDE DEF R
    <2>. QED
      BY <1>1, <1>2, <1>8, <1>9, <2>1, DownIn
  <1>. QED
    BY <1>7, <1>10 DEF M

\* A mount finds objects and pages within the flash.
LEMMA ScanFinds ==
  ASSUME NEW fl, FlashOK(fl), NEW ord \in Seq(Blocks)
  PROVE  Scan(fl, ord) \in ScansOf(fl)
  <1>. DEFINE M == ScansOf(fl)
              n == Len(ord)
              st == [i \in 1 .. n |-> [x \in M |-> ScanBlock(x, ord[i], fl[ord[i]])]]
              R(g) == [i \in 1 .. n + 1 |->
                         IF i > n THEN BlankScan ELSE ScanBlock(g[i + 1], ord[i], fl[ord[i]])]
  <1>1. n \in Nat /\ \A i \in 1 .. n : ord[i] \in Blocks
    OBVIOUS
  <1>2. st \in [1 .. n -> [M -> M]]
    <2>1. ASSUME NEW i \in 1 .. n, NEW x \in M PROVE ScanBlock(x, ord[i], fl[ord[i]]) \in M
      BY <1>1, ScanBlockOK
    <2>. HIDE DEF M, n
    <2>. QED
      BY <2>1
  <1>3. \A i \in 1 .. n : \A x \in M : st[i][x] = ScanBlock(x, ord[i], fl[ord[i]])
    OBVIOUS
  <1>a. BlankScan \in M
    BY BlankScanOK
  <1>. HIDE DEF st, M, n
  <1>b. PICK g \in [1 .. n + 1 -> M] : Descends(g, n, BlankScan, st)
    BY <1>1, <1>2, <1>a, DownExists
  <1>4. g = [q \in 1 .. n + 1 |-> IF q > n THEN BlankScan ELSE st[q][g[q + 1]]]
    BY <1>b DEF Descends
  <1>5. g = R(g)
    <2>1. ASSUME NEW i \in 1 .. n + 1
          PROVE  g[i] = IF i > n THEN BlankScan ELSE ScanBlock(g[i + 1], ord[i], fl[ord[i]])
      <3>1. CASE i > n
        BY <1>4, <3>1
      <3>2. CASE ~(i > n)
        <4>1. i \in 1 .. n /\ i + 1 \in 1 .. n + 1
          BY <1>1, <3>2
        <4>2. g[i + 1] \in M
          BY <4>1
        <4>3. g[i] = st[i][g[i + 1]]
          BY <1>4, <3>2
        <4>. QED
          BY <1>3, <3>2, <4>1, <4>2, <4>3
      <3>. QED
        BY <3>1, <3>2
    <2>. QED
      BY <2>1
  <1>. DEFINE h == CHOOSE g_1 : g_1 = R(g_1)
  <1>6. h = R(h)
    BY <1>5
  <1>7. Scan(fl, ord) = h[1]
    BY DEF Scan, n
  <1>. HIDE DEF h
  <1>8. h[n + 1] = BlankScan
    BY <1>1, <1>6
  <1>9. ASSUME NEW i \in 1 .. n, h[i + 1] \in M PROVE h[i] = st[i][h[i + 1]]
    <2>1. i \in 1 .. n + 1 /\ ~(i > n)
      BY <1>1
    <2>2. h[i] = ScanBlock(h[i + 1], ord[i], fl[ord[i]])
      BY <1>6, <2>1
    <2>. QED
      BY <1>3, <1>9, <2>2
  <1>10. h[1] \in M
    <2>. HIDE DEF R
    <2>. QED
      BY <1>1, <1>2, <1>8, <1>9, <1>a, DownIn, ZenonT(60)
  <1>. QED
    BY <1>7, <1>10 DEF M

----------------------------------------------------------------------------
(* Blocks *)

\* There are blocks, and block 0 stands for none.
LEMMA BlocksAre == NBlocks \in Nat /\ Cpb \in Nat \ {0} /\ 0 .. NBlocks = {0} \cup Blocks /\ 0 \notin Blocks
  BY YaffsAssumption DEF Blocks

Filled(d) == {b \in Blocks : d.state[b] \in {"FULL", "COLLECTING"}}

StatesOK(d, ord, fl) ==
  /\ \A b \in Blocks : d.state[b] = "EMPTY" <=> b \notin InUse(ord)
  /\ \A b \in Blocks : d.state[b] = "EMPTY" => fl[b] = <<>>
  /\ \A b \in Blocks : d.state[b] = "ALLOCATING" <=> b = d.alloc
  /\ \A b \in Blocks : d.state[b] = "DIRTY" => UsedIn(d, b) = {}
MarksOK(d) ==
  /\ \A b \in Blocks : d.state[b] = "COLLECTING" => b = d.gcBlock
  /\ d.gcBlock # 0 => d.dirtiest = 0 /\ d.gcBlock \in Filled(d)
  /\ d.dirtiest # 0 => d.state[d.dirtiest] = "FULL"
  /\ d.oldest # 0 => d.oldest \in Filled(d)
AllocOK(d, ord, fl) ==
  d.alloc # 0 => /\ Len(fl[d.alloc]) < Cpb
                 /\ \A b \in InUse(ord) \ {d.alloc} : Before(ord, b, d.alloc)
OldestOK(d, ord) ==
  d.oldest # 0 => \A b \in Filled(d) :
    Cardinality(UsedIn(d, b)) < Cpb => ~Before(ord, b, d.oldest)
Blk(d, ord, fl) ==
  StatesOK(d, ord, fl) /\ MarksOK(d) /\ AllocOK(d, ord, fl) /\ OldestOK(d, ord)

\* The invariant of blocks looks at these fields.
SameBlocks(d, e) ==
  /\ e.used = d.used /\ e.state = d.state /\ e.alloc = d.alloc /\ e.gcBlock = d.gcBlock
  /\ e.dirtiest = d.dirtiest /\ e.oldest = d.oldest

\* The invariant of blocks depends on the fields of SameBlocks.
LEMMA BlkSame ==
  ASSUME NEW d, NEW e, SameBlocks(d, e), NEW ord, NEW fl, Blk(d, ord, fl)
  PROVE  Blk(e, ord, fl)
  <1>1. Filled(e) = Filled(d) /\ \A b : UsedIn(e, b) = UsedIn(d, b)
    BY DEF SameBlocks, Filled, UsedIn
  <1>2. StatesOK(e, ord, fl)
    BY <1>1 DEF Blk, StatesOK, SameBlocks
  <1>3. MarksOK(e)
    BY <1>1 DEF Blk, MarksOK, SameBlocks
  <1>4. AllocOK(e, ord, fl)
    BY DEF Blk, AllocOK, SameBlocks
  <1>5. OldestOK(e, ord)
    BY <1>1 DEF Blk, OldestOK, SameBlocks
  <1>. QED
    BY <1>2, <1>3, <1>4, <1>5 DEF Blk

\* The fields of a device with other blocks.
LEMMA DevFields ==
  ASSUME NEW d \in Devs
  PROVE  /\ d.objs \in [Files -> Objects] /\ d.used \subseteq Pages
         /\ d.shrink \in [Blocks -> BOOLEAN] /\ d.state \in [Blocks -> BlockStates]
         /\ d.alloc \in 0 .. NBlocks /\ d.gcBlock \in 0 .. NBlocks /\ d.gcChunk \in Nat
         /\ d.dirtiest \in 0 .. NBlocks /\ d.oldest \in 0 .. NBlocks
         /\ d.cache \subseteq Cachings
  BY DEF Devs

\* The fields of a device one block of which becomes dirty.
LEMMA BecameDirtyIs ==
  ASSUME NEW d \in Devs, NEW b \in Blocks
  PROVE  LET e == BecameDirty(d, b) IN
         /\ e \in Devs
         /\ e.objs = d.objs /\ e.used = d.used /\ e.cache = d.cache /\ e.alloc = d.alloc
         /\ e.state = [d.state EXCEPT ![b] = "DIRTY"]
         /\ e.oldest = (IF d.oldest = b THEN 0 ELSE d.oldest)
         /\ e.gcBlock = (IF d.gcBlock = b THEN 0 ELSE d.gcBlock)
         /\ e.dirtiest = (IF d.dirtiest = b THEN 0 ELSE d.dirtiest)
  <1>1. (IF d.gcBlock = b THEN 0 ELSE d.gcChunk) \in Nat
    BY DevFields
  <1>2. /\ (IF d.oldest = b THEN 0 ELSE d.oldest) \in 0 .. NBlocks
        /\ (IF d.gcBlock = b THEN 0 ELSE d.gcBlock) \in 0 .. NBlocks
        /\ (IF d.dirtiest = b THEN 0 ELSE d.dirtiest) \in 0 .. NBlocks
    BY DevFields, BlocksAre
  <1>3. [d.state EXCEPT ![b] = "DIRTY"] \in [Blocks -> BlockStates]
    BY DevFields DEF BlockStates
  <1>. QED
    BY <1>1, <1>2, <1>3 DEF Devs, BecameDirty

\* A block without live chunks becomes dirty (yaffs_block_became_dirty).
LEMMA BecameDirtyOK ==
  ASSUME NEW d \in Devs, NEW ord, NEW fl, Blk(d, ord, fl), NEW b \in Filled(d), UsedIn(d, b) = {}
  PROVE  Blk(BecameDirty(d, b), ord, fl)
  <1>. DEFINE e == BecameDirty(d, b)
  <1>1. b \in Blocks /\ d.state[b] \in {"FULL", "COLLECTING"}
    BY DEF Filled
  <1>2. /\ e \in Devs
        /\ e.objs = d.objs /\ e.used = d.used /\ e.cache = d.cache /\ e.alloc = d.alloc
        /\ e.state = [d.state EXCEPT ![b] = "DIRTY"]
        /\ e.oldest = (IF d.oldest = b THEN 0 ELSE d.oldest)
        /\ e.gcBlock = (IF d.gcBlock = b THEN 0 ELSE d.gcBlock)
        /\ e.dirtiest = (IF d.dirtiest = b THEN 0 ELSE d.dirtiest)
    BY <1>1, BecameDirtyIs
  <1>. HIDE DEF e
  <1>3. e.state[b] = "DIRTY" /\ \A x \in Blocks : x # b => e.state[x] = d.state[x]
    BY <1>1, <1>2, DevFields
  <1>4. Filled(e) = Filled(d) \ {b} /\ \A x : UsedIn(e, x) = UsedIn(d, x)
    BY <1>2, <1>3 DEF Filled, UsedIn
  <1>5. StatesOK(e, ord, fl)
    BY <1>1, <1>2, <1>3, <1>4 DEF Blk, StatesOK
  <1>6. MarksOK(e)
    <2>1. \A x \in Blocks : e.state[x] = "COLLECTING" => x = e.gcBlock
      BY <1>1, <1>2, <1>3 DEF Blk, MarksOK
    <2>2. e.gcBlock # 0 => e.dirtiest = 0 /\ e.gcBlock \in Filled(e)
      BY <1>1, <1>2, <1>4 DEF Blk, MarksOK
    <2>3. e.dirtiest # 0 => e.state[e.dirtiest] = "FULL"
      <3>1. e.dirtiest # 0 => e.dirtiest \in Blocks /\ e.dirtiest # b /\ e.dirtiest = d.dirtiest
        BY <1>1, <1>2, DevFields, BlocksAre
      <3>. QED
        BY <1>3, <3>1 DEF Blk, MarksOK
    <2>4. e.oldest # 0 => e.oldest \in Filled(e)
      BY <1>1, <1>2, <1>4 DEF Blk, MarksOK
    <2>. QED
      BY <2>1, <2>2, <2>3, <2>4 DEF MarksOK
  <1>7. AllocOK(e, ord, fl)
    BY <1>2 DEF Blk, AllocOK
  <1>8. OldestOK(e, ord)
    BY <1>1, <1>2, <1>4, BlocksAre DEF Blk, OldestOK
  <1>. QED
    BY <1>5, <1>6, <1>7, <1>8 DEF Blk, e

\* A chunk of block b is forgotten.
Forgot(d, r) ==
  [d EXCEPT !.used = @ \ {r}, !.oldest = IF @ # 0 /\ Older(r[1], @) THEN r[1] ELSE @]

\* The three ways of yaffs_chunk_del.
LEMMA ChunkDelIs ==
  ASSUME NEW d, NEW r
  PROVE  \/ r = NoRef /\ ChunkDel(d, r) = d
         \/ r # NoRef /\ ChunkDel(d, r) = Forgot(d, r)
         \/ /\ r # NoRef /\ ChunkDel(d, r) = BecameDirty(Forgot(d, r), r[1])
            /\ UsedIn(Forgot(d, r), r[1]) = {} /\ Forgot(d, r).state[r[1]] # "ALLOCATING"
  BY Zenon DEF ChunkDel, Forgot

\* The fields of a device that forgot a page.
LEMMA ForgotIs ==
  ASSUME NEW d \in Devs, NEW r \in Pages
  PROVE  /\ Forgot(d, r) \in Devs
         /\ Forgot(d, r).used = d.used \ {r}
         /\ Forgot(d, r).oldest = (IF d.oldest # 0 /\ Older(r[1], d.oldest) THEN r[1] ELSE d.oldest)
         /\ Forgot(d, r).objs = d.objs /\ Forgot(d, r).cache = d.cache
         /\ Forgot(d, r).alloc = d.alloc /\ Forgot(d, r).state = d.state
         /\ Forgot(d, r).gcBlock = d.gcBlock /\ Forgot(d, r).dirtiest = d.dirtiest
  <1>. DEFINE o == IF d.oldest # 0 /\ Older(r[1], d.oldest) THEN r[1] ELSE d.oldest
  <1>1. r[1] \in 0 .. NBlocks
    BY BlocksAre DEF Pages
  <1>2. o \in 0 .. NBlocks
    BY <1>1, DevFields
  <1>3. Forgot(d, r) = [d EXCEPT !.used = @ \ {r}, !.oldest = o]
    BY DEF Forgot
  <1>4. d.used \ {r} \in SUBSET Pages
    BY DevFields
  <1>. HIDE DEF o
  <1>5. /\ Forgot(d, r) \in Devs
        /\ Forgot(d, r).used = d.used \ {r} /\ Forgot(d, r).oldest = o
        /\ Forgot(d, r).objs = d.objs /\ Forgot(d, r).cache = d.cache
        /\ Forgot(d, r).alloc = d.alloc /\ Forgot(d, r).state = d.state
        /\ Forgot(d, r).gcBlock = d.gcBlock /\ Forgot(d, r).dirtiest = d.dirtiest
    BY <1>2, <1>3, <1>4 DEF Devs
  <1>. QED
    BY <1>5 DEF o

\* A forgotten page may make its block the oldest with discarded pages.
LEMMA ForgotOK ==
  ASSUME NEW d \in Devs, NEW ord \in Seq(Blocks), IsInjective(ord), NEW fl, Blk(d, ord, fl),
         NEW r \in d.used, fl[r[1]] # <<>>,
         d.oldest # 0 => (Older(r[1], d.oldest) <=> Before(ord, r[1], d.oldest))
  PROVE  Blk(Forgot(d, r), ord, fl) /\ d.state[r[1]] \notin {"EMPTY", "DIRTY"}
  <1>. DEFINE e == Forgot(d, r)
              b == r[1]
  <1>1. r \in Pages /\ b \in Blocks /\ b # 0
    BY DevFields, BlocksAre DEF Pages
  <1>2. /\ e \in Devs
        /\ e.used = d.used \ {r}
        /\ e.oldest = (IF d.oldest # 0 /\ Older(b, d.oldest) THEN b ELSE d.oldest)
        /\ e.objs = d.objs /\ e.cache = d.cache
        /\ e.alloc = d.alloc /\ e.state = d.state
        /\ e.gcBlock = d.gcBlock /\ e.dirtiest = d.dirtiest
    BY <1>1, ForgotIs
  <1>. HIDE DEF e
  <1>3. /\ Filled(e) = Filled(d) /\ \A x : x # b => UsedIn(e, x) = UsedIn(d, x)
        /\ \A x : UsedIn(e, x) \subseteq UsedIn(d, x)
    BY <1>2 DEF Filled, UsedIn
  <1>4. r \in UsedIn(d, b)
    BY DEF UsedIn
  <1>. HIDE DEF b
  <1>5. d.state[b] # "DIRTY"
    BY <1>1, <1>4 DEF Blk, StatesOK
  <1>9. d.state[b] # "EMPTY"
    BY <1>1 DEF Blk, StatesOK, b
  <1>6. StatesOK(e, ord, fl)
    BY <1>2, <1>3 DEF Blk, StatesOK
  <1>7. AllocOK(e, ord, fl)
    BY <1>2 DEF Blk, AllocOK
  <1>8. CASE ~(d.oldest # 0 /\ Older(b, d.oldest))
    <2>1. e.oldest = d.oldest
      BY <1>2, <1>8
    <2>2. MarksOK(e)
      BY <1>2, <1>3, <2>1 DEF Blk, MarksOK
    <2>3. ASSUME e.oldest # 0, NEW x \in Filled(e), Cardinality(UsedIn(e, x)) < Cpb
          PROVE  ~Before(ord, x, e.oldest)
      <3>1. CASE x = b
        BY <1>8, <2>1, <2>3, <3>1 DEF b
      <3>2. CASE x # b
        BY <1>3, <2>1, <2>3, <3>2 DEF Blk, OldestOK
      <3>. QED
        BY <3>1, <3>2
    <2>4. OldestOK(e, ord)
      BY <2>3 DEF OldestOK
    <2>. QED
      BY <1>5, <1>6, <1>7, <1>9, <2>2, <2>4 DEF Blk, e, b
  <1>10. CASE d.oldest # 0 /\ Older(b, d.oldest)
    <2>1. e.oldest = b /\ Before(ord, b, d.oldest) /\ d.oldest \in Filled(d)
      BY <1>2, <1>10 DEF b, Blk, MarksOK
    <2>2. b \in InUse(ord) /\ d.oldest \in InUse(ord)
      BY <2>1, BeforeInUse
    <2>3. d.state[b] # "ALLOCATING"
      <3>1. SUFFICES ASSUME d.state[b] = "ALLOCATING" PROVE FALSE
        OBVIOUS
      <3>2. b = d.alloc /\ d.oldest # b
        BY <1>1, <2>1, <3>1 DEF Blk, StatesOK, Filled
      <3>3. Before(ord, d.oldest, b)
        BY <1>1, <2>2, <3>2 DEF Blk, AllocOK
      <3>. QED
        BY <2>1, <2>2, <3>3, BeforeTotal
    <2>4. b \in Filled(d)
      <3>1. d.state[b] \in BlockStates
        BY <1>1, DevFields
      <3>. QED
        BY <1>1, <1>5, <1>9, <2>3, <3>1 DEF Filled, BlockStates
    <2>5. MarksOK(e)
      BY <1>2, <1>3, <2>1, <2>4 DEF Blk, MarksOK
    <2>6. ASSUME NEW x \in Filled(e), Cardinality(UsedIn(e, x)) < Cpb, Before(ord, x, b)
          PROVE  FALSE
      <3>1. x # b
        BY <2>2, <2>6, BeforeTotal
      <3>2. Before(ord, x, d.oldest)
        BY <2>1, <2>6, BeforeTrans
      <3>. QED
        BY <1>3, <1>10, <2>6, <3>1, <3>2 DEF Blk, OldestOK
    <2>7. OldestOK(e, ord)
      BY <2>1, <2>6 DEF OldestOK
    <2>. QED
      BY <1>5, <1>6, <1>7, <1>9, <2>5, <2>7 DEF Blk, e, b
  <1>. QED
    BY <1>8, <1>10
\* yaffs_chunk_del keeps the accounts of blocks.
LEMMA ChunkDelOK ==
  ASSUME NEW d \in Devs, NEW ord \in Seq(Blocks), IsInjective(ord), NEW fl, Blk(d, ord, fl),
         NEW r, r # NoRef => r \in d.used /\ fl[r[1]] # <<>>,
         r # NoRef /\ d.oldest # 0 => (Older(r[1], d.oldest) <=> Before(ord, r[1], d.oldest))
  PROVE  LET e == ChunkDel(d, r) IN
         /\ e \in Devs /\ Blk(e, ord, fl)
         /\ e.objs = d.objs /\ e.cache = d.cache /\ e.used = d.used \ {r}
         /\ \A b \in Blocks : e.state[b] = d.state[b] \/ e.state[b] = "DIRTY"
  <1>. DEFINE e == ChunkDel(d, r)
              n == Forgot(d, r)
  <1>1. CASE r = NoRef
    <2>1. e = d
      BY <1>1 DEF ChunkDel
    <2>2. NoRef \notin Pages
      BY BlocksAre DEF Pages, NoRef
    <2>3. d.used \ {r} = d.used
      BY <1>1, <2>2, DevFields
    <2>. QED
      BY <2>1, <2>3
  <1>2. CASE r # NoRef
    <2>1. r \in d.used /\ fl[r[1]] # <<>> /\ r \in Pages /\ r[1] \in Blocks
      BY <1>2, DevFields DEF Pages
    <2>2. Blk(n, ord, fl) /\ d.state[r[1]] \notin {"EMPTY", "DIRTY"}
      BY <1>2, <2>1, ForgotOK
    <2>3. /\ n \in Devs /\ n.used = d.used \ {r} /\ n.objs = d.objs /\ n.cache = d.cache
          /\ n.state = d.state
      BY <2>1, ForgotIs
    <2>4. \/ e = n
          \/ /\ e = BecameDirty(n, r[1])
             /\ UsedIn(n, r[1]) = {} /\ n.state[r[1]] # "ALLOCATING"
      BY <1>2, ChunkDelIs
    <2>. HIDE DEF e, n
    <2>5. CASE e = n
      BY <2>2, <2>3, <2>5 DEF e
    <2>6. CASE /\ e = BecameDirty(n, r[1])
               /\ UsedIn(n, r[1]) = {} /\ n.state[r[1]] # "ALLOCATING"
      <3>1. r[1] \in Filled(n)
        <4>1. n.state[r[1]] \in BlockStates
          BY <2>1, <2>3, DevFields
        <4>. QED
          BY <2>1, <2>2, <2>3, <2>6, <4>1 DEF Filled, BlockStates
      <3>2. Blk(e, ord, fl)
        BY <2>2, <2>3, <2>6, <3>1, BecameDirtyOK
      <3>3. /\ e \in Devs /\ e.objs = n.objs /\ e.used = n.used /\ e.cache = n.cache
            /\ e.state = [n.state EXCEPT ![r[1]] = "DIRTY"]
        BY <2>1, <2>3, <2>6, BecameDirtyIs, SMTT(30)
      <3>4. \A b \in Blocks : e.state[b] = d.state[b] \/ e.state[b] = "DIRTY"
        BY <2>1, <2>3, <3>3, DevFields
      <3>. QED
        BY <2>3, <3>2, <3>3, <3>4 DEF e
    <2>. QED
      BY <2>4, <2>5, <2>6
  <1>. QED
    BY <1>1, <1>2

\* The accounts of blocks of a mounted device.
Accounts ==
  /\ dev \in Devs /\ FlashOK(flash) /\ order \in Seq(Blocks) /\ IsInjective(order)
  /\ Blk(dev, order, flash)

TakenOrder == IF dev.alloc # 0 THEN order ELSE Append(order, Target)
TakenDev(d) == [d EXCEPT !.alloc = Target, !.state[Target] = "ALLOCATING"]
Programmed(t) == [flash EXCEPT ![Target] = Append(@, t)]

\* The block of the next page has room and is not being collected.
LEMMA TargetIs ==
  ASSUME Accounts, HasBlock
  PROVE  /\ Target \in Blocks /\ Target # 0 /\ Len(flash[Target]) < Cpb
         /\ Len(flash[Target]) \in Nat
         /\ dev.alloc # 0 => Target = dev.alloc /\ dev.state[Target] = "ALLOCATING"
         /\ dev.alloc = 0 => dev.state[Target] = "EMPTY"
         /\ dev.state[Target] \notin {"FULL", "COLLECTING"}
  <1>1. dev \in Devs /\ Blk(dev, order, flash) /\ FlashOK(flash)
    BY DEF Accounts
  <1>2. \A b \in Blocks : Len(flash[b]) \in Nat
    BY <1>1 DEF FlashOK
  <1>3. CASE dev.alloc # 0
    <2>1. Target = dev.alloc /\ dev.alloc \in Blocks
      BY <1>1, <1>3, DevFields, BlocksAre DEF Target
    <2>2. dev.state[Target] = "ALLOCATING" /\ Len(flash[Target]) < Cpb
      BY <1>1, <1>3, <2>1 DEF Blk, StatesOK, AllocOK
    <2>. QED
      BY <1>2, <1>3, <2>1, <2>2, BlocksAre
  <1>4. CASE dev.alloc = 0
    <2>1. Erased # {} /\ Target = Min(Erased)
      BY <1>4 DEF HasBlock, Target
    <2>2. Target \in Erased
      BY <2>1, LeastBlock DEF Erased
    <2>3. Target \in Blocks /\ dev.state[Target] = "EMPTY"
      BY <2>2 DEF Erased
    <2>4. Len(flash[Target]) = 0
      BY <1>1, <2>3 DEF Blk, StatesOK
    <2>. QED
      BY <1>2, <1>4, <2>3, <2>4, BlocksAre
  <1>. QED
    BY <1>3, <1>4

\* The block of the next page is the newest in use.
LEMMA TakenOrderOK ==
  ASSUME Accounts, HasBlock
  PROVE  /\ TakenOrder \in Seq(Blocks) /\ IsInjective(TakenOrder)
         /\ InUse(TakenOrder) = InUse(order) \cup {Target}
         /\ \A x, y \in InUse(order) : Before(TakenOrder, x, y) <=> Before(order, x, y)
         /\ \A x \in InUse(order) \ {Target} : Before(TakenOrder, x, Target)
  <1>1. /\ dev \in Devs /\ Blk(dev, order, flash) /\ order \in Seq(Blocks) /\ IsInjective(order)
        /\ Target \in Blocks
    BY TargetIs DEF Accounts
  <1>2. CASE dev.alloc # 0
    <2>1. Target = dev.alloc /\ TakenOrder = order /\ dev.state[Target] = "ALLOCATING"
      BY <1>2, TargetIs DEF TakenOrder
    <2>2. Target \in InUse(order)
      BY <1>1, <2>1 DEF Blk, StatesOK
    <2>. QED
      BY <1>1, <1>2, <2>1, <2>2 DEF Blk, AllocOK
  <1>3. CASE dev.alloc = 0
    <2>1. TakenOrder = Append(order, Target) /\ Target \notin InUse(order)
      BY <1>1, <1>3, TargetIs DEF TakenOrder, Blk, StatesOK
    <2>. QED
      BY <1>1, <2>1, TakenNewest
  <1>. QED
    BY <1>2, <1>3

\* yaffs_alloc_chunk takes a block.
LEMMA TakenDevOK ==
  ASSUME Accounts, HasBlock, NEW d \in Devs, SameBlocks(dev, d)
  PROVE  LET e == TakenDev(d) IN
         /\ e \in Devs /\ e.objs = d.objs /\ e.used = d.used /\ e.cache = d.cache
         /\ e.alloc = Target /\ e.state = [d.state EXCEPT ![Target] = "ALLOCATING"]
         /\ e.gcBlock = d.gcBlock /\ e.dirtiest = d.dirtiest /\ e.oldest = d.oldest
         /\ Blk(e, TakenOrder, flash)
         /\ \A b \in Blocks : e.state[b] = "COLLECTING" => d.state[b] = "COLLECTING"
  <1>. DEFINE e == TakenDev(d)
  <1>1. /\ Target \in Blocks /\ Target # 0 /\ Len(flash[Target]) < Cpb
        /\ d.state[Target] \notin {"FULL", "COLLECTING"}
        /\ d.alloc # 0 => Target = d.alloc
        /\ d.alloc = 0 => d.state[Target] = "EMPTY"
    BY TargetIs DEF SameBlocks
  <1>2. Blk(d, order, flash) /\ FlashOK(flash)
    BY BlkSame DEF Accounts
  <1>3. /\ e \in Devs /\ e.objs = d.objs /\ e.used = d.used /\ e.cache = d.cache
        /\ e.alloc = Target /\ e.state = [d.state EXCEPT ![Target] = "ALLOCATING"]
        /\ e.gcBlock = d.gcBlock /\ e.dirtiest = d.dirtiest /\ e.oldest = d.oldest
    <2>1. [d.state EXCEPT ![Target] = "ALLOCATING"] \in [Blocks -> BlockStates]
      BY DevFields DEF BlockStates
    <2>2. Target \in 0 .. NBlocks
      BY <1>1, BlocksAre
    <2>. QED
      BY <2>1, <2>2 DEF TakenDev, Devs
  <1>. HIDE DEF e
  <1>4. e.state[Target] = "ALLOCATING" /\ \A b \in Blocks : b # Target => e.state[b] = d.state[b]
    BY <1>1, <1>3, DevFields
  <1>5. Filled(e) = Filled(d) /\ \A b : UsedIn(e, b) = UsedIn(d, b)
    BY <1>1, <1>3, <1>4 DEF Filled, UsedIn
  <1>6. StatesOK(e, TakenOrder, flash)
    <2>1. \A b \in Blocks : e.state[b] = "EMPTY" <=> b \notin InUse(TakenOrder)
      BY <1>2, <1>4, TakenOrderOK DEF Blk, StatesOK
    <2>2. \A b \in Blocks : e.state[b] = "ALLOCATING" <=> b = e.alloc
      BY <1>1, <1>2, <1>3, <1>4, BlocksAre DEF Blk, StatesOK
    <2>. QED
      BY <1>2, <1>4, <1>5, <2>1, <2>2 DEF Blk, StatesOK
  <1>7. MarksOK(e)
    <2>1. d.dirtiest # 0 => d.dirtiest \in Blocks /\ e.state[d.dirtiest] = "FULL"
      BY <1>1, <1>2, <1>4, DevFields, BlocksAre DEF Blk, MarksOK
    <2>. QED
      BY <1>2, <1>3, <1>4, <1>5, <2>1 DEF Blk, MarksOK
  <1>8. AllocOK(e, TakenOrder, flash)
    BY <1>1, <1>3, TakenOrderOK DEF AllocOK
  <1>9. OldestOK(e, TakenOrder)
    <2>1. \A b \in Filled(d) : b \in InUse(order)
      BY <1>2 DEF Blk, StatesOK, Filled
    <2>2. d.oldest # 0 => d.oldest \in Filled(d)
      BY <1>2 DEF Blk, MarksOK
    <2>. QED
      BY <1>2, <1>3, <1>5, <2>1, <2>2, TakenOrderOK DEF Blk, OldestOK
  <1>. QED
    BY <1>3, <1>4, <1>6, <1>7, <1>8, <1>9 DEF Blk, e

\* A page of the block that is being filled is programmed.
LEMMA FillOK ==
  ASSUME NEW d \in Devs, NEW ord \in Seq(Blocks), IsInjective(ord), NEW fl, Blk(d, ord, fl),
         FlashOK(fl), NEW T \in Blocks, d.alloc = T, NEW t, NEW e,
         e.used = d.used \cup {<<T, Len(fl[T]) + 1>>},
         e.state = [d.state EXCEPT ![T] = IF Len(fl[T]) + 1 = Cpb THEN "FULL" ELSE "ALLOCATING"],
         e.alloc = (IF Len(fl[T]) + 1 = Cpb THEN 0 ELSE T),
         e.gcBlock = d.gcBlock, e.dirtiest = d.dirtiest, e.oldest = d.oldest
  PROVE  Blk(e, ord, [fl EXCEPT ![T] = Append(@, t)])
  <1>. DEFINE full == Len(fl[T]) + 1 = Cpb
              fl2 == [fl EXCEPT ![T] = Append(@, t)]
  <1>1. /\ d.state[T] = "ALLOCATING" /\ T # 0 /\ T \in InUse(ord) /\ Len(fl[T]) < Cpb
        /\ Len(fl[T]) \in Nat /\ fl[T] \in Seq(Tags)
    BY BlocksAre DEF Blk, StatesOK, AllocOK, FlashOK
  <1>2. Len(fl2[T]) = Len(fl[T]) + 1 /\ \A b \in Blocks : b # T => fl2[b] = fl[b]
    BY <1>1 DEF FlashOK
  <1>3. /\ e.state[T] = (IF full THEN "FULL" ELSE "ALLOCATING")
        /\ \A b \in Blocks : b # T => e.state[b] = d.state[b]
    BY DevFields
  <1>4. \A b : b # T => UsedIn(e, b) = UsedIn(d, b)
    BY DEF UsedIn
  <1>. HIDE DEF fl2
  <1>5. Filled(e) \subseteq Filled(d) \cup {T} /\ Filled(d) \subseteq Filled(e) /\ T \notin Filled(d)
    BY <1>1, <1>3 DEF Filled
  <1>6. StatesOK(e, ord, fl2)
    <2>1. e.state[T] \notin {"EMPTY", "DIRTY"}
      BY <1>3
    <2>2. \A b \in Blocks : e.state[b] = "EMPTY" <=> b \notin InUse(ord)
      BY <1>1, <1>3, <2>1 DEF Blk, StatesOK
    <2>3. \A b \in Blocks : e.state[b] = "EMPTY" => fl2[b] = <<>>
      BY <1>2, <1>3, <2>1 DEF Blk, StatesOK
    <2>4. \A b \in Blocks : e.state[b] = "ALLOCATING" <=> b = e.alloc
      <3>1. CASE full
        BY <1>1, <1>3, <3>1, BlocksAre DEF Blk, StatesOK
      <3>2. CASE ~full
        BY <1>1, <1>3, <3>2 DEF Blk, StatesOK
      <3>. QED
        BY <3>1, <3>2
    <2>5. \A b \in Blocks : e.state[b] = "DIRTY" => UsedIn(e, b) = {}
      BY <1>3, <1>4, <2>1 DEF Blk, StatesOK
    <2>. QED
      BY <2>2, <2>3, <2>4, <2>5 DEF StatesOK
  <1>7. MarksOK(e)
    <2>1. \A b \in Blocks : e.state[b] = "COLLECTING" => b = e.gcBlock
      BY <1>3 DEF Blk, MarksOK
    <2>2. e.dirtiest # 0 => e.state[e.dirtiest] = "FULL"
      <3>1. e.dirtiest # 0 => e.dirtiest \in Blocks /\ d.state[e.dirtiest] = "FULL"
        BY DevFields, BlocksAre DEF Blk, MarksOK
      <3>. QED
        BY <1>1, <1>3, <3>1
    <2>3. /\ e.gcBlock # 0 => e.dirtiest = 0 /\ e.gcBlock \in Filled(e)
          /\ e.oldest # 0 => e.oldest \in Filled(e)
      BY <1>5 DEF Blk, MarksOK
    <2>. QED
      BY <2>1, <2>2, <2>3 DEF MarksOK
  <1>8. AllocOK(e, ord, fl2)
    <2>1. CASE full
      BY <2>1 DEF AllocOK
    <2>2. CASE ~full
      <3>1. Len(fl2[T]) < Cpb
        BY <1>1, <1>2, <2>2, BlocksAre
      <3>. QED
        BY <1>1, <2>2, <3>1 DEF AllocOK, Blk
    <2>. QED
      BY <2>1, <2>2
  <1>9. ASSUME e.oldest # 0, NEW b \in Filled(e), Cardinality(UsedIn(e, b)) < Cpb
        PROVE  ~Before(ord, b, e.oldest)
    <2>1. d.oldest \in Filled(d) /\ d.oldest # T
      BY <1>5, <1>9 DEF Blk, MarksOK
    <2>2. d.oldest \in InUse(ord)
      BY <2>1 DEF Blk, StatesOK, Filled
    <2>3. CASE b = T
      <3>1. Before(ord, d.oldest, T)
        BY <1>1, <2>1, <2>2 DEF Blk, AllocOK
      <3>. QED
        BY <1>1, <2>2, <2>3, <3>1, BeforeTotal
    <2>4. CASE b # T
      <3>1. b \in Filled(d) /\ UsedIn(e, b) = UsedIn(d, b)
        BY <1>4, <1>5, <2>4
      <3>. QED
        BY <1>9, <3>1 DEF Blk, OldestOK
    <2>. QED
      BY <2>3, <2>4
  <1>10. OldestOK(e, ord)
    BY <1>9 DEF OldestOK
  <1>. QED
    BY <1>6, <1>7, <1>8, <1>10 DEF Blk, fl2

\* A chunk is programmed: the page is a new one, and what was programmed stays.
LEMMA ProgramOK ==
  ASSUME Accounts, HasBlock, NEW d \in Devs, SameBlocks(dev, d), NEW t \in Tags
  PROVE  LET e == Allocated(d) IN
         /\ e \in Devs /\ e.objs = d.objs /\ e.cache = d.cache /\ e.oldest = d.oldest
         /\ e.used = d.used \cup {NewRef} /\ Blk(e, TakenOrder, Programmed(t))
         /\ \A b \in Blocks : e.state[b] = "COLLECTING" => d.state[b] = "COLLECTING"
         /\ FlashOK(Programmed(t)) /\ Extends(flash, Programmed(t))
         /\ NewRef \in Pages /\ Holds(Programmed(t), NewRef, t.obj, t.chunk)
         /\ \A f, c : ~Holds(flash, NewRef, f, c)
  <1>. DEFINE T == Target
              p == Len(flash[T]) + 1
              e == Allocated(d)
              u == TakenDev(d)
              fl2 == Programmed(t)
  <1>1. /\ T \in Blocks /\ Len(flash[T]) < Cpb /\ Len(flash[T]) \in Nat /\ FlashOK(flash)
        /\ flash[T] \in Seq(Tags)
    BY TargetIs DEF Accounts, FlashOK
  <1>2. p \in 1 .. Cpb
    BY <1>1, BlocksAre
  <1>3. NewRef = <<T, p>> /\ NewRef \in Pages /\ NewRef[1] = T /\ NewRef[2] = p
    BY <1>1, <1>2 DEF NewRef, Pages
  <1>4. /\ e \in Devs /\ e.objs = d.objs /\ e.cache = d.cache /\ e.oldest = d.oldest
        /\ e.gcBlock = d.gcBlock /\ e.dirtiest = d.dirtiest
        /\ e.used = d.used \cup {NewRef}
        /\ e.state = [d.state EXCEPT ![T] = IF p = Cpb THEN "FULL" ELSE "ALLOCATING"]
        /\ e.alloc = (IF p = Cpb THEN 0 ELSE T)
    <2>. DEFINE s == [d.state EXCEPT ![T] = IF p = Cpb THEN "FULL" ELSE "ALLOCATING"]
                a == IF p = Cpb THEN 0 ELSE T
                v == d.used \cup {NewRef}
    <2>1. s \in [Blocks -> BlockStates] /\ a \in 0 .. NBlocks /\ v \in SUBSET Pages
      BY <1>1, <1>3, DevFields, BlocksAre DEF BlockStates
    <2>2. e = [d EXCEPT !.state = s, !.alloc = a, !.used = v]
      BY <1>3, DevFields DEF Allocated, Devs
    <2>. HIDE DEF s, a, v, e
    <2>3. /\ e \in Devs /\ e.objs = d.objs /\ e.cache = d.cache /\ e.oldest = d.oldest
          /\ e.gcBlock = d.gcBlock /\ e.dirtiest = d.dirtiest
          /\ e.used = v /\ e.state = s /\ e.alloc = a
      BY <2>1, <2>2 DEF Devs
    <2>. QED
      BY <2>3 DEF s, a, v
  <1>5. /\ u \in Devs /\ u.used = d.used /\ u.alloc = T
        /\ u.state = [d.state EXCEPT ![T] = "ALLOCATING"]
        /\ u.gcBlock = d.gcBlock /\ u.dirtiest = d.dirtiest /\ u.oldest = d.oldest
        /\ Blk(u, TakenOrder, flash)
    BY TakenDevOK
  <1>. HIDE DEF e, u
  <1>6. Blk(e, TakenOrder, fl2)
    <2>1. e.state = [u.state EXCEPT ![T] = IF p = Cpb THEN "FULL" ELSE "ALLOCATING"]
      BY <1>1, <1>4, <1>5, DevFields
    <2>2. e.used = u.used \cup {<<T, Len(flash[T]) + 1>>}
      BY <1>3, <1>4, <1>5
    <2>3. TakenOrder \in Seq(Blocks) /\ IsInjective(TakenOrder)
      BY TakenOrderOK
    <2>4. e.gcBlock = u.gcBlock /\ e.dirtiest = u.dirtiest /\ e.oldest = u.oldest
      BY <1>4, <1>5
    <2>5. fl2 = [flash EXCEPT ![T] = Append(@, t)]
      BY DEF Programmed
    <2>. HIDE DEF T, fl2
    <2>6. Blk(e, TakenOrder, [flash EXCEPT ![T] = Append(@, t)])
      BY <1>1, <1>4, <1>5, <2>1, <2>2, <2>3, <2>4, FillOK
    <2>. QED
      BY <2>5, <2>6
  <1>7. /\ fl2[T] = Append(flash[T], t) /\ \A b \in Blocks : b # T => fl2[b] = flash[b]
        /\ fl2 \in [Blocks -> Seq(Tags)] /\ Len(fl2[T]) = p /\ fl2[T][p] = t
        /\ \A i \in 1 .. Len(flash[T]) : fl2[T][i] = flash[T][i]
    <2>1. Append(flash[T], t) \in Seq(Tags)
      BY <1>1
    <2>. QED
      BY <1>1, <2>1 DEF FlashOK, Programmed
  <1>. HIDE DEF fl2
  <1>8. FlashOK(fl2)
    <2>1. ASSUME NEW b \in Blocks PROVE Len(fl2[b]) <= Cpb
      <3>1. CASE b = T
        BY <1>2, <1>7, <3>1, BlocksAre
      <3>2. CASE b # T
        BY <1>1, <1>7, <3>2 DEF FlashOK
      <3>. QED
        BY <3>1, <3>2
    <2>. QED
      BY <1>7, <2>1 DEF FlashOK
  <1>9. Extends(flash, fl2)
    <2>1. ASSUME NEW r \in Pages, NEW f, NEW c, Holds(flash, r, f, c) PROVE Holds(fl2, r, f, c)
      <3>1. r[1] \in Blocks
        BY DEF Pages
      <3>2. CASE r[1] = T
        BY <1>1, <1>7, <2>1, <3>2 DEF Holds
      <3>3. CASE r[1] # T
        BY <1>7, <2>1, <3>1, <3>3 DEF Holds
      <3>. QED
        BY <3>2, <3>3
    <2>. QED
      BY <2>1 DEF Extends
  <1>10. Holds(fl2, NewRef, t.obj, t.chunk)
    BY <1>1, <1>3, <1>7 DEF Holds
  <1>11. \A f, c : ~Holds(flash, NewRef, f, c)
    BY <1>1, <1>3 DEF Holds
  <1>12. \A b \in Blocks : e.state[b] = "COLLECTING" => d.state[b] = "COLLECTING"
    BY <1>4, DevFields
  <1>. QED
    BY <1>3, <1>4, <1>6, <1>8, <1>9, <1>10, <1>11, <1>12 DEF e, fl2

\* A dirty block is erased.
LEMMA EraseOK ==
  ASSUME Accounts, NEW b \in Blocks, dev.state[b] = "DIRTY", NEW e, NEW fl2,
         e = [dev EXCEPT !.state[b] = "EMPTY", !.shrink[b] = FALSE],
         fl2 = [flash EXCEPT ![b] = <<>>]
  PROVE  /\ e \in Devs /\ e.objs = dev.objs /\ e.used = dev.used /\ e.cache = dev.cache
         /\ FlashOK(fl2) /\ InUseBut({b}) \in Seq(Blocks) /\ IsInjective(InUseBut({b}))
         /\ Blk(e, InUseBut({b}), fl2)
         /\ \A r \in dev.used : r[1] # b
         /\ \A x \in Blocks : e.state[x] = "COLLECTING" <=> dev.state[x] = "COLLECTING"
         /\ e.gcBlock = dev.gcBlock
  <1>. DEFINE ord2 == InUseBut({b})
  <1>1. dev \in Devs /\ FlashOK(flash) /\ order \in Seq(Blocks) /\ IsInjective(order)
        /\ Blk(dev, order, flash)
    BY DEF Accounts
  <1>2. /\ ord2 \in Seq(Blocks) /\ IsInjective(ord2)
        /\ InUse(ord2) = InUse(order) \ {b}
        /\ \A x, y : Before(ord2, x, y) => Before(order, x, y)
        /\ \A x, y \in InUse(ord2) : Before(order, x, y) => Before(ord2, x, y)
    BY <1>1, OthersStay
  <1>. HIDE DEF ord2
  <1>3. /\ e \in Devs /\ e.objs = dev.objs /\ e.used = dev.used /\ e.cache = dev.cache
        /\ e.state = [dev.state EXCEPT ![b] = "EMPTY"] /\ e.alloc = dev.alloc
        /\ e.gcBlock = dev.gcBlock /\ e.dirtiest = dev.dirtiest /\ e.oldest = dev.oldest
    <2>1. [dev.state EXCEPT ![b] = "EMPTY"] \in [Blocks -> BlockStates]
      BY <1>1, DevFields DEF BlockStates
    <2>2. [dev.shrink EXCEPT ![b] = FALSE] \in [Blocks -> BOOLEAN]
      BY <1>1, DevFields
    <2>. QED
      BY <1>1, <2>1, <2>2 DEF Devs
  <1>4. e.state[b] = "EMPTY" /\ \A x \in Blocks : x # b => e.state[x] = dev.state[x]
    BY <1>1, <1>3, DevFields
  <1>5. fl2[b] = <<>> /\ fl2 \in [Blocks -> Seq(Tags)] /\ \A x \in Blocks : x # b => fl2[x] = flash[x]
    BY <1>1 DEF FlashOK
  <1>6. FlashOK(fl2)
    <2>1. \A x \in Blocks : Len(fl2[x]) <= Cpb
      BY <1>1, <1>5, BlocksAre DEF FlashOK
    <2>. QED
      BY <1>5, <2>1 DEF FlashOK
  <1>7. Filled(e) = Filled(dev) /\ b \notin Filled(dev) /\ \A x : UsedIn(e, x) = UsedIn(dev, x)
    BY <1>3, <1>4 DEF Filled, UsedIn
  <1>8. b \in InUse(order) /\ UsedIn(dev, b) = {} /\ dev.alloc # b /\ b # 0
    BY <1>1, BlocksAre DEF Blk, StatesOK
  <1>9. StatesOK(e, ord2, fl2)
    <2>1. \A x \in Blocks : e.state[x] = "EMPTY" <=> x \notin InUse(ord2)
      BY <1>1, <1>2, <1>4 DEF Blk, StatesOK
    <2>2. \A x \in Blocks : e.state[x] = "EMPTY" => fl2[x] = <<>>
      BY <1>1, <1>4, <1>5 DEF Blk, StatesOK
    <2>3. \A x \in Blocks : e.state[x] = "ALLOCATING" <=> x = e.alloc
      BY <1>1, <1>3, <1>4, <1>8 DEF Blk, StatesOK
    <2>4. \A x \in Blocks : e.state[x] = "DIRTY" => UsedIn(e, x) = {}
      BY <1>1, <1>4, <1>7 DEF Blk, StatesOK
    <2>. QED
      BY <2>1, <2>2, <2>3, <2>4 DEF StatesOK
  <1>10. MarksOK(e)
    <2>1. e.dirtiest # 0 => e.state[e.dirtiest] = "FULL"
      <3>1. e.dirtiest # 0 => e.dirtiest \in Blocks /\ dev.state[e.dirtiest] = "FULL"
        BY <1>1, <1>3, DevFields, BlocksAre DEF Blk, MarksOK
      <3>. QED
        BY <1>4, <3>1
    <2>. QED
      BY <1>1, <1>3, <1>4, <1>7, <2>1 DEF Blk, MarksOK
  <1>11. AllocOK(e, ord2, fl2)
    <2>1. ASSUME dev.alloc # 0
          PROVE  /\ Len(fl2[dev.alloc]) < Cpb
                 /\ \A x \in InUse(ord2) \ {dev.alloc} : Before(ord2, x, dev.alloc)
      <3>1. dev.alloc \in Blocks
        BY <1>1, <2>1, DevFields, BlocksAre
      <3>2. dev.state[dev.alloc] = "ALLOCATING"
        BY <1>1, <3>1 DEF Blk, StatesOK
      <3>3. dev.alloc \in InUse(ord2)
        BY <1>1, <1>2, <1>8, <3>1, <3>2 DEF Blk, StatesOK
      <3>4. Len(fl2[dev.alloc]) < Cpb
        BY <1>1, <1>5, <1>8, <2>1, <3>1 DEF Blk, AllocOK
      <3>5. \A x \in InUse(ord2) \ {dev.alloc} : Before(order, x, dev.alloc)
        BY <1>1, <1>2, <2>1 DEF Blk, AllocOK
      <3>. QED
        BY <1>2, <3>3, <3>4, <3>5
    <2>. QED
      BY <1>3, <2>1 DEF AllocOK
  <1>12. OldestOK(e, ord2)
    BY <1>1, <1>2, <1>3, <1>7 DEF Blk, OldestOK
  <1>13. \A r \in dev.used : r[1] # b
    BY <1>8 DEF UsedIn
  <1>14. \A x \in Blocks : e.state[x] = "COLLECTING" <=> dev.state[x] = "COLLECTING"
    BY <1>4
  <1>. QED
    BY <1>2, <1>3, <1>6, <1>9, <1>10, <1>11, <1>12, <1>13, <1>14 DEF Blk, ord2

InState(d, b, s) == [d EXCEPT !.state[b] = s]
NoneCollected(d) == \A b \in Blocks : d.state[b] # "COLLECTING"

\* A collection stops short of the end of its block.
LEMMA StopOK ==
  ASSUME NEW d \in Devs, NEW ord, NEW fl, Blk(d, ord, fl), NEW b \in Blocks,
         d.state[b] = "COLLECTING", NEW e, e = InState(d, b, "FULL")
  PROVE  /\ e \in Devs /\ e.objs = d.objs /\ e.used = d.used /\ e.cache = d.cache
         /\ Blk(e, ord, fl) /\ NoneCollected(e)
  <1>1. /\ e \in Devs /\ e.objs = d.objs /\ e.used = d.used /\ e.cache = d.cache
        /\ e.state = [d.state EXCEPT ![b] = "FULL"] /\ e.alloc = d.alloc
        /\ e.gcBlock = d.gcBlock /\ e.dirtiest = d.dirtiest /\ e.oldest = d.oldest
    <2>1. [d.state EXCEPT ![b] = "FULL"] \in [Blocks -> BlockStates]
      BY DevFields DEF BlockStates
    <2>. QED
      BY <2>1 DEF Devs, InState
  <1>2. e.state[b] = "FULL" /\ \A x \in Blocks : x # b => e.state[x] = d.state[x]
    BY <1>1, DevFields
  <1>3. Filled(e) = Filled(d) /\ \A x : UsedIn(e, x) = UsedIn(d, x)
    BY <1>1, <1>2 DEF Filled, UsedIn
  <1>4. StatesOK(e, ord, fl)
    BY <1>1, <1>2, <1>3 DEF Blk, StatesOK
  <1>5. NoneCollected(e)
    BY <1>2 DEF Blk, MarksOK, NoneCollected
  <1>6. MarksOK(e)
    <2>1. e.dirtiest # 0 => e.state[e.dirtiest] = "FULL"
      <3>1. e.dirtiest # 0 => e.dirtiest \in Blocks /\ d.state[e.dirtiest] = "FULL"
        BY <1>1, DevFields, BlocksAre DEF Blk, MarksOK
      <3>. QED
        BY <1>2, <3>1
    <2>. QED
      BY <1>1, <1>3, <1>5, <2>1 DEF Blk, MarksOK, NoneCollected
  <1>7. AllocOK(e, ord, fl) /\ OldestOK(e, ord)
    BY <1>1, <1>3 DEF Blk, AllocOK, OldestOK
  <1>. QED
    BY <1>1, <1>4, <1>5, <1>6, <1>7 DEF Blk

\* Full blocks are in use.
LEMMA InUseFilled ==
  ASSUME NEW d, NEW ord, NEW fl, Blk(d, ord, fl)
  PROVE  Filled(d) \subseteq InUse(ord)
  BY DEF Blk, StatesOK, Filled

\* yaffs2_find_oldest_dirty_seq
LEMMA WithOldestOK ==
  ASSUME Accounts, NoneCollected(dev)
  PROVE  LET e == WithOldest IN
         /\ e \in Devs /\ e.objs = dev.objs /\ e.used = dev.used /\ e.cache = dev.cache
         /\ e.state = dev.state /\ e.gcBlock = dev.gcBlock /\ e.dirtiest = dev.dirtiest
         /\ Blk(e, order, flash)
  <1>1. /\ dev \in Devs /\ order \in Seq(Blocks) /\ IsInjective(order) /\ Blk(dev, order, flash)
    BY DEF Accounts
  <1>2. CASE WithOldest = dev
    BY <1>1, <1>2
  <1>3. CASE WithOldest # dev
    <2>. DEFINE o == OldestOf(DirtyFull)
                e == WithOldest
    <2>1. dev.oldest = 0 /\ DirtyFull # {} /\ e = [dev EXCEPT !.oldest = o]
      BY <1>3 DEF WithOldest
    <2>2. DirtyFull \subseteq Filled(dev) /\ DirtyFull \subseteq InUse(order)
      BY <1>1, InUseFilled DEF DirtyFull, Filled
    <2>3. o \in DirtyFull /\ \A x \in DirtyFull \ {o} : Before(order, o, x)
      BY <1>1, <2>1, <2>2, OldestExists
    <2>. HIDE DEF o, e
    <2>4. o \in 0 .. NBlocks
      BY <2>3, BlocksAre DEF DirtyFull
    <2>5. /\ e \in Devs /\ e.objs = dev.objs /\ e.used = dev.used /\ e.cache = dev.cache
          /\ e.state = dev.state /\ e.gcBlock = dev.gcBlock /\ e.dirtiest = dev.dirtiest
          /\ e.alloc = dev.alloc /\ e.oldest = o
      BY <1>1, <2>1, <2>4 DEF Devs
    <2>6. Filled(e) = Filled(dev) /\ \A x : UsedIn(e, x) = UsedIn(dev, x)
      BY <2>5 DEF Filled, UsedIn
    <2>7. StatesOK(e, order, flash) /\ AllocOK(e, order, flash)
      BY <1>1, <2>5, <2>6 DEF Blk, StatesOK, AllocOK
    <2>8. MarksOK(e)
      BY <1>1, <2>2, <2>3, <2>5, <2>6 DEF Blk, MarksOK
    <2>9. ASSUME NEW x \in Filled(e), Cardinality(UsedIn(e, x)) < Cpb PROVE ~Before(order, x, o)
      <3>1. x \in DirtyFull
        <4>1. x \in Blocks /\ dev.state[x] = "FULL"
          BY <2>6, <2>9 DEF Filled, NoneCollected
        <4>. QED
          BY <2>6, <2>9, <4>1 DEF DirtyFull
      <3>2. x \in InUse(order) /\ o \in InUse(order)
        BY <2>2, <2>3, <3>1
      <3>3. CASE x = o
        BY <1>1, <3>2, <3>3, BeforeTotal
      <3>4. CASE x # o
        <4>1. Before(order, o, x)
          BY <2>3, <3>1, <3>4
        <4>. QED
          BY <1>1, <3>2, <4>1, BeforeTotal
      <3>. QED
        BY <3>3, <3>4
    <2>10. OldestOK(e, order)
      BY <2>5, <2>9 DEF OldestOK
    <2>. QED
      BY <2>5, <2>7, <2>8, <2>10 DEF Blk, e
  <1>. QED
    BY <1>2, <1>3

\* yaffs_gc_block up to its loop: the marks of block b.
Marked(d, b) == [d EXCEPT !.shrink[b] = FALSE, !.gcBlock = b,
                          !.gcChunk = IF d.gcBlock = 0 THEN 1 ELSE @,
                          !.dirtiest = IF d.gcBlock = 0 THEN 0 ELSE @]

\* The marks of the block to be collected.
LEMMA MarkedOK ==
  ASSUME NEW d \in Devs, NEW ord, NEW fl, Blk(d, ord, fl), NoneCollected(d),
         NEW b \in Blocks, d.state[b] = "FULL"
  PROVE  LET e == Marked(d, b) IN
         /\ e \in Devs /\ e.objs = d.objs /\ e.used = d.used /\ e.cache = d.cache
         /\ e.gcBlock = b /\ e.state = d.state /\ NoneCollected(e) /\ Blk(e, ord, fl)
  <1>. DEFINE e == Marked(d, b)
  <1>1. /\ e \in Devs /\ e.objs = d.objs /\ e.used = d.used /\ e.cache = d.cache
        /\ e.gcBlock = b /\ e.state = d.state /\ e.alloc = d.alloc /\ e.oldest = d.oldest
        /\ e.dirtiest = (IF d.gcBlock = 0 THEN 0 ELSE d.dirtiest)
    <2>1. [d.shrink EXCEPT ![b] = FALSE] \in [Blocks -> BOOLEAN]
      BY DevFields
    <2>2. (IF d.gcBlock = 0 THEN 1 ELSE d.gcChunk) \in Nat
      BY DevFields
    <2>3. (IF d.gcBlock = 0 THEN 0 ELSE d.dirtiest) \in 0 .. NBlocks /\ b \in 0 .. NBlocks
      BY DevFields, BlocksAre
    <2>. QED
      BY <2>1, <2>2, <2>3 DEF Devs, Marked
  <1>2. e.dirtiest = 0
    BY <1>1 DEF Blk, MarksOK
  <1>. HIDE DEF e
  <1>3. Filled(e) = Filled(d) /\ \A x : UsedIn(e, x) = UsedIn(d, x)
    BY <1>1 DEF Filled, UsedIn
  <1>4. b \in Filled(e) /\ NoneCollected(e)
    BY <1>1 DEF Filled, NoneCollected
  <1>5. MarksOK(e)
    BY <1>1, <1>2, <1>3, <1>4 DEF Blk, MarksOK, NoneCollected
  <1>6. StatesOK(e, ord, fl) /\ AllocOK(e, ord, fl) /\ OldestOK(e, ord)
    BY <1>1, <1>3 DEF Blk, StatesOK, AllocOK, OldestOK
  <1>. QED
    BY <1>1, <1>4, <1>5, <1>6 DEF Blk, e

\* The collector starts on its block.
LEMMA StartOK ==
  ASSUME NEW d \in Devs, NEW ord, NEW fl, Blk(d, ord, fl), NoneCollected(d),
         NEW b \in Blocks, d.state[b] = "FULL", d.gcBlock = b,
         NEW e, e = InState(d, b, "COLLECTING")
  PROVE  /\ e \in Devs /\ e.objs = d.objs /\ e.used = d.used /\ e.cache = d.cache
         /\ e.gcBlock = b /\ e.state[b] = "COLLECTING" /\ Blk(e, ord, fl)
  <1>1. /\ e \in Devs /\ e.objs = d.objs /\ e.used = d.used /\ e.cache = d.cache
        /\ e.state = [d.state EXCEPT ![b] = "COLLECTING"] /\ e.alloc = d.alloc
        /\ e.gcBlock = d.gcBlock /\ e.dirtiest = d.dirtiest /\ e.oldest = d.oldest
    <2>1. [d.state EXCEPT ![b] = "COLLECTING"] \in [Blocks -> BlockStates]
      BY DevFields DEF BlockStates
    <2>. QED
      BY <2>1 DEF Devs, InState
  <1>2. e.state[b] = "COLLECTING" /\ \A x \in Blocks : x # b => e.state[x] = d.state[x]
    BY <1>1, DevFields
  <1>3. Filled(e) = Filled(d) /\ \A x : UsedIn(e, x) = UsedIn(d, x)
    BY <1>1, <1>2 DEF Filled, UsedIn
  <1>4. StatesOK(e, ord, fl)
    BY <1>1, <1>2, <1>3 DEF Blk, StatesOK
  <1>5. MarksOK(e)
    <2>1. e.dirtiest = 0
      BY <1>1, BlocksAre DEF Blk, MarksOK
    <2>. QED
      BY <1>1, <1>2, <1>3, <2>1 DEF Blk, MarksOK, NoneCollected
  <1>6. AllocOK(e, ord, fl) /\ OldestOK(e, ord)
    BY <1>1, <1>3 DEF Blk, AllocOK, OldestOK
  <1>. QED
    BY <1>1, <1>2, <1>4, <1>5, <1>6 DEF Blk

\* A device that has just been started or mounted, its blocks by what is on them.
LEMMA FreshOK ==
  ASSUME NEW d, d.alloc = 0, d.gcBlock = 0, d.dirtiest = 0, d.oldest = 0,
         NEW ord, NEW fl, \A b \in Blocks : b \in InUse(ord) <=> fl[b] # <<>>,
         \A b \in Blocks : d.state[b] \in {"EMPTY", "FULL", "DIRTY"},
         \A b \in Blocks : d.state[b] = "EMPTY" <=> fl[b] = <<>>,
         \A b \in Blocks : d.state[b] = "DIRTY" => UsedIn(d, b) = {}
  PROVE  Blk(d, ord, fl) /\ NoneCollected(d)
  <1>1. StatesOK(d, ord, fl)
    <2>1. \A b \in Blocks : d.state[b] = "ALLOCATING" <=> b = d.alloc
      BY BlocksAre
    <2>. QED
      BY <2>1 DEF StatesOK
  <1>2. MarksOK(d) /\ NoneCollected(d)
    BY DEF MarksOK, NoneCollected
  <1>. QED
    BY <1>1, <1>2 DEF Blk, AllocOK, OldestOK

CacheInside(d) == \A e \in d.cache : e.c <= d.objs[e.f].size

\* The memory of a mounted device, against its flash.
Good(d, ord, fl) ==
  /\ d \in Devs /\ FlashOK(fl) /\ ord \in Seq(Blocks) /\ IsInjective(ord) /\ Blk(d, ord, fl)
  /\ d.used = RefsOf(d.objs) /\ Pointed(fl, d.objs) /\ ChunksInside(d.objs) /\ CacheInside(d)

\* A page in use was programmed with what it is referred to for.
LEMMA UsedHeld ==
  ASSUME NEW d, NEW ord, NEW fl, Good(d, ord, fl), NEW r \in d.used
  PROVE  /\ r \in Pages /\ r # NoRef /\ r[1] \in Blocks /\ r[2] \in 1 .. Len(fl[r[1]])
         /\ fl[r[1]] # <<>> /\ r[1] \in InUse(ord)
         /\ \E f \in Files, c \in 0 .. MaxChunk : r = Ptr(d.objs, f, c) /\ Holds(fl, r, f, c)
  <1>1. r \in Pages /\ r[1] \in Blocks
    BY DevFields DEF Good, Pages
  <1>2. r # NoRef
    BY <1>1, BlocksAre DEF NoRef
  <1>3. PICK f \in Files, c \in 0 .. MaxChunk : r = Ptr(d.objs, f, c)
    BY RefsAre DEF Good
  <1>4. Holds(fl, r, f, c)
    BY <1>2, <1>3 DEF Good, Pointed
  <1>5. r[2] \in 1 .. Len(fl[r[1]])
    BY <1>4 DEF Holds
  <1>6. fl[r[1]] # <<>>
    <2>1. SUFFICES ASSUME fl[r[1]] = <<>> PROVE FALSE
      OBVIOUS
    <2>2. Len(fl[r[1]]) = 0
      BY <2>1
    <2>. QED
      BY <1>5, <2>2
  <1>7. r[1] \in InUse(ord)
    BY <1>1, <1>6 DEF Good, Blk, StatesOK
  <1>. QED
    BY <1>1, <1>2, <1>3, <1>4, <1>5, <1>6, <1>7

\* A good memory has its accounts in order.
LEMMA GoodAccounts ==
  ASSUME Good(dev, order, flash)
  PROVE  Accounts
  BY DEF Good, Accounts

\* The comparison that yaffs_chunk_del makes, before and after a block is taken.
LEMMA OlderAgrees ==
  ASSUME Good(dev, order, flash), NEW r \in dev.used, dev.oldest # 0
  PROVE  /\ Older(r[1], dev.oldest) <=> Before(order, r[1], dev.oldest)
         /\ HasBlock => (Older(r[1], dev.oldest) <=> Before(TakenOrder, r[1], dev.oldest))
  <1>1. r[1] \in InUse(order)
    BY UsedHeld
  <1>2. dev.oldest \in InUse(order)
    BY InUseFilled DEF Good, Blk, MarksOK
  <1>3. Older(r[1], dev.oldest) <=> Before(order, r[1], dev.oldest)
    BY <1>1, <1>2, OlderIs DEF Good
  <1>. QED
    BY <1>1, <1>2, <1>3, TakenOrderOK, GoodAccounts

\* A chunk or a header is written to a new page, and the old one is forgotten.
LEMMA PutOK ==
  ASSUME Good(dev, order, flash), HasBlock, NEW t \in Tags,
         NEW d \in Devs, SameBlocks(Allocated(dev), d),
         Ptr(d.objs, t.obj, t.chunk) = NewRef,
         \A g \in Files : \A k \in 0 .. MaxChunk :
           <<g, k>> # <<t.obj, t.chunk>> => Ptr(d.objs, g, k) = Ptr(dev.objs, g, k),
         ChunksInside(d.objs), CacheInside(d)
  PROVE  LET e == ChunkDel(d, Ptr(dev.objs, t.obj, t.chunk)) IN
         /\ Good(e, TakenOrder, Programmed(t)) /\ e.objs = d.objs /\ e.cache = d.cache
         /\ \A b \in Blocks : e.state[b] = "COLLECTING" => dev.state[b] = "COLLECTING"
  <1>. DEFINE f == t.obj
              c == t.chunk
              old == Ptr(dev.objs, f, c)
              e == ChunkDel(d, old)
              fl2 == Programmed(t)
              a == Allocated(dev)
  <1>1. f \in Files /\ c \in 0 .. MaxChunk
    BY DEF Tags
  <1>2. Accounts /\ dev \in Devs /\ SameBlocks(dev, dev)
    BY GoodAccounts DEF Good, SameBlocks
  <1>3. /\ a.oldest = dev.oldest /\ a.used = dev.used \cup {NewRef} /\ Blk(a, TakenOrder, fl2)
        /\ \A b \in Blocks : a.state[b] = "COLLECTING" => dev.state[b] = "COLLECTING"
        /\ FlashOK(fl2) /\ Extends(flash, fl2)
        /\ NewRef \in Pages /\ Holds(fl2, NewRef, f, c)
        /\ \A g, k : ~Holds(flash, NewRef, g, k)
    BY <1>2, ProgramOK
  <1>4. TakenOrder \in Seq(Blocks) /\ IsInjective(TakenOrder)
    BY <1>2, TakenOrderOK
  <1>. HIDE DEF a, fl2
  <1>5. Blk(d, TakenOrder, fl2) /\ d.oldest = dev.oldest /\ d.used = dev.used \cup {NewRef}
        /\ d.state = a.state
    <2>1. SameBlocks(a, d)
      BY DEF a
    <2>. QED
      BY <1>3, <2>1, BlkSame DEF SameBlocks
  <1>6. NewRef \notin dev.used /\ NewRef # NoRef
    <2>1. NewRef \notin dev.used
      BY <1>3, UsedHeld
    <2>2. NewRef # NoRef
      BY <1>3, BlocksAre DEF Pages, NoRef
    <2>. QED
      BY <2>1, <2>2
  <1>7. old # NoRef => old \in dev.used /\ old \in Pages
    <2>1. old # NoRef => old \in RefsOf(dev.objs)
      BY <1>1, RefsAre
    <2>. QED
      BY <2>1, DevFields DEF Good
  <1>. HIDE DEF old
  <1>8. old # NoRef => old \in d.used /\ fl2[old[1]] # <<>>
    <2>1. SUFFICES ASSUME old # NoRef PROVE old \in d.used /\ fl2[old[1]] # <<>>
      OBVIOUS
    <2>2. old \in dev.used /\ old \in Pages
      BY <1>7, <2>1
    <2>3. PICK g \in Files, k \in 0 .. MaxChunk : Holds(flash, old, g, k)
      BY <2>2, UsedHeld
    <2>4. old[2] \in 1 .. Len(fl2[old[1]])
      BY <1>3, <2>2, <2>3 DEF Extends, Holds
    <2>5. fl2[old[1]] # <<>>
      <3>1. SUFFICES ASSUME fl2[old[1]] = <<>> PROVE FALSE
        OBVIOUS
      <3>2. Len(fl2[old[1]]) = 0
        BY <3>1
      <3>. QED
        BY <2>4, <3>2
    <2>. QED
      BY <1>5, <2>2, <2>5
  <1>9. old # NoRef /\ d.oldest # 0 => (Older(old[1], d.oldest) <=> Before(TakenOrder, old[1], d.oldest))
    BY <1>5, <1>7, OlderAgrees
  <1>10. /\ e \in Devs /\ Blk(e, TakenOrder, fl2)
         /\ e.objs = d.objs /\ e.cache = d.cache /\ e.used = d.used \ {old}
         /\ \A b \in Blocks : e.state[b] = d.state[b] \/ e.state[b] = "DIRTY"
    BY <1>4, <1>5, <1>8, <1>9, ChunkDelOK
  <1>. HIDE DEF e
  <1>11. /\ Pointed(fl2, d.objs)
         /\ RefsOf(d.objs) = (RefsOf(dev.objs) \ {old}) \cup {NewRef}
    <2>1. dev.objs \in [Files -> Objects] /\ Pointed(flash, dev.objs) /\ dev.used = RefsOf(dev.objs)
      BY DevFields DEF Good
    <2>2. NewRef # NoRef => NewRef \notin RefsOf(dev.objs) /\ Holds(fl2, NewRef, f, c)
      BY <1>3, <1>6, <2>1
    <2>3. /\ Pointed(fl2, d.objs)
          /\ RefsOf(d.objs) = (RefsOf(dev.objs) \ {Ptr(dev.objs, f, c)}) \cup ({NewRef} \ {NoRef})
      BY <1>1, <1>3, <2>1, <2>2, PointerMoves
    <2>4. {NewRef} \ {NoRef} = {NewRef}
      BY <1>6
    <2>. QED
      BY <2>3, <2>4 DEF old
  <1>12. e.used = RefsOf(e.objs)
    <2>1. NewRef # old
      BY <1>6, <1>7
    <2>2. dev.used = RefsOf(dev.objs)
      BY DEF Good
    <2>. QED
      BY <1>5, <1>10, <1>11, <2>1, <2>2
  <1>13. ChunksInside(e.objs) /\ CacheInside(e)
    BY <1>10 DEF CacheInside
  <1>14. \A b \in Blocks : e.state[b] = "COLLECTING" => dev.state[b] = "COLLECTING"
    BY <1>3, <1>5, <1>10
  <1>15. Good(e, TakenOrder, fl2)
    BY <1>3, <1>4, <1>10, <1>11, <1>12, <1>13 DEF Good
  <1>. QED
    BY <1>10, <1>14, <1>15 DEF e, fl2, old

\* A file forgets a chunk or a header.
LEMMA DropOK ==
  ASSUME Good(dev, order, flash), NEW f \in Files, NEW c \in 0 .. MaxChunk,
         NEW d \in Devs, SameBlocks(dev, d), Ptr(d.objs, f, c) = NoRef,
         \A g \in Files : \A k \in 0 .. MaxChunk :
           <<g, k>> # <<f, c>> => Ptr(d.objs, g, k) = Ptr(dev.objs, g, k),
         ChunksInside(d.objs), CacheInside(d)
  PROVE  LET e == ChunkDel(d, Ptr(dev.objs, f, c)) IN
         /\ Good(e, order, flash) /\ e.objs = d.objs /\ e.cache = d.cache
         /\ \A b \in Blocks : e.state[b] = "COLLECTING" => dev.state[b] = "COLLECTING"
  <1>. DEFINE old == Ptr(dev.objs, f, c)
              e == ChunkDel(d, old)
  <1>1. /\ dev \in Devs /\ FlashOK(flash) /\ order \in Seq(Blocks) /\ IsInjective(order)
        /\ Blk(dev, order, flash) /\ dev.used = RefsOf(dev.objs) /\ Pointed(flash, dev.objs)
    BY DEF Good
  <1>2. /\ Blk(d, order, flash) /\ d.used = dev.used /\ d.oldest = dev.oldest
        /\ d.state = dev.state
    BY <1>1, BlkSame DEF SameBlocks
  <1>3. old # NoRef => old \in dev.used
    BY <1>1, RefsAre
  <1>. HIDE DEF old
  <1>4. old # NoRef => old \in d.used /\ flash[old[1]] # <<>>
    BY <1>2, <1>3, UsedHeld
  <1>5. old # NoRef /\ d.oldest # 0 => (Older(old[1], d.oldest) <=> Before(order, old[1], d.oldest))
    BY <1>2, <1>3, OlderAgrees
  <1>6. /\ e \in Devs /\ Blk(e, order, flash)
        /\ e.objs = d.objs /\ e.cache = d.cache /\ e.used = d.used \ {old}
        /\ \A b \in Blocks : e.state[b] = d.state[b] \/ e.state[b] = "DIRTY"
    BY <1>1, <1>2, <1>4, <1>5, ChunkDelOK
  <1>. HIDE DEF e
  <1>7. /\ Pointed(flash, d.objs)
        /\ RefsOf(d.objs) = (RefsOf(dev.objs) \ {old}) \cup ({NoRef} \ {NoRef})
    <2>1. dev.objs \in [Files -> Objects] /\ Extends(flash, flash)
      BY <1>1, DevFields DEF Extends
    <2>. DEFINE x == NoRef
    <2>2. x # NoRef => x \notin RefsOf(dev.objs) /\ Holds(flash, x, f, c)
      OBVIOUS
    <2>3. Ptr(d.objs, f, c) = x
      OBVIOUS
    <2>. HIDE DEF x
    <2>4. /\ Pointed(flash, d.objs)
          /\ RefsOf(d.objs) = (RefsOf(dev.objs) \ {Ptr(dev.objs, f, c)}) \cup ({x} \ {NoRef})
      BY <1>1, <2>1, <2>2, <2>3, PointerMoves
    <2>. QED
      BY <2>4 DEF x, old
  <1>8. e.used = RefsOf(e.objs)
    BY <1>1, <1>2, <1>6, <1>7
  <1>9. ChunksInside(e.objs) /\ CacheInside(e)
    BY <1>6 DEF CacheInside
  <1>10. Good(e, order, flash)
    BY <1>1, <1>6, <1>7, <1>8, <1>9 DEF Good
  <1>. QED
    BY <1>2, <1>6, <1>10 DEF e, old

\* What does not touch pointers.
LEMMA KeepOK ==
  ASSUME NEW d, NEW ord, NEW fl, Good(d, ord, fl),
         NEW e \in Devs, NEW ord2 \in Seq(Blocks), IsInjective(ord2), Blk(e, ord2, fl),
         e.used = d.used,
         \A f \in Files : e.objs[f].hdr = d.objs[f].hdr /\ e.objs[f].chunk = d.objs[f].chunk,
         ChunksInside(e.objs), CacheInside(e)
  PROVE  Good(e, ord2, fl)
  <1>1. \A f \in Files : \A c \in 0 .. MaxChunk : Ptr(e.objs, f, c) = Ptr(d.objs, f, c)
    BY DEF Ptr
  <1>2. RefsOf(e.objs) = RefsOf(d.objs) /\ (Pointed(fl, e.objs) <=> Pointed(fl, d.objs))
    BY <1>1, SameRefs
  <1>. QED
    BY <1>2 DEF Good

----------------------------------------------------------------------------
(* The steps that are left *)

Puts(s, f, c) == s.do \in {"data", "cache"} /\ s.f = f /\ s.c = c
\* Before step i of td nothing is left of chunk c of f.
GoneBy(td, i, objs, f, c) ==
  \E j \in 0 .. i - 1 :
    /\ IF j = 0 THEN objs[f].chunk[c] = NoRef ELSE td[j] = Prune(f, c)
    /\ \A k \in j + 1 .. i - 1 : ~Puts(td[k], f, c)

NoCaching(td, i) == \A k \in 1 .. i - 1 : td[k].do # "cache"
AllGone(td, i, objs, f, n) == \A c \in Chunks : c > n => GoneBy(td, i, objs, f, c)
Flushed(td, i, e) == \E k \in 1 .. i - 1 : td[k].do = "data" /\ td[k].f = e.f /\ td[k].c = e.c

FreesOK(td, objs) ==
  \A i \in 1 .. Len(td) : td[i].do = "free" => NoCaching(td, i) /\ AllGone(td, i, objs, td[i].f, 0)
Shrinks(td, i, objs, cache) ==
  /\ NoCaching(td, i) /\ AllGone(td, i, objs, td[i].f, td[i].n)
  /\ \A e \in cache : e.f = td[i].f /\ e.c > td[i].n => Flushed(td, i, e)
Grows(td, i, objs) ==
  /\ objs[td[i].f].size <= td[i].n
  /\ \A k \in 1 .. i - 1 :
       /\ td[k].do \in {"data", "cache"} /\ td[k].f = td[i].f => td[k].c <= td[i].n
       /\ td[k].do = "size" => td[k].f # td[i].f
SizesOK(td, objs, cache) ==
  \A i \in 1 .. Len(td) : td[i].do = "size" => Shrinks(td, i, objs, cache) \/ Grows(td, i, objs)
FlushesOK(td, objs) ==
  \A i \in 1 .. Len(td) : td[i].do = "data" /\ td[i].reserve =>
    /\ td[i].c <= objs[td[i].f].size
    /\ \A k \in 1 .. i - 1 : td[k].do \notin {"size", "free"}
CopiesOK(td) == \A i \in 1 .. Len(td) : td[i].do = "copy" => i = 1
Todo(td, objs, cache) ==
  FreesOK(td, objs) /\ SizesOK(td, objs, cache) /\ FlushesOK(td, objs) /\ CopiesOK(td)
NoCopies(td) == \A i \in 1 .. Len(td) : td[i].do # "copy"
Calm(td, objs, cache) == Todo(td, objs, cache) /\ NoCopies(td)

\* The fields of an object.
LEMMA ObjectFields ==
  ASSUME NEW o \in Objects
  PROVE  /\ o.size \in 0 .. MaxChunk /\ o.size \in Nat /\ o.hdr \in Refs
         /\ o.chunk \in [Chunks -> Refs]
  <1>1. o.size \in 0 .. MaxChunk /\ o.hdr \in Refs /\ o.chunk \in [Chunks -> Refs]
    BY DEF Objects
  <1>. QED
    BY <1>1

\* The list without its first step.
LEMMA TailIs ==
  ASSUME NEW S, NEW s \in Seq(S), s # <<>>
  PROVE  /\ Tail(s) \in Seq(S) /\ Len(s) \in Nat /\ Len(s) # 0 /\ Len(Tail(s)) = Len(s) - 1
         /\ Head(s) = s[1] /\ s[1] \in S
         /\ \A i \in 1 .. Len(s) - 1 : Tail(s)[i] = s[i + 1] /\ i + 1 \in 1 .. Len(s)
  OBVIOUS

\* What the first step, h, may do to the objects and to the cache.
PopObjs(h, objs, objs2) ==
  /\ \A f \in Files : \A c \in Chunks :
       objs[f].chunk[c] = NoRef /\ ~Puts(h, f, c) => objs2[f].chunk[c] = NoRef
  /\ h.do = "prune" => objs2[h.f].chunk[h.c] = NoRef
PopSizes(h, objs, objs2) ==
  /\ \A f \in Files : \/ objs2[f].size <= objs[f].size
                      \/ h.do \in {"data", "cache"} /\ h.f = f /\ objs2[f].size <= h.c
                      \/ h.do = "size" /\ h.f = f
  /\ h.do \notin {"size", "free"} => \A f \in Files : objs2[f].size >= objs[f].size
PopCache(h, cache, cache2) ==
  h.do # "cache" => \A e \in cache2 :
    e \in cache /\ ~(h.do = "data" /\ h.f = e.f /\ h.c = e.c)

\* What is gone by a step is still gone by it when the first step has been done.
LEMMA PopGone ==
  ASSUME NEW td \in Seq(StepSet), td # <<>>, NEW objs, NEW objs2,
         PopObjs(Head(td), objs, objs2),
         NEW i \in 2 .. Len(td), NEW f \in Files, NEW c \in Chunks, GoneBy(td, i, objs, f, c)
  PROVE  GoneBy(Tail(td), i - 1, objs2, f, c)
  <1>1. /\ Len(td) \in Nat /\ Head(td) = td[1]
        /\ \A k \in 1 .. Len(td) - 1 : Tail(td)[k] = td[k + 1]
    BY TailIs
  <1>2. PICK j \in 0 .. i - 1 :
          /\ IF j = 0 THEN objs[f].chunk[c] = NoRef ELSE td[j] = Prune(f, c)
          /\ \A k \in j + 1 .. i - 1 : ~Puts(td[k], f, c)
    BY DEF GoneBy
  <1>3. CASE j \in {0, 1}
    <2>1. objs2[f].chunk[c] = NoRef
      <3>1. CASE j = 0
        <4>1. ~Puts(td[1], f, c)
          BY <1>1, <1>2, <3>1
        <4>. QED
          BY <1>1, <1>2, <3>1, <4>1 DEF PopObjs
      <3>2. CASE j = 1
        <4>1. Head(td) = Prune(f, c)
          BY <1>1, <1>2, <3>2
        <4>. QED
          BY <4>1 DEF PopObjs, Prune
      <3>. QED
        BY <1>3, <3>1, <3>2
    <2>2. ASSUME NEW k \in 1 .. i - 1 - 1 PROVE ~Puts(Tail(td)[k], f, c)
      <3>1. k + 1 \in j + 1 .. i - 1 /\ k \in 1 .. Len(td) - 1
        BY <1>1, <1>3
      <3>. QED
        BY <1>1, <1>2, <3>1
    <2>3. 0 \in 0 .. i - 1 - 1 /\ 0 + 1 = 1
      OBVIOUS
    <2>. QED
      BY <2>1, <2>2, <2>3 DEF GoneBy
  <1>4. CASE j \notin {0, 1}
    <2>1. j - 1 \in 0 .. i - 1 - 1 /\ j - 1 # 0 /\ j - 1 \in 1 .. Len(td) - 1 /\ (j - 1) + 1 = j
      BY <1>1, <1>4
    <2>2. Tail(td)[j - 1] = Prune(f, c)
      BY <1>1, <1>2, <1>4, <2>1
    <2>3. ASSUME NEW k \in (j - 1) + 1 .. i - 1 - 1 PROVE ~Puts(Tail(td)[k], f, c)
      <3>1. k + 1 \in j + 1 .. i - 1 /\ k \in 1 .. Len(td) - 1
        BY <1>1, <1>4
      <3>. QED
        BY <1>1, <1>2, <3>1
    <2>. QED
      BY <2>1, <2>2, <2>3 DEF GoneBy
  <1>. QED
    BY <1>3, <1>4

\* The first step is done.
LEMMA PopOK ==
  ASSUME NEW td \in Seq(StepSet), td # <<>>, NEW objs \in [Files -> Objects],
         NEW objs2 \in [Files -> Objects],
         NEW cache, cache \subseteq Cachings, NEW cache2, cache2 \subseteq Cachings,
         PopObjs(Head(td), objs, objs2), PopSizes(Head(td), objs, objs2),
         PopCache(Head(td), cache, cache2), Todo(td, objs, cache)
  PROVE  Tail(td) \in Seq(StepSet) /\ Calm(Tail(td), objs2, cache2)
  <1>. DEFINE n == Len(td)
              tl == Tail(td)
              h == Head(td)
  <1>1. /\ tl \in Seq(StepSet) /\ n \in Nat /\ n # 0 /\ Len(tl) = n - 1 /\ h = td[1] /\ h \in StepSet
        /\ \A i \in 1 .. n - 1 : tl[i] = td[i + 1] /\ i + 1 \in 1 .. n
    BY TailIs
  <1>2. \A i \in 1 .. n : td[i] \in StepSet
    OBVIOUS
  <1>s. \A f \in Files : objs[f].size \in Int /\ objs2[f].size \in Int
    BY ObjectFields
  <1>. HIDE DEF n, tl, h
  <1>3. ASSUME NEW i \in 1 .. n - 1, NEW f \in Files, NEW m,
               AllGone(td, i + 1, objs, f, m)
        PROVE  AllGone(tl, i, objs2, f, m)
    <2>1. ASSUME NEW c \in Chunks, c > m PROVE GoneBy(tl, i, objs2, f, c)
      <3>1. i + 1 \in 2 .. Len(td) /\ (i + 1) - 1 = i /\ GoneBy(td, i + 1, objs, f, c)
        BY <1>1, <1>3, <2>1 DEF AllGone, n
      <3>2. GoneBy(Tail(td), (i + 1) - 1, objs2, f, c)
        BY <3>1, PopGone
      <3>. QED
        BY <3>1, <3>2 DEF tl
    <2>. QED
      BY <2>1 DEF AllGone
  <1>4. ASSUME NEW i \in 1 .. n - 1, NoCaching(td, i + 1)
        PROVE  NoCaching(tl, i) /\ h.do # "cache"
    <2>1. \A k \in 1 .. (i + 1) - 1 : td[k].do # "cache"
      BY <1>4 DEF NoCaching
    <2>2. h.do # "cache"
      <3>1. 1 \in 1 .. (i + 1) - 1
        BY <1>1
      <3>. QED
        BY <1>1, <2>1, <3>1
    <2>3. ASSUME NEW k \in 1 .. i - 1 PROVE tl[k].do # "cache"
      <3>1. k + 1 \in 1 .. (i + 1) - 1 /\ k \in 1 .. n - 1
        BY <1>1
      <3>. QED
        BY <1>1, <2>1, <3>1
    <2>. QED
      BY <2>2, <2>3 DEF NoCaching
  <1>5. FreesOK(tl, objs2)
    <2>1. ASSUME NEW i \in 1 .. n - 1, tl[i].do = "free"
          PROVE  NoCaching(tl, i) /\ AllGone(tl, i, objs2, tl[i].f, 0)
      <3>1. td[i + 1] = tl[i] /\ i + 1 \in 1 .. n
        BY <1>1
      <3>2. NoCaching(td, i + 1) /\ AllGone(td, i + 1, objs, tl[i].f, 0)
        BY <2>1, <3>1 DEF Todo, FreesOK, n
      <3>3. tl[i].f \in Files
        BY <1>2, <2>1, <3>1, StepKinds DEF FreeSteps
      <3>. QED
        BY <1>3, <1>4, <3>2, <3>3
    <2>. QED
      BY <1>1, <2>1 DEF FreesOK
  <1>6. SizesOK(tl, objs2, cache2)
    <2>1. ASSUME NEW i \in 1 .. n - 1, tl[i].do = "size"
          PROVE  Shrinks(tl, i, objs2, cache2) \/ Grows(tl, i, objs2)
      <3>. DEFINE s == tl[i]
      <3>1. td[i + 1] = s /\ i + 1 \in 1 .. n /\ i \in Nat
        BY <1>1
      <3>2. s.f \in Files /\ s.n \in Int
        BY <1>2, <2>1, <3>1, StepKinds DEF SizeSteps
      <3>3. Shrinks(td, i + 1, objs, cache) \/ Grows(td, i + 1, objs)
        BY <2>1, <3>1 DEF Todo, SizesOK, n
      <3>4. CASE Shrinks(td, i + 1, objs, cache)
        <4>1. /\ NoCaching(td, i + 1) /\ AllGone(td, i + 1, objs, s.f, s.n)
              /\ \A e \in cache : e.f = s.f /\ e.c > s.n => Flushed(td, i + 1, e)
          BY <3>1, <3>4 DEF Shrinks
        <4>2. NoCaching(tl, i) /\ AllGone(tl, i, objs2, s.f, s.n) /\ h.do # "cache"
          BY <1>3, <1>4, <3>2, <4>1
        <4>3. ASSUME NEW e \in cache2, e.f = s.f, e.c > s.n PROVE Flushed(tl, i, e)
          <5>1. e \in cache /\ ~(h.do = "data" /\ h.f = e.f /\ h.c = e.c)
            BY <4>2 DEF PopCache, h
          <5>2. PICK k \in 1 .. (i + 1) - 1 : td[k].do = "data" /\ td[k].f = e.f /\ td[k].c = e.c
            BY <4>1, <4>3, <5>1 DEF Flushed
          <5>3. k # 1
            BY <1>1, <5>1, <5>2
          <5>4. k - 1 \in 1 .. i - 1 /\ k - 1 \in 1 .. n - 1 /\ (k - 1) + 1 = k
            BY <1>1, <5>3
          <5>5. tl[k - 1] = td[k]
            BY <1>1, <5>4
          <5>. QED
            BY <5>2, <5>4, <5>5 DEF Flushed
        <4>. QED
          BY <4>2, <4>3 DEF Shrinks
      <3>5. CASE Grows(td, i + 1, objs)
        <4>1. /\ objs[s.f].size <= s.n
              /\ \A k \in 1 .. (i + 1) - 1 :
                   /\ td[k].do \in {"data", "cache"} /\ td[k].f = s.f => td[k].c <= s.n
                   /\ td[k].do = "size" => td[k].f # s.f
          BY <3>1, <3>5 DEF Grows
        <4>2. objs2[s.f].size <= s.n
          <5>1. 1 \in 1 .. (i + 1) - 1
            BY <3>1
          <5>2. /\ h.do \in {"data", "cache"} /\ h.f = s.f => h.c <= s.n
                /\ h.do = "size" => h.f # s.f
            BY <1>1, <4>1, <5>1
          <5>3. \/ objs2[s.f].size <= objs[s.f].size
                \/ h.do \in {"data", "cache"} /\ h.f = s.f /\ objs2[s.f].size <= h.c
            BY <3>2, <5>2 DEF PopSizes, h
          <5>4. h.do \in {"data", "cache"} => h.c \in Int
            BY <1>1, StepKinds DEF DataSteps, CacheSteps, Chunks
          <5>. QED
            BY <1>s, <3>2, <4>1, <5>2, <5>3, <5>4
        <4>3. ASSUME NEW k \in 1 .. i - 1
              PROVE  /\ tl[k].do \in {"data", "cache"} /\ tl[k].f = s.f => tl[k].c <= s.n
                     /\ tl[k].do = "size" => tl[k].f # s.f
          <5>1. k + 1 \in 1 .. (i + 1) - 1 /\ k \in 1 .. n - 1
            BY <1>1
          <5>. QED
            BY <1>1, <4>1, <5>1
        <4>. QED
          BY <4>2, <4>3 DEF Grows
      <3>. QED
        BY <3>3, <3>4, <3>5
    <2>. QED
      BY <1>1, <2>1 DEF SizesOK
  <1>7. FlushesOK(tl, objs2)
    <2>1. ASSUME NEW i \in 1 .. n - 1, tl[i].do = "data" /\ tl[i].reserve
          PROVE  /\ tl[i].c <= objs2[tl[i].f].size
                 /\ \A k \in 1 .. i - 1 : tl[k].do \notin {"size", "free"}
      <3>. DEFINE s == tl[i]
      <3>1. td[i + 1] = s /\ i + 1 \in 1 .. n /\ i \in Nat
        BY <1>1
      <3>2. /\ s.c <= objs[s.f].size
            /\ \A k \in 1 .. (i + 1) - 1 : td[k].do \notin {"size", "free"}
        BY <2>1, <3>1 DEF Todo, FlushesOK, n
      <3>3. s.f \in Files /\ s.c \in Int
        BY <1>2, <2>1, <3>1, StepKinds DEF DataSteps, Chunks
      <3>4. 1 \in 1 .. (i + 1) - 1
        BY <3>1
      <3>5. h.do \notin {"size", "free"}
        BY <1>1, <3>2, <3>4
      <3>6. objs2[s.f].size >= objs[s.f].size
        BY <3>3, <3>5 DEF PopSizes, h
      <3>7. ASSUME NEW k \in 1 .. i - 1 PROVE tl[k].do \notin {"size", "free"}
        <4>1. k + 1 \in 1 .. (i + 1) - 1 /\ k \in 1 .. n - 1
          BY <1>1
        <4>. QED
          BY <1>1, <3>2, <4>1
      <3>8. s.c <= objs2[s.f].size
        BY <1>s, <3>2, <3>3, <3>6
      <3>. QED
        BY <3>7, <3>8
    <2>. QED
      BY <1>1, <2>1 DEF FlushesOK
  <1>8. \A i \in 1 .. n - 1 : tl[i].do # "copy"
    <2>1. ASSUME NEW i \in 1 .. n - 1, tl[i].do = "copy" PROVE FALSE
      <3>1. td[i + 1].do = "copy" /\ i + 1 \in 1 .. n /\ i + 1 # 1
        BY <1>1, <2>1
      <3>. QED
        BY <3>1 DEF Todo, CopiesOK, n
    <2>. QED
      BY <2>1
  <1>9. CopiesOK(tl)
    BY <1>1, <1>8 DEF CopiesOK
  <1>. QED
    BY <1>1, <1>5, <1>6, <1>7, <1>8, <1>9 DEF Todo, Calm, NoCopies, tl

\* The collector puts its own step in front of the rest.
LEMMA PrependOK ==
  ASSUME NEW tl \in Seq(StepSet), NEW objs, NEW cache, Calm(tl, objs, cache),
         NEW x \in StepSet, x.do = "copy"
  PROVE  /\ <<x>> \o tl \in Seq(StepSet) /\ <<x>> \o tl # <<>> /\ Head(<<x>> \o tl) = x
         /\ Todo(<<x>> \o tl, objs, cache)
  <1>0. Todo(tl, objs, cache) /\ \A i \in 1 .. Len(tl) : tl[i].do # "copy"
    BY DEF Calm, NoCopies
  <1>. DEFINE n == Len(tl)
              td == <<x>> \o tl
  <1>1. /\ n \in Nat /\ td \in Seq(StepSet) /\ Len(td) = n + 1 /\ td[1] = x
        /\ \A i \in 1 .. n : td[i + 1] = tl[i] /\ i + 1 \in 1 .. n + 1
        /\ td # <<>> /\ Head(td) = x
    OBVIOUS
  <1>2. ASSUME NEW i \in 1 .. n + 1, i # 1 PROVE i - 1 \in 1 .. n /\ (i - 1) + 1 = i /\ td[i] = tl[i - 1]
    <2>1. i - 1 \in 1 .. n /\ (i - 1) + 1 = i
      BY <1>1, <1>2
    <2>. QED
      BY <1>1, <2>1
  <1>. HIDE DEF n, td
  <1>3. ASSUME NEW i \in 2 .. n + 1, NEW f, NEW m, AllGone(tl, i - 1, objs, f, m)
        PROVE  AllGone(td, i, objs, f, m)
    <2>1. ASSUME NEW c \in Chunks, c > m PROVE GoneBy(td, i, objs, f, c)
      <3>1. PICK j \in 0 .. i - 1 - 1 :
              /\ IF j = 0 THEN objs[f].chunk[c] = NoRef ELSE tl[j] = Prune(f, c)
              /\ \A k \in j + 1 .. i - 1 - 1 : ~Puts(tl[k], f, c)
        BY <1>3, <2>1 DEF AllGone, GoneBy
      <3>2. ASSUME NEW k \in j + 1 .. i - 1, k # 1 PROVE ~Puts(td[k], f, c)
        <4>1. k \in 1 .. n + 1 /\ k - 1 \in 1 .. n
          BY <1>1, <3>2
        <4>2. td[k] = tl[k - 1]
          BY <1>2, <3>2, <4>1
        <4>3. j # k - 1 => k - 1 \in j + 1 .. i - 1 - 1
          BY <1>1, <3>2, <4>1
        <4>4. j = k - 1 => ~Puts(td[k], f, c)
          <5>1. SUFFICES ASSUME j = k - 1 PROVE ~Puts(td[k], f, c)
            OBVIOUS
          <5>2. td[k] = Prune(f, c)
            BY <3>1, <4>1, <4>2, <5>1
          <5>. QED
            BY <5>2 DEF Prune, Puts
        <4>. QED
          BY <3>1, <4>2, <4>3, <4>4
      <3>3. ~Puts(td[1], f, c)
        BY <1>1 DEF Puts
      <3>4. CASE j = 0
        <4>1. \A k \in 0 + 1 .. i - 1 : ~Puts(td[k], f, c)
          BY <3>2, <3>3, <3>4
        <4>. QED
          BY <3>1, <3>4, <4>1 DEF GoneBy
      <3>5. CASE j # 0
        <4>1. j + 1 \in 0 .. i - 1 /\ j + 1 # 0 /\ j \in 1 .. n
          BY <1>1, <3>5
        <4>2. td[j + 1] = Prune(f, c)
          BY <1>1, <3>1, <3>5, <4>1
        <4>3. \A k \in (j + 1) + 1 .. i - 1 : k \in j + 1 .. i - 1 /\ k # 1
          BY <3>5
        <4>. QED
          BY <3>2, <4>1, <4>2, <4>3 DEF GoneBy
      <3>. QED
        BY <3>4, <3>5
    <2>. QED
      BY <2>1 DEF AllGone
  <1>4. ASSUME NEW i \in 2 .. n + 1, NoCaching(tl, i - 1) PROVE NoCaching(td, i)
    <2>1. ASSUME NEW k \in 1 .. i - 1 PROVE td[k].do # "cache"
      <3>1. CASE k = 1
        BY <1>1, <3>1
      <3>2. CASE k # 1
        <4>1. k \in 1 .. n + 1 /\ k - 1 \in 1 .. i - 1 - 1
          BY <1>1, <3>2
        <4>. QED
          BY <1>2, <1>4, <3>2, <4>1 DEF NoCaching
      <3>. QED
        BY <3>1, <3>2
    <2>. QED
      BY <2>1 DEF NoCaching
  <1>5. \A i \in 1 .. n + 1 : td[i].do # "copy" => i \in 2 .. n + 1 /\ i # 1 /\ i - 1 \in 1 .. n
    BY <1>1
  <1>6. FreesOK(td, objs)
    <2>1. ASSUME NEW i \in 1 .. n + 1, td[i].do = "free"
          PROVE  NoCaching(td, i) /\ AllGone(td, i, objs, td[i].f, 0)
      <3>1. i \in 2 .. n + 1 /\ i - 1 \in 1 .. n /\ td[i] = tl[i - 1]
        BY <1>2, <1>5, <2>1
      <3>2. NoCaching(tl, i - 1) /\ AllGone(tl, i - 1, objs, td[i].f, 0)
        BY <1>0, <2>1, <3>1 DEF Todo, FreesOK, n
      <3>. QED
        BY <1>3, <1>4, <3>1, <3>2
    <2>. QED
      BY <1>1, <2>1 DEF FreesOK
  <1>7. SizesOK(td, objs, cache)
    <2>1. ASSUME NEW i \in 1 .. n + 1, td[i].do = "size"
          PROVE  Shrinks(td, i, objs, cache) \/ Grows(td, i, objs)
      <3>. DEFINE s == td[i]
      <3>1. i \in 2 .. n + 1 /\ i - 1 \in 1 .. n /\ tl[i - 1] = s
        BY <1>2, <1>5, <2>1
      <3>2. Shrinks(tl, i - 1, objs, cache) \/ Grows(tl, i - 1, objs)
        BY <1>0, <2>1, <3>1 DEF Todo, SizesOK, n
      <3>3. CASE Shrinks(tl, i - 1, objs, cache)
        <4>1. /\ NoCaching(tl, i - 1) /\ AllGone(tl, i - 1, objs, s.f, s.n)
              /\ \A e \in cache : e.f = s.f /\ e.c > s.n => Flushed(tl, i - 1, e)
          BY <3>1, <3>3 DEF Shrinks
        <4>2. ASSUME NEW e \in cache, e.f = s.f, e.c > s.n PROVE Flushed(td, i, e)
          <5>1. PICK k \in 1 .. i - 1 - 1 : tl[k].do = "data" /\ tl[k].f = e.f /\ tl[k].c = e.c
            BY <4>1, <4>2 DEF Flushed
          <5>2. k + 1 \in 1 .. i - 1 /\ k \in 1 .. n
            BY <1>1
          <5>. QED
            BY <1>1, <5>1, <5>2 DEF Flushed
        <4>. QED
          BY <1>3, <1>4, <3>1, <4>1, <4>2 DEF Shrinks
      <3>4. CASE Grows(tl, i - 1, objs)
        <4>1. /\ objs[s.f].size <= s.n
              /\ \A k \in 1 .. i - 1 - 1 :
                   /\ tl[k].do \in {"data", "cache"} /\ tl[k].f = s.f => tl[k].c <= s.n
                   /\ tl[k].do = "size" => tl[k].f # s.f
          BY <3>1, <3>4 DEF Grows
        <4>2. ASSUME NEW k \in 1 .. i - 1
              PROVE  /\ td[k].do \in {"data", "cache"} /\ td[k].f = s.f => td[k].c <= s.n
                     /\ td[k].do = "size" => td[k].f # s.f
          <5>1. CASE k = 1
            BY <1>1, <5>1
          <5>2. CASE k # 1
            <6>1. k \in 1 .. n + 1 /\ k - 1 \in 1 .. i - 1 - 1
              BY <1>1, <5>2
            <6>. QED
              BY <1>2, <4>1, <5>2, <6>1
          <5>. QED
            BY <5>1, <5>2
        <4>. QED
          BY <4>1, <4>2 DEF Grows
      <3>. QED
        BY <3>2, <3>3, <3>4
    <2>. QED
      BY <1>1, <2>1 DEF SizesOK
  <1>8. FlushesOK(td, objs)
    <2>1. ASSUME NEW i \in 1 .. n + 1, td[i].do = "data" /\ td[i].reserve
          PROVE  /\ td[i].c <= objs[td[i].f].size
                 /\ \A k \in 1 .. i - 1 : td[k].do \notin {"size", "free"}
      <3>1. i \in 2 .. n + 1 /\ i - 1 \in 1 .. n /\ td[i] = tl[i - 1]
        BY <1>2, <1>5, <2>1
      <3>2. /\ td[i].c <= objs[td[i].f].size
            /\ \A k \in 1 .. i - 1 - 1 : tl[k].do \notin {"size", "free"}
        BY <1>0, <2>1, <3>1 DEF Todo, FlushesOK, n
      <3>3. ASSUME NEW k \in 1 .. i - 1 PROVE td[k].do \notin {"size", "free"}
        <4>1. CASE k = 1
          BY <1>1, <4>1
        <4>2. CASE k # 1
          <5>1. k \in 1 .. n + 1 /\ k - 1 \in 1 .. i - 1 - 1
            BY <1>1, <4>2
          <5>. QED
            BY <1>2, <3>2, <4>2, <5>1
        <4>. QED
          BY <4>1, <4>2
      <3>. QED
        BY <3>2, <3>3
    <2>. QED
      BY <1>1, <2>1 DEF FlushesOK
  <1>9. CopiesOK(td)
    <2>1. ASSUME NEW i \in 1 .. n + 1, td[i].do = "copy", i # 1 PROVE FALSE
      BY <1>0, <1>2, <2>1 DEF n
    <2>. QED
      BY <1>1, <2>1 DEF CopiesOK
  <1>. QED
    BY <1>1, <1>6, <1>7, <1>8, <1>9 DEF Todo, td

\* Steps that need no other before them.
Soft(s, objs) == /\ s.do \in {"gc", "bggc", "hdr", "end", "cache", "data"}
                 /\ s.do = "data" /\ s.reserve => s.c <= objs[s.f].size
Softs(objs) == {s \in Seq(StepSet) : \A i \in 1 .. Len(s) : Soft(s[i], objs)}

\* Soft steps need nothing of what is before them.
LEMMA SoftOK ==
  ASSUME NEW objs, NEW td \in Softs(objs), NEW cache
  PROVE  td \in Seq(StepSet) /\ Calm(td, objs, cache)
  <1>1. /\ td \in Seq(StepSet) /\ Len(td) \in Nat
        /\ \A i \in 1 .. Len(td) : Soft(td[i], objs)
    BY DEF Softs
  <1>2. FreesOK(td, objs) /\ SizesOK(td, objs, cache) /\ CopiesOK(td)
    BY <1>1 DEF Soft, FreesOK, SizesOK, CopiesOK
  <1>3. ASSUME NEW i \in 1 .. Len(td), td[i].do = "data" /\ td[i].reserve
        PROVE  /\ td[i].c <= objs[td[i].f].size
               /\ \A k \in 1 .. i - 1 : td[k].do \notin {"size", "free"}
    <2>1. td[i].c <= objs[td[i].f].size
      BY <1>1, <1>3 DEF Soft
    <2>2. \A k \in 1 .. i - 1 : k \in 1 .. Len(td)
      BY <1>1
    <2>. QED
      BY <1>1, <2>1, <2>2 DEF Soft
  <1>4. FlushesOK(td, objs)
    BY <1>3 DEF FlushesOK
  <1>5. NoCopies(td)
    BY <1>1 DEF Soft, NoCopies
  <1>. QED
    BY <1>1, <1>2, <1>4, <1>5 DEF Todo, Calm

\* A set of sequences of steps each of which may stand alone is closed.
LEMMA ConcatEach ==
  ASSUME NEW S, NEW s \in Seq(S), NEW t \in Seq(S), NEW P,
         \A i \in 1 .. Len(s) : s[i] \in P, \A i \in 1 .. Len(t) : t[i] \in P
  PROVE  s \o t \in Seq(S) /\ \A i \in 1 .. Len(s \o t) : (s \o t)[i] \in P
  <1>1. /\ s \o t \in Seq(S) /\ Len(s) \in Nat /\ Len(t) \in Nat
        /\ Len(s \o t) = Len(s) + Len(t)
        /\ \A i \in 1 .. Len(s) : (s \o t)[i] = s[i]
        /\ \A i \in 1 .. Len(s) + Len(t) :
             i \in 1 .. Len(s) \/ (i - Len(s) \in 1 .. Len(t) /\ (s \o t)[i] = t[i - Len(s)])
    BY ConcatAt
  <1>. QED
    BY <1>1

\* Soft lists are closed under concatenation.
LEMMA SoftConcat ==
  ASSUME NEW objs, NEW s \in Softs(objs), NEW t \in Softs(objs)
  PROVE  s \o t \in Softs(objs)
  <1>. DEFINE P == {x \in StepSet : Soft(x, objs)}
  <1>1. s \in Seq(StepSet) /\ t \in Seq(StepSet)
    BY DEF Softs
  <1>2. (\A i \in 1 .. Len(s) : s[i] \in P) /\ \A i \in 1 .. Len(t) : t[i] \in P
    BY <1>1 DEF Softs
  <1>3. \A x \in P : Soft(x, objs)
    OBVIOUS
  <1>. HIDE DEF P
  <1>4. s \o t \in Seq(StepSet) /\ \A i \in 1 .. Len(s \o t) : (s \o t)[i] \in P
    BY <1>1, <1>2, ConcatEach
  <1>. QED
    BY <1>3, <1>4 DEF Softs

\* A flush: writes of chunks that their files have.
FlushLike(s, objs) == s.do \in {"gc", "data"} /\ (s.do = "data" => s.c <= objs[s.f].size)
Flushings(objs) == {s \in Seq(StepSet) : \A i \in 1 .. Len(s) : FlushLike(s[i], objs)}

\* A flush is soft.
LEMMA FlushingSoft ==
  ASSUME NEW objs, NEW s \in Flushings(objs)
  PROVE  s \in Softs(objs)
  BY DEF Flushings, FlushLike, Softs, Soft

\* A full cache is flushed before the write goes on.
LEMMA FlushBefore ==
  ASSUME NEW objs \in [Files -> Objects], NEW cache, NEW A \in Flushings(objs),
         NEW td \in Seq(StepSet), td # <<>>, Head(td).do = "cache", Todo(td, objs, cache)
  PROVE  A \o td \in Seq(StepSet) /\ Calm(A \o td, objs, cache)
  <1>. DEFINE a == Len(A)
              n == Len(td)
              s == A \o td
  <1>0. A \in Seq(StepSet)
    BY DEF Flushings
  <1>1. /\ s \in Seq(StepSet) /\ a \in Nat /\ n \in Nat /\ Len(s) = a + n
        /\ \A i \in 1 .. a : s[i] = A[i]
        /\ \A i \in 1 .. n : s[a + i] = td[i]
        /\ \A i \in 1 .. a + n : i \in 1 .. a \/ (i - a \in 1 .. n /\ s[i] = td[i - a])
    BY <1>0, ConcatAt
  <1>2. \A i \in 1 .. a : s[i] \in StepSet /\ FlushLike(s[i], objs)
    BY <1>0, <1>1 DEF Flushings
  <1>3. td[1].do = "cache" /\ n # 0 /\ 1 \in 1 .. n
    BY <1>1, TailIs
  <1>. HIDE DEF a, n, s
  <1>4. \A i \in 1 .. n : td[i].do = "free" => FALSE
    <2>1. ASSUME NEW i \in 1 .. n, td[i].do = "free" PROVE FALSE
      <3>1. i # 1 /\ 1 \in 1 .. i - 1
        BY <1>1, <1>3, <2>1
      <3>2. NoCaching(td, i)
        BY <2>1 DEF Todo, FreesOK, n
      <3>. QED
        BY <1>3, <3>1, <3>2 DEF NoCaching
    <2>. QED
      BY <2>1
  <1>5. FreesOK(s, objs)
    BY <1>1, <1>2, <1>4 DEF FreesOK, FlushLike
  <1>6. SizesOK(s, objs, cache)
    <2>1. ASSUME NEW i \in 1 .. a + n, s[i].do = "size" PROVE Grows(s, i, objs)
      <3>1. i \notin 1 .. a
        BY <1>2, <2>1 DEF FlushLike
      <3>2. i - a \in 1 .. n /\ s[i] = td[i - a] /\ a + (i - a) = i
        BY <1>1, <3>1
      <3>. DEFINE j == i - a
      <3>3. j \in 1 .. n /\ s[i] = td[j] /\ i = a + j /\ j # 1 /\ td[j] \in StepSet
        BY <1>3, <2>1, <3>2 DEF n
      <3>. HIDE DEF j
      <3>4. Shrinks(td, j, objs, cache) \/ Grows(td, j, objs)
        BY <2>1, <3>3 DEF Todo, SizesOK, n
      <3>5. 1 \in 1 .. j - 1
        BY <1>1, <3>3
      <3>6. Grows(td, j, objs)
        BY <1>3, <3>4, <3>5 DEF Shrinks, NoCaching
      <3>7. s[i].f \in Files /\ s[i].n \in Int
        BY <2>1, <3>3, StepKinds DEF SizeSteps
      <3>8. ASSUME NEW k \in 1 .. i - 1
            PROVE  /\ s[k].do \in {"data", "cache"} /\ s[k].f = s[i].f => s[k].c <= s[i].n
                   /\ s[k].do = "size" => s[k].f # s[i].f
        <4>1. CASE k \in 1 .. a
          <5>1. FlushLike(s[k], objs) /\ s[k] \in StepSet
            BY <1>2, <4>1
          <5>2. objs[s[i].f].size <= s[i].n
            BY <3>3, <3>6 DEF Grows
          <5>3. ASSUME s[k].do = "data", s[k].f = s[i].f PROVE s[k].c <= s[i].n
            <6>1. s[k].c \in Int
              BY <5>1, <5>3, StepKinds DEF DataSteps, Chunks
            <6>2. s[k].c <= objs[s[i].f].size /\ objs[s[i].f].size \in Int
              BY <3>7, <5>1, <5>3, ObjectFields DEF FlushLike
            <6>. QED
              BY <3>7, <5>2, <6>1, <6>2
          <5>. QED
            BY <5>1, <5>3 DEF FlushLike
        <4>2. CASE k \notin 1 .. a
          <5>1. k \in 1 .. a + n
            BY <1>1, <3>3
          <5>2. k - a \in 1 .. n /\ s[k] = td[k - a]
            BY <1>1, <4>2, <5>1
          <5>3. k - a \in 1 .. j - 1
            BY <1>1, <3>3, <5>2, SMTT(30)
          <5>. QED
            BY <3>3, <3>6, <5>2, <5>3 DEF Grows
        <4>. QED
          BY <4>1, <4>2
      <3>. QED
        BY <3>3, <3>6, <3>8 DEF Grows
    <2>. QED
      BY <1>1, <2>1 DEF SizesOK
  <1>7. FlushesOK(s, objs)
    <2>1. ASSUME NEW i \in 1 .. a + n, s[i].do = "data" /\ s[i].reserve
          PROVE  /\ s[i].c <= objs[s[i].f].size
                 /\ \A k \in 1 .. i - 1 : s[k].do \notin {"size", "free"}
      <3>1. CASE i \in 1 .. a
        <4>1. \A k \in 1 .. i - 1 : k \in 1 .. a
          BY <1>1, <3>1
        <4>. QED
          BY <1>2, <2>1, <3>1, <4>1 DEF FlushLike
      <3>2. CASE i \notin 1 .. a
        <4>. DEFINE j == i - a
        <4>1. j \in 1 .. n /\ s[i] = td[j] /\ i = a + j
          BY <1>1, <3>2
        <4>. HIDE DEF j
        <4>2. /\ s[i].c <= objs[s[i].f].size
              /\ \A k \in 1 .. j - 1 : td[k].do \notin {"size", "free"}
          BY <2>1, <4>1 DEF Todo, FlushesOK, n
        <4>3. ASSUME NEW k \in 1 .. i - 1 PROVE s[k].do \notin {"size", "free"}
          <5>1. CASE k \in 1 .. a
            BY <1>2, <5>1 DEF FlushLike
          <5>2. CASE k \notin 1 .. a
            <6>1. k \in 1 .. a + n
              BY <1>1, <4>1
            <6>2. k - a \in 1 .. n /\ s[k] = td[k - a]
              BY <1>1, <5>2, <6>1
            <6>3. k - a \in 1 .. j - 1
              BY <1>1, <4>1, <6>2
            <6>. QED
              BY <4>2, <6>2, <6>3
          <5>. QED
            BY <5>1, <5>2
        <4>. QED
          BY <4>2, <4>3
      <3>. QED
        BY <3>1, <3>2
    <2>. QED
      BY <1>1, <2>1 DEF FlushesOK
  <1>8. CopiesOK(s) /\ NoCopies(s)
    <2>1. ASSUME NEW i \in 1 .. a + n, s[i].do = "copy" PROVE FALSE
      <3>1. i \notin 1 .. a
        BY <1>2, <2>1 DEF FlushLike
      <3>2. i - a \in 1 .. n /\ s[i] = td[i - a]
        BY <1>1, <3>1
      <3>3. i - a = 1
        BY <2>1, <3>2 DEF Todo, CopiesOK, n
      <3>. QED
        BY <1>3, <2>1, <3>2, <3>3
    <2>. QED
      BY <1>1, <2>1 DEF CopiesOK, NoCopies
  <1>. QED
    BY <1>1, <1>5, <1>6, <1>7, <1>8 DEF Todo, Calm, s

\* What a file loses is pruned first.
Pruned(s, i, objs, f, n) ==
  \A c \in Chunks : c > n /\ c <= objs[f].size => \E j \in 1 .. i - 1 : s[j] = Prune(f, c)
Tidies(objs) ==
  {s \in Seq(StepSet) : \A i \in 1 .. Len(s) :
     /\ s[i].do \in {"gc", "prune", "size", "hdr", "free", "end"}
     /\ s[i].do = "free" => Pruned(s, i, objs, s[i].f, 0)
     /\ s[i].do = "size" => Pruned(s, i, objs, s[i].f, s[i].n)}

\* Tidying lists are closed under concatenation.
LEMMA TidyConcat ==
  ASSUME NEW objs, NEW s \in Tidies(objs), NEW t \in Tidies(objs)
  PROVE  s \o t \in Tidies(objs)
  <1>. DEFINE a == Len(s)
              u == s \o t
  <1>0. s \in Seq(StepSet) /\ t \in Seq(StepSet)
    BY DEF Tidies
  <1>1. /\ u \in Seq(StepSet) /\ a \in Nat /\ Len(t) \in Nat /\ Len(u) = a + Len(t)
        /\ \A i \in 1 .. a : u[i] = s[i]
        /\ \A i \in 1 .. Len(t) : u[a + i] = t[i]
        /\ \A i \in 1 .. a + Len(t) :
             i \in 1 .. a \/ (i - a \in 1 .. Len(t) /\ u[i] = t[i - a])
    BY <1>0, ConcatAt
  <1>. HIDE DEF a, u
  <1>2. ASSUME NEW i \in 1 .. a, NEW f, NEW n, Pruned(s, i, objs, f, n)
        PROVE  Pruned(u, i, objs, f, n)
    <2>1. \A j \in 1 .. i - 1 : u[j] = s[j]
      BY <1>1
    <2>. QED
      BY <1>2, <2>1 DEF Pruned
  <1>3. ASSUME NEW i \in 1 .. Len(t), NEW f, NEW n, Pruned(t, i, objs, f, n)
        PROVE  Pruned(u, a + i, objs, f, n)
    <2>1. ASSUME NEW c \in Chunks, c > n /\ c <= objs[f].size
          PROVE  \E j \in 1 .. (a + i) - 1 : u[j] = Prune(f, c)
      <3>1. PICK j \in 1 .. i - 1 : t[j] = Prune(f, c)
        BY <1>3, <2>1 DEF Pruned
      <3>2. a + j \in 1 .. (a + i) - 1 /\ u[a + j] = t[j]
        BY <1>1
      <3>. QED
        BY <3>1, <3>2
    <2>. QED
      BY <2>1 DEF Pruned
  <1>4. ASSUME NEW i \in 1 .. Len(u)
        PROVE  /\ u[i].do \in {"gc", "prune", "size", "hdr", "free", "end"}
               /\ u[i].do = "free" => Pruned(u, i, objs, u[i].f, 0)
               /\ u[i].do = "size" => Pruned(u, i, objs, u[i].f, u[i].n)
    <2>1. CASE i \in 1 .. a
      <3>1. /\ s[i].do \in {"gc", "prune", "size", "hdr", "free", "end"}
            /\ s[i].do = "free" => Pruned(s, i, objs, s[i].f, 0)
            /\ s[i].do = "size" => Pruned(s, i, objs, s[i].f, s[i].n)
        BY <2>1 DEF Tidies, a
      <3>. QED
        BY <1>1, <1>2, <2>1, <3>1
    <2>2. CASE i \notin 1 .. a
      <3>. DEFINE k == i - a
      <3>1. k \in 1 .. Len(t) /\ u[i] = t[k] /\ i = a + k
        BY <1>1, <2>2
      <3>. HIDE DEF k
      <3>2. /\ t[k].do \in {"gc", "prune", "size", "hdr", "free", "end"}
            /\ t[k].do = "free" => Pruned(t, k, objs, t[k].f, 0)
            /\ t[k].do = "size" => Pruned(t, k, objs, t[k].f, t[k].n)
        BY <3>1 DEF Tidies
      <3>. QED
        BY <1>3, <3>1, <3>2
    <2>. QED
      BY <2>1, <2>2
  <1>. QED
    BY <1>1, <1>4 DEF Tidies, u

\* A chunk is gone after its prune.
LEMMA GoneAfter ==
  ASSUME NEW td, NEW i, NEW objs, NEW f, NEW c, NEW j \in 0 .. i - 1, j # 0, td[j] = Prune(f, c),
         \A k \in j + 1 .. i - 1 : ~Puts(td[k], f, c)
  PROVE  GoneBy(td, i, objs, f, c)
  BY DEF GoneBy

\* A chunk that is not there is gone from the start.
LEMMA GoneBefore ==
  ASSUME NEW td, NEW i, NEW objs, NEW f, NEW c, 0 \in 0 .. i - 1, objs[f].chunk[c] = NoRef,
         \A k \in 0 + 1 .. i - 1 : ~Puts(td[k], f, c)
  PROVE  GoneBy(td, i, objs, f, c)
  BY DEF GoneBy

\* A flush, and then what may shorten or drop files.
LEMMA FlushThenOK ==
  ASSUME NEW objs \in [Files -> Objects], ChunksInside(objs), NEW cache, cache \subseteq Cachings,
         NEW A \in Flushings(objs), NEW P \in Tidies(objs),
         \A i \in 1 .. Len(P) : P[i].do = "size" => \A e \in cache : e.f = P[i].f =>
           \E k \in 1 .. Len(A) : A[k].do = "data" /\ A[k].f = e.f /\ A[k].c = e.c
  PROVE  A \o P \in Seq(StepSet) /\ Calm(A \o P, objs, cache)
  <1>. DEFINE a == Len(A)
              n == Len(P)
              s == A \o P
  <1>0. A \in Seq(StepSet) /\ P \in Seq(StepSet)
    BY DEF Flushings, Tidies
  <1>1. /\ s \in Seq(StepSet) /\ a \in Nat /\ n \in Nat /\ Len(s) = a + n
        /\ \A i \in 1 .. a : s[i] = A[i]
        /\ \A i \in 1 .. n : s[a + i] = P[i]
        /\ \A i \in 1 .. a + n : i \in 1 .. a \/ (i - a \in 1 .. n /\ s[i] = P[i - a])
    BY <1>0, ConcatAt
  <1>2. \A i \in 1 .. a : s[i] \in StepSet /\ FlushLike(s[i], objs)
    BY <1>0, <1>1 DEF Flushings
  <1>3. \A i \in 1 .. n :
          /\ P[i].do \in {"gc", "prune", "size", "hdr", "free", "end"}
          /\ P[i].do = "free" => Pruned(P, i, objs, P[i].f, 0)
          /\ P[i].do = "size" => Pruned(P, i, objs, P[i].f, P[i].n)
    BY DEF Tidies
  <1>. HIDE DEF a, n, s
  <1>4. ASSUME NEW i \in 1 .. a + n, i \notin 1 .. a
        PROVE  i - a \in 1 .. n /\ s[i] = P[i - a] /\ a + (i - a) = i
    BY <1>1, <1>4
  <1>5. \A i \in 1 .. a + n : s[i].do # "cache" /\ s[i].do # "copy"
    <2>1. ASSUME NEW i \in 1 .. a + n PROVE s[i].do # "cache" /\ s[i].do # "copy"
      <3>1. CASE i \in 1 .. a
        BY <1>2, <3>1 DEF FlushLike
      <3>2. CASE i \notin 1 .. a
        BY <1>3, <1>4, <3>2
      <3>. QED
        BY <3>1, <3>2
    <2>. QED
      BY <2>1
  <1>6. \A i \in 1 .. a + n : NoCaching(s, i)
    <2>1. ASSUME NEW i \in 1 .. a + n, NEW k \in 1 .. i - 1 PROVE s[k].do # "cache"
      <3>1. k \in 1 .. a + n
        BY <1>1
      <3>. QED
        BY <1>5, <3>1
    <2>. QED
      BY <2>1 DEF NoCaching
  <1>7. ASSUME NEW i \in 1 .. n, NEW f \in Files, NEW m \in Nat, Pruned(P, i, objs, f, m)
        PROVE  AllGone(s, a + i, objs, f, m)
    <2>1. ASSUME NEW c \in Chunks, c > m PROVE GoneBy(s, a + i, objs, f, c)
      <3>0. c \in Int /\ objs[f].size \in Int /\ objs[f].size \in 0 .. MaxChunk
        BY ObjectFields DEF Chunks
      <3>1. CASE c <= objs[f].size
        <4>1. PICK j \in 1 .. i - 1 : P[j] = Prune(f, c)
          BY <1>7, <2>1, <3>1 DEF Pruned
        <4>2. a + j \in 0 .. (a + i) - 1 /\ a + j # 0 /\ s[a + j] = Prune(f, c)
          BY <1>1, <4>1, SMTT(30)
        <4>3. ASSUME NEW k \in (a + j) + 1 .. (a + i) - 1 PROVE ~Puts(s[k], f, c)
          <5>1. k \in 1 .. a + n /\ k \notin 1 .. a
            BY <1>1
          <5>. QED
            BY <1>3, <1>4, <5>1 DEF Puts
        <4>. QED
          BY <4>2, <4>3, GoneAfter
      <3>2. CASE ~(c <= objs[f].size)
        <4>1. objs[f].chunk[c] = NoRef
          BY <3>2 DEF ChunksInside
        <4>2. ASSUME NEW k \in 0 + 1 .. (a + i) - 1, Puts(s[k], f, c) PROVE FALSE
          <5>1. k \in 1 .. a + n
            BY <1>1
          <5>2. CASE k \in 1 .. a
            BY <1>2, <3>2, <4>2, <5>2 DEF FlushLike, Puts
          <5>3. CASE k \notin 1 .. a
            BY <1>3, <1>4, <4>2, <5>1, <5>3 DEF Puts
          <5>. QED
            BY <5>2, <5>3
        <4>3. 0 \in 0 .. (a + i) - 1
          BY <1>1
        <4>. QED
          BY <4>1, <4>2, <4>3, GoneBefore
      <3>. QED
        BY <3>1, <3>2
    <2>. QED
      BY <2>1 DEF AllGone
  <1>8. FreesOK(s, objs)
    <2>1. ASSUME NEW i \in 1 .. a + n, s[i].do = "free" PROVE AllGone(s, i, objs, s[i].f, 0)
      <3>1. i \notin 1 .. a
        BY <1>2, <2>1 DEF FlushLike
      <3>. DEFINE j == i - a
      <3>2. j \in 1 .. n /\ s[i] = P[j] /\ a + j = i
        BY <1>4, <3>1
      <3>. HIDE DEF j
      <3>3. Pruned(P, j, objs, s[i].f, 0)
        BY <1>3, <2>1, <3>2
      <3>4. s[i].f \in Files
        BY <1>0, <2>1, <3>2, StepKinds DEF FreeSteps, n
      <3>5. AllGone(s, a + j, objs, s[i].f, 0)
        BY <1>7, <3>2, <3>3, <3>4
      <3>. QED
        BY <3>2, <3>5
    <2>. QED
      BY <1>1, <1>6, <2>1 DEF FreesOK
  <1>9. SizesOK(s, objs, cache)
    <2>1. ASSUME NEW i \in 1 .. a + n, s[i].do = "size" PROVE Shrinks(s, i, objs, cache)
      <3>1. i \notin 1 .. a
        BY <1>2, <2>1 DEF FlushLike
      <3>. DEFINE j == i - a
      <3>2. j \in 1 .. n /\ s[i] = P[j] /\ a + j = i
        BY <1>4, <3>1
      <3>. HIDE DEF j
      <3>3. Pruned(P, j, objs, s[i].f, s[i].n)
        BY <1>3, <2>1, <3>2
      <3>4. s[i].f \in Files /\ s[i].n \in Nat
        BY <1>0, <2>1, <3>2, StepKinds DEF SizeSteps, n
      <3>5. AllGone(s, a + j, objs, s[i].f, s[i].n)
        BY <1>7, <3>2, <3>3, <3>4
      <3>6. ASSUME NEW e \in cache, e.f = s[i].f PROVE Flushed(s, i, e)
        <4>1. PICK k \in 1 .. a : A[k].do = "data" /\ A[k].f = e.f /\ A[k].c = e.c
          BY <2>1, <3>2, <3>6 DEF a, n
        <4>2. k \in 1 .. i - 1 /\ s[k] = A[k]
          BY <1>1, <3>2
        <4>. QED
          BY <4>1, <4>2 DEF Flushed
      <3>. QED
        BY <1>6, <3>2, <3>5, <3>6 DEF Shrinks
    <2>. QED
      BY <1>1, <2>1 DEF SizesOK
  <1>10. FlushesOK(s, objs)
    <2>1. ASSUME NEW i \in 1 .. a + n, s[i].do = "data"
          PROVE  /\ s[i].c <= objs[s[i].f].size
                 /\ \A k \in 1 .. i - 1 : s[k].do \notin {"size", "free"}
      <3>1. CASE i \in 1 .. a
        <4>1. \A k \in 1 .. i - 1 : k \in 1 .. a
          BY <1>1, <3>1
        <4>. QED
          BY <1>2, <2>1, <3>1, <4>1 DEF FlushLike
      <3>2. CASE i \notin 1 .. a
        BY <1>3, <1>4, <2>1, <3>2
      <3>. QED
        BY <3>1, <3>2
    <2>. QED
      BY <1>1, <2>1 DEF FlushesOK
  <1>11. CopiesOK(s) /\ NoCopies(s)
    BY <1>1, <1>5 DEF CopiesOK, NoCopies
  <1>. QED
    BY <1>1, <1>8, <1>9, <1>10, <1>11 DEF Todo, Calm, s

\* What fills the hole before a file grows, and then its new size.
LEMMA GrowOK ==
  ASSUME NEW objs \in [Files -> Objects], NEW cache, NEW f \in Files, NEW m \in 0 .. MaxChunk,
         objs[f].size <= m,
         NEW A \in Softs(objs),
         \A k \in 1 .. Len(A) : A[k].do \in {"data", "cache"} /\ A[k].f = f => A[k].c <= m,
         NEW B \in Seq(StepSet), \A k \in 1 .. Len(B) : B[k].do \in {"gc", "hdr", "end"}
  PROVE  A \o (<<SetSize(f, m)>> \o B) \in Seq(StepSet)
         /\ Calm(A \o (<<SetSize(f, m)>> \o B), objs, cache)
  <1>. DEFINE a == Len(A)
              P == <<SetSize(f, m)>> \o B
              n == Len(P)
              s == A \o P
  <1>z. SetSize(f, m) \in StepSet
    BY DEF SetSize, StepSet, SizeSteps
  <1>0. A \in Seq(StepSet) /\ P \in Seq(StepSet) /\ P[1] = SetSize(f, m)
        /\ \A i \in 1 .. n : i # 1 => P[i].do \in {"gc", "hdr", "end"}
    <2>1. <<SetSize(f, m)>> \in Seq(StepSet) /\ Len(<<SetSize(f, m)>>) = 1
      BY <1>z
    <2>2. \A i \in 1 .. n : i # 1 => i - 1 \in 1 .. Len(B) /\ P[i] = B[i - 1]
      BY <2>1
    <2>. QED
      BY <2>1, <2>2 DEF Softs
  <1>. HIDE DEF P
  <1>1. /\ s \in Seq(StepSet) /\ a \in Nat /\ n \in Nat /\ Len(s) = a + n
        /\ \A i \in 1 .. a : s[i] = A[i]
        /\ \A i \in 1 .. n : s[a + i] = P[i]
        /\ \A i \in 1 .. a + n : i \in 1 .. a \/ (i - a \in 1 .. n /\ s[i] = P[i - a])
    BY <1>0, ConcatAt
  <1>2. \A i \in 1 .. a : Soft(s[i], objs)
    BY <1>1 DEF Softs
  <1>a. \A k \in 1 .. a : s[k].do \in {"data", "cache"} /\ s[k].f = f => s[k].c <= m
    BY <1>1
  <1>. HIDE DEF a, n, s
  <1>4. ASSUME NEW i \in 1 .. a + n, i \notin 1 .. a
        PROVE  (s[i] = SetSize(f, m) /\ i = a + 1) \/ s[i].do \in {"gc", "hdr", "end"}
    <2>1. i - a \in 1 .. n /\ s[i] = P[i - a] /\ a + (i - a) = i
      BY <1>1, <1>4
    <2>. QED
      BY <1>0, <2>1
  <1>5. SetSize(f, m).do = "size" /\ SetSize(f, m).f = f /\ SetSize(f, m).n = m
    BY DEF SetSize
  <1>6. FreesOK(s, objs) /\ CopiesOK(s) /\ NoCopies(s)
    BY <1>1, <1>2, <1>4, <1>5 DEF FreesOK, CopiesOK, NoCopies, Soft
  <1>7. SizesOK(s, objs, cache)
    <2>1. ASSUME NEW i \in 1 .. a + n, s[i].do = "size" PROVE Grows(s, i, objs)
      <3>1. i \notin 1 .. a
        BY <1>2, <2>1 DEF Soft
      <3>2. s[i] = SetSize(f, m) /\ i = a + 1
        BY <1>4, <2>1, <3>1
      <3>3. \A k \in 1 .. i - 1 : k \in 1 .. a
        BY <1>1, <3>2
      <3>. QED
        BY <1>2, <1>5, <1>a, <3>2, <3>3, ZenonT(60) DEF Grows, Soft
    <2>. QED
      BY <1>1, <2>1 DEF SizesOK
  <1>8. FlushesOK(s, objs)
    <2>1. ASSUME NEW i \in 1 .. a + n, s[i].do = "data" /\ s[i].reserve
          PROVE  /\ s[i].c <= objs[s[i].f].size
                 /\ \A k \in 1 .. i - 1 : s[k].do \notin {"size", "free"}
      <3>1. i \in 1 .. a
        BY <1>4, <1>5, <2>1
      <3>2. \A k \in 1 .. i - 1 : k \in 1 .. a
        BY <1>1, <3>1
      <3>. QED
        BY <1>2, <2>1, <3>1, <3>2 DEF Soft
    <2>. QED
      BY <1>1, <2>1 DEF FlushesOK
  <1>. QED
    BY <1>1, <1>6, <1>7, <1>8 DEF Todo, Calm, s, P

\* The sequences of steps of P.
Each(P) == {s \in Seq(StepSet) : \A i \in 1 .. Len(s) : s[i] \in P}

\* Lists of steps of one kind are closed under concatenation.
LEMMA EachOK ==
  ASSUME NEW P
  PROVE  /\ Each(P) \subseteq Seq(StepSet) /\ <<>> \in Each(P)
         /\ \A s, t \in Each(P) : s \o t \in Each(P)
  <1>1. <<>> \in Each(P)
    BY DEF Each
  <1>2. ASSUME NEW s \in Each(P), NEW t \in Each(P) PROVE s \o t \in Each(P)
    <2>1. /\ s \in Seq(StepSet) /\ t \in Seq(StepSet)
          /\ (\A i \in 1 .. Len(s) : s[i] \in P) /\ \A i \in 1 .. Len(t) : t[i] \in P
      BY DEF Each
    <2>2. s \o t \in Seq(StepSet) /\ \A i \in 1 .. Len(s \o t) : (s \o t)[i] \in P
      BY <2>1, ConcatEach
    <2>. QED
      BY <2>2 DEF Each
  <1>. QED
    BY <1>1, <1>2 DEF Each

\* A list of one step.
LEMMA EachOne ==
  ASSUME NEW P, NEW x \in P, x \in StepSet
  PROVE  <<x>> \in Each(P)
  BY DEF Each

\* A list of two steps.
LEMMA EachTwo ==
  ASSUME NEW P, NEW x \in P, NEW y \in P, x \in StepSet, y \in StepSet
  PROVE  <<x, y>> \in Each(P)
  BY DEF Each

\* Concatenation is associative and has <<>> as its unit.
LEMMA ConcatAssoc ==
  ASSUME NEW S, NEW s \in Seq(S), NEW t \in Seq(S), NEW u \in Seq(S)
  PROVE  (s \o t) \o u = s \o (t \o u) /\ s \o <<>> = s /\ <<>> \o s = s
  OBVIOUS

\* Steps.
LEMMA StepTypes ==
  ASSUME NEW f \in Files
  PROVE  /\ Gc \in StepSet /\ BgGc \in StepSet /\ End("done") \in StepSet /\ End("failed") \in StepSet
         /\ Free(f) \in StepSet
         /\ \A n \in 0 .. MaxChunk : SetSize(f, n) \in StepSet
         /\ \A c \in Chunks : Prune(f, c) \in StepSet
         /\ \A c \in Chunks, v \in 0 .. MaxOps : /\ Cache(f, c, v) \in StepSet
                                                 /\ Data(f, c, v, FALSE) \in StepSet
                                                 /\ Data(f, c, v, TRUE) \in StepSet
  <1>1. Gc \in StepSet /\ BgGc \in StepSet /\ End("done") \in StepSet /\ End("failed") \in StepSet
    BY DEF Gc, BgGc, End, StepSet, GcSteps, EndSteps
  <1>2. Free(f) \in StepSet
    BY DEF Free, StepSet, FreeSteps
  <1>3. \A n \in 0 .. MaxChunk : SetSize(f, n) \in StepSet
    BY DEF SetSize, StepSet, SizeSteps
  <1>4. \A c \in Chunks : Prune(f, c) \in StepSet
    BY DEF Prune, StepSet, PruneSteps
  <1>5. ASSUME NEW c \in Chunks, NEW v \in 0 .. MaxOps
        PROVE  /\ Cache(f, c, v) \in StepSet
               /\ Data(f, c, v, FALSE) \in StepSet /\ Data(f, c, v, TRUE) \in StepSet
    <2>1. Cache(f, c, v) \in CacheSteps
      BY DEF Cache, CacheSteps
    <2>2. Data(f, c, v, FALSE) \in DataSteps /\ Data(f, c, v, TRUE) \in DataSteps
      BY DEF Data, DataSteps
    <2>. QED
      BY <2>1, <2>2 DEF StepSet
  <1>. QED
    BY <1>1, <1>2, <1>3, <1>4, <1>5

\* The writing of a header is a step.
LEMMA HdrType ==
  ASSUME NEW f \in Files, NEW dir \in TagDirs \ {""}, NEW name \in Names \cup {""},
         NEW shrink \in BOOLEAN, NEW shadows \in Files \cup {0}
  PROVE  Hdr(f, dir, name, shrink, shadows) \in StepSet
         /\ Hdr(f, dir, name, shrink, shadows).do = "hdr"
  <1>1. Hdr(f, dir, name, shrink, shadows) \in HdrSteps
    BY DEF Hdr, HdrSteps
  <1>2. Hdr(f, dir, name, shrink, shadows).do = "hdr"
    BY DEF Hdr
  <1>. QED
    BY <1>1, <1>2 DEF StepSet

\* The steps that touch no chunk.
Plain == {s \in StepSet : s.do \in {"gc", "bggc", "hdr", "end"}}

\* Steps that touch neither chunks nor sizes.
LEMMA PlainSteps ==
  /\ Gc \in Plain /\ BgGc \in Plain /\ End("done") \in Plain /\ End("failed") \in Plain
  /\ \A x \in Plain : x \in StepSet
  <1>1. Gc.do = "gc" /\ BgGc.do = "bggc" /\ End("done").do = "end" /\ End("failed").do = "end"
    BY DEF Gc, BgGc, End
  <1>2. Gc \in StepSet /\ BgGc \in StepSet /\ End("done") \in StepSet /\ End("failed") \in StepSet
    BY DEF Gc, BgGc, End, StepSet, GcSteps, EndSteps
  <1>. QED
    BY <1>1, <1>2 DEF Plain

\* The positions of a list of two.
LEMMA OneOrTwo ==
  \A i \in 1 .. 2 : i = 1 \/ i = 2
  OBVIOUS

\* yaffs_update_oh is plain.
LEMMA UpdateOhOK ==
  ASSUME NEW f \in Files, NEW dir \in TagDirs \ {""}, NEW name \in Names \cup {""},
         NEW shrink \in BOOLEAN
  PROVE  UpdateOh(f, dir, name, shrink) \in Each(Plain)
         /\ \A i \in 1 .. Len(UpdateOh(f, dir, name, shrink)) :
              UpdateOh(f, dir, name, shrink)[i].do \in {"gc", "hdr"}
  <1>1. Hdr(f, dir, name, shrink, 0) \in StepSet /\ Hdr(f, dir, name, shrink, 0).do = "hdr"
    BY HdrType
  <1>2. Hdr(f, dir, name, shrink, 0) \in Plain
    BY <1>1 DEF Plain
  <1>3. Gc.do = "gc"
    BY DEF Gc
  <1>. DEFINE h == Hdr(f, dir, name, shrink, 0)
  <1>. HIDE DEF h
  <1>4. <<Gc, h>> \in Each(Plain)
    BY <1>2, PlainSteps, EachTwo DEF h
  <1>5. \A i \in 1 .. Len(<<Gc, h>>) : <<Gc, h>>[i].do \in {"gc", "hdr"}
    <2>1. h.do = "hdr"
      BY <1>1 DEF h
    <2>2. Len(<<Gc, h>>) = 2 /\ <<Gc, h>>[1] = Gc /\ <<Gc, h>>[2] = h
      OBVIOUS
    <2>3. \A i \in 1 .. 2 : i = 1 \/ i = 2
      BY OneOrTwo
    <2>. QED
      BY <1>3, <2>1, <2>2, <2>3
  <1>6. UpdateOh(f, dir, name, shrink) = <<Gc, h>>
    BY DEF UpdateOh, h
  <1>. QED
    BY <1>4, <1>5, <1>6

\* Plain lists are soft.
LEMMA PlainSoft ==
  ASSUME NEW objs, NEW s \in Each(Plain)
  PROVE  s \in Softs(objs)
  BY DEF Each, Plain, Softs, Soft

\* What Flush puts for one chunk.
FlushOne(f, c) ==
  LET hit == {e \in Cached(f) : e.c = c}
  IN  IF hit = {} THEN <<>> ELSE <<Gc, Data(f, c, (CHOOSE e \in hit : TRUE).v, TRUE)>>

\* A cached chunk is flushed by one data step.
LEMMA FlushOneOK ==
  ASSUME dev \in Devs, CacheInside(dev), NEW f \in Files, NEW c \in Chunks
  PROVE  /\ FlushOne(f, c) \in Flushings(dev.objs)
         /\ \A e \in dev.cache : e.f = f /\ e.c = c =>
              /\ 2 \in 1 .. Len(FlushOne(f, c))
              /\ FlushOne(f, c)[2].do = "data" /\ FlushOne(f, c)[2].f = f /\ FlushOne(f, c)[2].c = c
  <1>. DEFINE hit == {e \in Cached(f) : e.c = c}
              x == CHOOSE e \in hit : TRUE
              d == Data(f, c, x.v, TRUE)
  <1>1. CASE hit = {}
    <2>1. FlushOne(f, c) = <<>>
      BY <1>1 DEF FlushOne
    <2>. QED
      BY <1>1, <2>1 DEF Flushings, Cached
  <1>2. CASE hit # {}
    <2>1. x \in hit
      BY <1>2
    <2>2. x \in dev.cache /\ x.f = f /\ x.c = c
      BY <2>1 DEF Cached
    <2>. HIDE DEF x
    <2>3. x \in Cachings
      BY <2>2, DevFields
    <2>4. x.v \in 0 .. MaxOps
      BY <2>3 DEF Cachings
    <2>5. d \in StepSet
      BY <2>4, StepTypes
    <2>6. d.do = "data" /\ d.f = f /\ d.c = c /\ Gc.do = "gc"
      BY DEF Data, Gc
    <2>7. c <= dev.objs[f].size
      BY <2>2 DEF CacheInside
    <2>8. FlushOne(f, c) = <<Gc, d>>
      BY <1>2 DEF FlushOne, x
    <2>. HIDE DEF d
    <2>9. Gc \in StepSet
      BY StepTypes
    <2>10. FlushLike(Gc, dev.objs) /\ FlushLike(d, dev.objs)
      BY <2>6, <2>7 DEF FlushLike
    <2>11. <<Gc, d>> \in Seq(StepSet) /\ Len(<<Gc, d>>) = 2 /\ <<Gc, d>>[1] = Gc /\ <<Gc, d>>[2] = d
      BY <2>5, <2>9
    <2>12. <<Gc, d>> \in Flushings(dev.objs)
      BY <2>10, <2>11 DEF Flushings
    <2>. QED
      BY <2>6, <2>8, <2>11, <2>12
  <1>. QED
    BY <1>1, <1>2

\* Flushes are closed under concatenation.
LEMMA FlushingsClosed ==
  ASSUME NEW objs
  PROVE  /\ Flushings(objs) \subseteq Seq(StepSet) /\ <<>> \in Flushings(objs)
         /\ \A s, t \in Flushings(objs) : s \o t \in Flushings(objs)
         /\ <<Gc>> \in Flushings(objs)
  <1>. DEFINE P == {x \in StepSet : FlushLike(x, objs)}
  <1>1. \A s \in Seq(StepSet) : \A i \in 1 .. Len(s) : s[i] \in StepSet
    OBVIOUS
  <1>2. Flushings(objs) = Each(P)
    BY <1>1 DEF Flushings, Each
  <1>3. Gc \in P
    <2>1. Gc \in StepSet /\ Gc.do = "gc"
      BY PlainSteps DEF Gc
    <2>. QED
      BY <2>1 DEF FlushLike
  <1>. HIDE DEF P
  <1>4. <<Gc>> \in Each(P)
    BY <1>3, EachOne, PlainSteps
  <1>. QED
    BY <1>2, <1>4, EachOK

\* yaffs_flush_file_cache writes chunks that the file has, and all that are cached.
LEMMA FlushOK ==
  ASSUME dev \in Devs, CacheInside(dev), NEW f \in Files
  PROVE  /\ Flush(f) \in Flushings(dev.objs)
         /\ \A e \in dev.cache : e.f = f => \E k \in 1 .. Len(Flush(f)) :
              Flush(f)[k].do = "data" /\ Flush(f)[k].f = e.f /\ Flush(f)[k].c = e.c
  <1>. DEFINE ss == [c \in Chunks |-> FlushOne(f, c)]
              G == Flushings(dev.objs)
  <1>1. Flush(f) = FlattenSeq(ss)
    BY DEF Flush, FlushOne
  <1>2. ss \in [1 .. MaxChunk -> G] /\ MaxChunk \in Nat
    BY FlushOneOK, ChunksAre DEF Chunks
  <1>3. G \subseteq Seq(StepSet) /\ <<>> \in G /\ \A s, t \in G : s \o t \in G
    BY FlushingsClosed
  <1>. HIDE DEF G
  <1>4. ss \in [1 .. MaxChunk -> Seq(StepSet)]
    BY <1>2, <1>3
  <1>5. \A c \in Chunks : ss[c] = FlushOne(f, c)
    OBVIOUS
  <1>. HIDE DEF ss
  <1>6. FlattenSeq(ss) \in G
    BY <1>2, <1>3, FlattenIn
  <1>7. ASSUME NEW e \in dev.cache, e.f = f
        PROVE  \E k \in 1 .. Len(FlattenSeq(ss)) :
                 /\ FlattenSeq(ss)[k].do = "data" /\ FlattenSeq(ss)[k].f = e.f
                 /\ FlattenSeq(ss)[k].c = e.c
    <2>1. e.c \in Chunks /\ e.c \in 1 .. MaxChunk
      BY DevFields DEF Cachings, Chunks
    <2>2. /\ 2 \in 1 .. Len(ss[e.c]) /\ ss[e.c][2].do = "data" /\ ss[e.c][2].f = f
          /\ ss[e.c][2].c = e.c
      BY <1>5, <1>7, <2>1, FlushOneOK
    <2>3. \E k \in 1 .. Len(FlattenSeq(ss)) : FlattenSeq(ss)[k] = ss[e.c][2]
      <3>. DEFINE i == 2
                  c == e.c
      <3>1. i \in 1 .. Len(ss[c]) /\ c \in 1 .. MaxChunk /\ MaxChunk \in Nat
        BY <1>2, <2>1, <2>2
      <3>. HIDE DEF i, c
      <3>2. \E k \in 1 .. Len(FlattenSeq(ss)) : FlattenSeq(ss)[k] = ss[c][i]
        <4>1. Occurs(ss[c][i], FlattenSeq(ss))
          BY <1>4, <3>1, FlattenHas
        <4>. QED
          BY <4>1 DEF Occurs
      <3>. QED
        BY <3>2 DEF i, c
    <2>. QED
      BY <1>7, <2>2, <2>3
  <1>. QED
    BY <1>1, <1>6, <1>7 DEF G

\* Without a cache there is nothing to flush.
LEMMA FlushEmpty ==
  ASSUME dev.cache = {}, NEW f
  PROVE  Flush(f) = <<>>
  <1>. DEFINE ss == [c \in Chunks |-> FlushOne(f, c)]
              G == {<<>>}
  <1>1. Flush(f) = FlattenSeq(ss)
    BY DEF Flush, FlushOne
  <1>2. \A c \in Chunks : FlushOne(f, c) = <<>>
    BY DEF FlushOne, Cached
  <1>3. ss \in [1 .. MaxChunk -> G] /\ MaxChunk \in Nat
    BY <1>2, ChunksAre DEF Chunks
  <1>4. G \subseteq Seq(StepSet) /\ <<>> \in G /\ \A s, t \in G : s \o t \in G
    OBVIOUS
  <1>. HIDE DEF ss, G
  <1>5. FlattenSeq(ss) \in G
    BY <1>3, <1>4, FlattenIn
  <1>. QED
    BY <1>1, <1>5 DEF G

\* yaffs_do_file_wr of a chunk within m.
Within(objs, m) ==
  {x \in StepSet : Soft(x, objs) /\ (x.do \in {"data", "cache"} => x.c <= m)}

\* A write puts its own chunk.
LEMMA PutChunkOK ==
  ASSUME NEW objs, NEW f \in Files, NEW c \in Chunks, NEW v \in 0 .. MaxOps, NEW m, c <= m
  PROVE  PutChunk(f, c, v) \in Each(Within(objs, m))
  <1>1. Gc \in Within(objs, m) /\ Gc \in StepSet
    <2>1. Gc \in StepSet /\ Gc.do = "gc"
      BY PlainSteps DEF Gc
    <2>. QED
      BY <2>1 DEF Within, Soft
  <1>2. Data(f, c, v, FALSE) \in Within(objs, m) /\ Data(f, c, v, FALSE) \in StepSet
    <2>1. Data(f, c, v, FALSE) \in StepSet
      BY StepTypes
    <2>2. /\ Data(f, c, v, FALSE).do = "data" /\ Data(f, c, v, FALSE).c = c
          /\ Data(f, c, v, FALSE).reserve = FALSE
      BY DEF Data
    <2>. QED
      BY <2>1, <2>2 DEF Within, Soft
  <1>3. Cache(f, c, v) \in Within(objs, m) /\ Cache(f, c, v) \in StepSet
    <2>1. Cache(f, c, v) \in StepSet
      BY StepTypes
    <2>2. Cache(f, c, v).do = "cache" /\ Cache(f, c, v).c = c
      BY DEF Cache
    <2>. QED
      BY <2>1, <2>2 DEF Within, Soft
  <1>4. <<Gc, Data(f, c, v, FALSE)>> \in Each(Within(objs, m))
    BY <1>1, <1>2, EachTwo
  <1>5. <<Cache(f, c, v)>> \in Each(Within(objs, m))
    BY <1>3, EachOne
  <1>. QED
    BY <1>4, <1>5 DEF PutChunk

\* Plain lists write no chunk.
LEMMA PlainWithin ==
  ASSUME NEW objs, NEW m
  PROVE  Each(Plain) \subseteq Each(Within(objs, m))
  <1>1. Plain \subseteq Within(objs, m)
    BY DEF Plain, Within, Soft
  <1>. QED
    BY <1>1 DEF Each

\* Lists that write chunks up to m are soft.
LEMMA WithinSoft ==
  ASSUME NEW objs, NEW m, NEW s \in Each(Within(objs, m))
  PROVE  s \in Softs(objs) /\ \A i \in 1 .. Len(s) : s[i].do \in {"data", "cache"} => s[i].c <= m
  BY DEF Each, Within, Softs

\* yaffs2_handle_hole of a file that has a name.
LEMMA HandleHoleOK ==
  ASSUME dev \in Devs, NEW f \in Files, dev.objs[f].dir = "root", NEW m \in 0 .. MaxChunk
  PROVE  HandleHole(f, m) \in Each(Within(dev.objs, m))
  <1>. DEFINE old == Obj(f).size
              W == Within(dev.objs, m)
              ss == [i \in 1 .. (m - old) |-> PutChunk(f, old + i, 0)]
  <1>1. Obj(f) \in Objects /\ Obj(f).dir = "root"
    BY DevFields DEF Obj
  <1>n. Obj(f).name \in Names \cup {""}
    BY <1>1 DEF Objects
  <1>2. old \in 0 .. MaxChunk /\ old \in Nat /\ m \in Nat /\ 0 \in 0 .. MaxOps /\ MaxChunk \in Nat
    BY <1>1, ObjectFields, ChunksAre, YaffsAssumption
  <1>3. UpdateOh(f, Obj(f).dir, Obj(f).name, TRUE) \in Each(W)
    <2>1. Obj(f).dir \in TagDirs \ {""}
      BY <1>1 DEF TagDirs
    <2>2. UpdateOh(f, Obj(f).dir, Obj(f).name, TRUE) \in Each(Plain)
      BY <1>n, <2>1, UpdateOhOK
    <2>. QED
      BY <2>2, PlainWithin
  <1>. HIDE DEF old
  <1>4. ASSUME ~(m <= old) PROVE FlattenSeq(ss) \in Each(W)
    <2>1. m - old \in Nat
      BY <1>2, <1>4
    <2>2. \A i \in 1 .. (m - old) : PutChunk(f, old + i, 0) \in Each(W)
      <3>1. ASSUME NEW i \in 1 .. (m - old) PROVE PutChunk(f, old + i, 0) \in Each(W)
        <4>1. old + i \in Chunks /\ old + i <= m
          BY <1>2, <2>1 DEF Chunks
        <4>. QED
          BY <1>2, <4>1, PutChunkOK
      <3>. QED
        BY <3>1
    <2>3. Each(W) \subseteq Seq(StepSet) /\ <<>> \in Each(W) /\ \A s, t \in Each(W) : s \o t \in Each(W)
      BY EachOK
    <2>. HIDE DEF W
    <2>4. ss \in [1 .. (m - old) -> Each(W)]
      BY <2>2
    <2>. HIDE DEF ss
    <2>. QED
      BY <2>1, <2>3, <2>4, FlattenIn
  <1>5. <<>> \in Each(W)
    BY EachOK
  <1>6. CASE m <= old
    <2>0. ~(m > old) /\ (m <= old) = TRUE
      BY <1>2, <1>6
    <2>. DEFINE A == FlattenSeq(ss)
                B == UpdateOh(f, Obj(f).dir, Obj(f).name, TRUE)
                q == AllocAvailable(SmallHole + 1)
    <2>a. HandleHole(f, m) = CASE m <= old -> <<>>
                               [] m > old /\ m - old < SmallHole /\ q -> A
                               [] OTHER -> B
      BY DEF HandleHole, old
    <2>. HIDE DEF A, B, q
    <2>1. HandleHole(f, m) = <<>>
      BY <2>0, <2>a
    <2>. QED
      BY <1>5, <2>1
  <1>7. CASE ~(m <= old)
    <2>1. m > old
      BY <1>2, <1>7
    <2>2. \/ HandleHole(f, m) = FlattenSeq(ss)
          \/ HandleHole(f, m) = UpdateOh(f, Obj(f).dir, Obj(f).name, TRUE)
      BY <1>2, <1>7, <2>1 DEF HandleHole, old
    <2>. QED
      BY <1>3, <1>4, <1>7, <2>2
  <1>. QED
    BY <1>6, <1>7

\* A function on 1 .. n is a sequence.
LEMMA FunIsSeq ==
  ASSUME NEW S, NEW n \in Nat, NEW F \in [1 .. n -> S]
  PROVE  F \in Seq(S) /\ Len(F) = n
  OBVIOUS

\* What occurs in a part occurs in the whole.
LEMMA OccursConcat ==
  ASSUME NEW S, NEW s \in Seq(S), NEW t \in Seq(S), NEW x
  PROVE  /\ Occurs(x, s) => Occurs(x, s \o t)
         /\ Occurs(x, t) => Occurs(x, s \o t)
  <1>1. /\ Len(s) \in Nat /\ Len(t) \in Nat /\ Len(s \o t) = Len(s) + Len(t)
        /\ \A k \in 1 .. Len(s) : (s \o t)[k] = s[k]
        /\ \A k \in 1 .. Len(t) : (s \o t)[Len(s) + k] = t[k]
    BY ConcatAt
  <1>2. ASSUME Occurs(x, s) PROVE Occurs(x, s \o t)
    <2>1. PICK k \in 1 .. Len(s) : s[k] = x
      BY <1>2 DEF Occurs
    <2>2. k \in 1 .. Len(s \o t) /\ (s \o t)[k] = x
      BY <1>1, <2>1
    <2>. QED
      BY <2>2 DEF Occurs
  <1>3. ASSUME Occurs(x, t) PROVE Occurs(x, s \o t)
    <2>1. PICK k \in 1 .. Len(t) : t[k] = x
      BY <1>3 DEF Occurs
    <2>2. Len(s) + k \in 1 .. Len(s \o t) /\ (s \o t)[Len(s) + k] = x
      BY <1>1, <2>1
    <2>. QED
      BY <2>2 DEF Occurs
  <1>. QED
    BY <1>2, <1>3

\* The steps of a deletion or a truncation of f.
Own(f) == {x \in StepSet : x.do = "size" => x.f = f}
Tidied(objs, f) == Tidies(objs) \cap Each(Own(f))
\* Every chunk of f beyond n is pruned.
AllPruned(s, objs, f, n) ==
  \A c \in Chunks : c > n /\ c <= objs[f].size => Occurs(Prune(f, c), s)

\* The lists that tidy one file are closed under concatenation.
LEMMA TidiedConcat ==
  ASSUME NEW objs, NEW f, NEW s \in Tidied(objs, f), NEW t \in Tidied(objs, f)
  PROVE  s \o t \in Tidied(objs, f) /\ s \in Seq(StepSet)
  <1>1. s \in Tidies(objs) /\ t \in Tidies(objs) /\ s \in Each(Own(f)) /\ t \in Each(Own(f))
    BY DEF Tidied
  <1>2. s \o t \in Tidies(objs)
    BY <1>1, TidyConcat
  <1>3. s \o t \in Each(Own(f)) /\ s \in Seq(StepSet)
    BY <1>1, EachOK
  <1>. QED
    BY <1>2, <1>3 DEF Tidied

\* Headers, looks at the collector and ends tidy any file.
LEMMA PlainTidied ==
  ASSUME NEW objs, NEW f, NEW s \in Seq(StepSet),
         \A i \in 1 .. Len(s) : s[i].do \in {"gc", "hdr", "end"}
  PROVE  s \in Tidied(objs, f)
  <1>1. \A i \in 1 .. Len(s) : s[i] \in StepSet
    OBVIOUS
  <1>2. \A i \in 1 .. Len(s) : s[i] \in Own(f)
    BY <1>1 DEF Own
  <1>3. s \in Each(Own(f))
    BY <1>2 DEF Each
  <1>4. s \in Tidies(objs)
    BY DEF Tidies
  <1>. QED
    BY <1>3, <1>4 DEF Tidied

\* The chunks beyond n, the last first.
LEMMA PrunesOK ==
  ASSUME NEW objs, NEW f \in Files, NEW old \in 0 .. MaxChunk, old = objs[f].size,
         NEW n \in 0 .. old, NEW p, p = old - n
  PROVE  /\ [i \in 1 .. p |-> Prune(f, old + 1 - i)] \in Tidied(objs, f)
         /\ AllPruned([i \in 1 .. p |-> Prune(f, old + 1 - i)], objs, f, n)
  <1>. DEFINE s == [i \in 1 .. p |-> Prune(f, old + 1 - i)]
  <1>0. old \in Nat /\ n \in Nat /\ MaxChunk \in Nat /\ p \in Nat /\ n <= old /\ old <= MaxChunk
    BY ChunksAre
  <1>1. \A i \in 1 .. p : old + 1 - i \in Chunks
    BY <1>0 DEF Chunks
  <1>2. \A i \in 1 .. p : Prune(f, old + 1 - i) \in StepSet /\ Prune(f, old + 1 - i).do = "prune"
    <2>1. ASSUME NEW i \in 1 .. p PROVE Prune(f, old + 1 - i) \in StepSet
      BY <1>1, StepTypes
    <2>2. \A c : Prune(f, c).do = "prune"
      BY DEF Prune
    <2>. QED
      BY <2>1, <2>2
  <1>a. /\ s \in [1 .. p -> StepSet]
        /\ \A i \in 1 .. p : s[i] = Prune(f, old + 1 - i)
    BY <1>2
  <1>3. \A i \in 1 .. p : s[i].do = "prune" /\ s[i] \in StepSet
    BY <1>2, <1>a
  <1>. HIDE DEF s
  <1>4. s \in Seq(StepSet) /\ Len(s) = p
    BY <1>0, <1>a, FunIsSeq
  <1>5. s \in Tidies(objs)
    BY <1>3, <1>4 DEF Tidies
  <1>6. s \in Each(Own(f))
    BY <1>3, <1>4 DEF Each, Own
  <1>7. ASSUME NEW c \in Chunks, c > n, c <= old PROVE Occurs(Prune(f, c), s)
    <2>1. c \in Int
      BY DEF Chunks
    <2>. DEFINE i == old + 1 - c
    <2>2. i \in 1 .. p /\ old + 1 - i = c
      BY <1>0, <1>7, <2>1
    <2>. HIDE DEF i
    <2>3. s[i] = Prune(f, c) /\ i \in 1 .. Len(s)
      BY <1>a, <1>4, <2>2
    <2>. QED
      BY <2>3 DEF Occurs
  <1>8. AllPruned(s, objs, f, n)
    BY <1>7 DEF AllPruned
  <1>. QED
    BY <1>5, <1>6, <1>8 DEF Tidied, s

\* A step that needs the chunks gone.
LEMMA TidyLast ==
  ASSUME NEW objs, NEW f \in Files, NEW Z \in Tidied(objs, f), NEW n, AllPruned(Z, objs, f, n),
         NEW x \in StepSet, x.f = f, (x.do = "free" /\ n = 0) \/ (x.do = "size" /\ x.n = n)
  PROVE  Z \o <<x>> \in Tidied(objs, f) /\ AllPruned(Z \o <<x>>, objs, f, n)
  <1>. DEFINE z == Len(Z)
              s == Z \o <<x>>
  <1>1. Z \in Seq(StepSet) /\ Z \in Tidies(objs) /\ Z \in Each(Own(f))
    BY DEF Tidied, Tidies
  <1>2. /\ s \in Seq(StepSet) /\ z \in Nat /\ Len(s) = z + 1 /\ s[z + 1] = x
        /\ \A i \in 1 .. z : s[i] = Z[i]
    BY <1>1
  <1>. HIDE DEF s, z
  <1>3. <<x>> \in Each(Own(f)) /\ <<x>> \in Seq(StepSet)
    <2>1. x \in Own(f)
      BY DEF Own
    <2>2. <<x>> \in Seq(StepSet)
      OBVIOUS
    <2>. QED
      BY <2>1, <2>2, EachOne
  <1>4. s \in Each(Own(f))
    BY <1>1, <1>3, EachOK DEF s
  <1>5. Pruned(s, z + 1, objs, f, n)
    <2>1. ASSUME NEW c \in Chunks, c > n /\ c <= objs[f].size
          PROVE  \E j \in 1 .. (z + 1) - 1 : s[j] = Prune(f, c)
      <3>1. PICK j \in 1 .. z : Z[j] = Prune(f, c)
        BY <2>1 DEF AllPruned, Occurs, z
      <3>2. j \in 1 .. (z + 1) - 1 /\ s[j] = Prune(f, c)
        BY <1>2, <3>1
      <3>. QED
        BY <3>2
    <2>. QED
      BY <2>1 DEF Pruned
  <1>6. ASSUME NEW i \in 1 .. z, NEW g, NEW m, Pruned(Z, i, objs, g, m)
        PROVE  Pruned(s, i, objs, g, m)
    <2>1. \A j \in 1 .. i - 1 : j \in 1 .. z /\ s[j] = Z[j]
      BY <1>2
    <2>. QED
      BY <1>6, <2>1 DEF Pruned
  <1>7. ASSUME NEW i \in 1 .. Len(s)
        PROVE  /\ s[i].do \in {"gc", "prune", "size", "hdr", "free", "end"}
               /\ s[i].do = "free" => Pruned(s, i, objs, s[i].f, 0)
               /\ s[i].do = "size" => Pruned(s, i, objs, s[i].f, s[i].n)
    <2>1. CASE i \in 1 .. z
      <3>1. /\ Z[i].do \in {"gc", "prune", "size", "hdr", "free", "end"}
            /\ Z[i].do = "free" => Pruned(Z, i, objs, Z[i].f, 0)
            /\ Z[i].do = "size" => Pruned(Z, i, objs, Z[i].f, Z[i].n)
        BY <1>1, <2>1 DEF Tidies, z
      <3>. QED
        BY <1>2, <1>6, <2>1, <3>1
    <2>2. CASE i \notin 1 .. z
      <3>1. i = z + 1 /\ s[i] = x
        BY <1>2, <2>2
      <3>. QED
        BY <1>5, <3>1
    <2>. QED
      BY <2>1, <2>2
  <1>8. s \in Tidies(objs)
    BY <1>2, <1>7 DEF Tidies
  <1>9. AllPruned(s, objs, f, n)
    <2>1. ASSUME NEW c \in Chunks, c > n /\ c <= objs[f].size
          PROVE  Occurs(Prune(f, c), s)
      BY <1>1, <1>3, <2>1, OccursConcat DEF AllPruned, s
    <2>. QED
      BY <2>1 DEF AllPruned
  <1>. QED
    BY <1>4, <1>8, <1>9 DEF Tidied, s

\* What a part prunes the whole prunes.
LEMMA AllPrunedConcat ==
  ASSUME NEW objs, NEW f, NEW n, NEW s \in Seq(StepSet), NEW t \in Seq(StepSet),
         AllPruned(s, objs, f, n) \/ AllPruned(t, objs, f, n)
  PROVE  AllPruned(s \o t, objs, f, n)
  BY OccursConcat DEF AllPruned

\* yaffs_generic_obj_del after the flush.
DelPrune(f, objs) ==
  IF objs[f].size = 0 THEN <<>>
  ELSE [i \in 1 .. objs[f].size |-> Prune(f, objs[f].size + 1 - i)] \o <<SetSize(f, 0)>>
DelHdr(f, objs) == IF objs[f].dir = "deleted" THEN <<>> ELSE UpdateOh(f, "deleted", "", TRUE)
DelRest(f, objs) == ((<<Gc>> \o DelPrune(f, objs)) \o DelHdr(f, objs)) \o <<Free(f)>>

Run4(a, b, c, d) == ((a \o b) \o c) \o d
Run5(a, b, c, d, e) == (((a \o b) \o c) \o d) \o e
Regrouped(a, b, c, d, e) == Run5(a, b, c, d, e) = a \o Run4(b, c, d, e)

\* The list of a file that shrinks, grouped as it is proved.
LEMMA Regroup ==
  ASSUME NEW F \in Seq(StepSet), NEW G \in Seq(StepSet), NEW P \in Seq(StepSet),
         NEW U \in Seq(StepSet), NEW X \in Seq(StepSet)
  PROVE  Regrouped(F, G, P, U, X)
  <1>. DEFINE GP == G \o P
              GPU == GP \o U
  <1>1. GP \in Seq(StepSet) /\ (F \o G) \o P = F \o GP
    BY ConcatAssoc, SMTT(30)
  <1>. HIDE DEF GP
  <1>2. GPU \in Seq(StepSet) /\ (F \o GP) \o U = F \o GPU
    BY <1>1, ConcatAssoc, SMTT(30)
  <1>. HIDE DEF GPU
  <1>3. (F \o GPU) \o X = F \o (GPU \o X)
    BY <1>2, ConcatAssoc, SMTT(30)
  <1>. QED
    BY <1>1, <1>2, <1>3 DEF GP, GPU, Run4, Run5, Regrouped

\* A look at the collector tidies any file.
LEMMA GcTidied ==
  ASSUME NEW objs, NEW f
  PROVE  <<Gc>> \in Tidied(objs, f) /\ <<Gc>> \in Seq(StepSet)
  <1>1. <<Gc>> \in Seq(StepSet) /\ <<Gc>>[1].do = "gc" /\ Len(<<Gc>>) = 1
    <2>1. Gc \in StepSet
      BY PlainSteps
    <2>. QED
      BY <2>1 DEF Gc
  <1>. HIDE DEF Gc
  <1>2. \A i \in 1 .. Len(<<Gc>>) : <<Gc>>[i].do \in {"gc", "hdr", "end"}
    BY <1>1
  <1>. QED
    BY <1>1, <1>2, PlainTidied

\* So does nothing.
LEMMA EmptyTidied ==
  ASSUME NEW objs, NEW f
  PROVE  <<>> \in Tidied(objs, f)
  <1>1. <<>> \in Seq(StepSet) /\ \A i \in 1 .. Len(<<>>) : <<>>[i].do \in {"gc", "hdr", "end"}
    OBVIOUS
  <1>. QED
    BY <1>1, PlainTidied

\* The prunes of a deletion leave no chunk (yaffs_prune_chunks).
LEMMA DelPruneOK ==
  ASSUME NEW objs \in [Files -> Objects], NEW f \in Files
  PROVE  DelPrune(f, objs) \in Tidied(objs, f) /\ AllPruned(DelPrune(f, objs), objs, f, 0)
  <1>1. objs[f].size \in 0 .. MaxChunk /\ objs[f].size \in Nat /\ MaxChunk \in Nat
    BY ObjectFields, ChunksAre
  <1>2. CASE objs[f].size = 0
    <2>1. DelPrune(f, objs) = <<>>
      BY <1>2 DEF DelPrune
    <2>2. \A c \in Chunks : ~(c > 0 /\ c <= 0)
      BY DEF Chunks
    <2>. QED
      BY <1>2, <2>1, <2>2, EmptyTidied DEF AllPruned
  <1>3. CASE objs[f].size # 0
    <2>. DEFINE old == objs[f].size
                Z == [i \in 1 .. old |-> Prune(f, old + 1 - i)]
                x == SetSize(f, 0)
    <2>0. 0 \in 0 .. old /\ old = old - 0 /\ 0 \in 0 .. MaxChunk
      BY <1>1
    <2>1. Z \in Tidied(objs, f) /\ AllPruned(Z, objs, f, 0)
      BY <1>1, <2>0, PrunesOK
    <2>2. x \in StepSet
      BY <2>0, StepTypes
    <2>3. x.f = f /\ x.do = "size" /\ x.n = 0
      BY DEF SetSize
    <2>4. DelPrune(f, objs) = Z \o <<x>>
      BY <1>3 DEF DelPrune
    <2>. HIDE DEF Z, x, old
    <2>. QED
      BY <2>1, <2>2, <2>3, <2>4, TidyLast
  <1>. QED
    BY <1>2, <1>3

\* The header of a deletion.
LEMMA DelHdrOK ==
  ASSUME NEW objs, NEW f \in Files
  PROVE  DelHdr(f, objs) \in Tidied(objs, f)
  <1>1. CASE objs[f].dir = "deleted"
    BY <1>1, EmptyTidied DEF DelHdr
  <1>2. CASE objs[f].dir # "deleted"
    <2>. DEFINE u == UpdateOh(f, "deleted", "", TRUE)
    <2>1. "deleted" \in TagDirs \ {""} /\ TRUE \in BOOLEAN
      BY DEF TagDirs
    <2>n. "" \in Names \cup {""}
      OBVIOUS
    <2>2. u \in Each(Plain) /\ \A i \in 1 .. Len(u) : u[i].do \in {"gc", "hdr"}
      BY <2>1, <2>n, UpdateOhOK
    <2>3. u \in Seq(StepSet)
      BY <2>2 DEF Each
    <2>4. DelHdr(f, objs) = u
      BY <1>2 DEF DelHdr
    <2>. HIDE DEF u
    <2>. QED
      BY <2>2, <2>3, <2>4, PlainTidied
  <1>. QED
    BY <1>1, <1>2

\* A deletion after its flush.
LEMMA DelRestOK ==
  ASSUME NEW objs \in [Files -> Objects], NEW f \in Files
  PROVE  DelRest(f, objs) \in Tidied(objs, f)
  <1>. DEFINE A == <<Gc>> \o DelPrune(f, objs)
              B == A \o DelHdr(f, objs)
              x == Free(f)
  <1>0. <<Gc>> \in Tidied(objs, f) /\ DelPrune(f, objs) \in Tidied(objs, f)
        /\ DelHdr(f, objs) \in Tidied(objs, f)
    BY GcTidied, DelPruneOK, DelHdrOK
  <1>1. <<Gc>> \in Seq(StepSet) /\ DelPrune(f, objs) \in Seq(StepSet)
        /\ DelHdr(f, objs) \in Seq(StepSet)
    BY <1>0 DEF Tidied, Tidies
  <1>2. A \in Tidied(objs, f)
    BY <1>0, TidiedConcat
  <1>3. AllPruned(A, objs, f, 0)
    BY <1>1, DelPruneOK, AllPrunedConcat
  <1>. HIDE DEF A
  <1>4. B \in Tidied(objs, f)
    BY <1>0, <1>2, TidiedConcat
  <1>5. A \in Seq(StepSet)
    BY <1>2 DEF Tidied, Tidies
  <1>6. AllPruned(B, objs, f, 0)
    BY <1>1, <1>3, <1>5, AllPrunedConcat
  <1>. HIDE DEF B
  <1>7. x \in StepSet /\ x.f = f /\ x.do = "free"
    BY StepTypes DEF Free
  <1>. HIDE DEF x
  <1>8. B \o <<x>> \in Tidied(objs, f)
    <2>. DEFINE n == 0
    <2>1. AllPruned(B, objs, f, n) /\ ((x.do = "free" /\ n = 0) \/ (x.do = "size" /\ x.n = n))
      BY <1>6, <1>7
    <2>. HIDE DEF n
    <2>. QED
      BY <1>4, <1>7, <2>1, TidyLast
  <1>. QED
    BY <1>8 DEF DelRest, A, B, x

\* yaffs_del_file: a flush, then the rest.
LEMMA DelObjIs ==
  ASSUME dev \in Devs, CacheInside(dev), NEW objs \in [Files -> Objects], NEW f \in Files
  PROVE  DelObj(f, objs) = Flush(f) \o DelRest(f, objs)
  <1>. DEFINE F == Flush(f)
              G == <<Gc>>
              P == DelPrune(f, objs)
              U == DelHdr(f, objs)
              X == <<Free(f)>>
  <1>1. DelObj(f, objs) = Run5(F, G, P, U, X)
    BY DEF DelObj, DelPrune, DelHdr, Run5
  <1>2. DelRest(f, objs) = Run4(G, P, U, X)
    BY DEF DelRest, Run4
  <1>3. F \in Seq(StepSet)
    BY FlushOK DEF Flushings
  <1>4. G \in Seq(StepSet) /\ P \in Seq(StepSet) /\ U \in Seq(StepSet)
    BY GcTidied, DelPruneOK, DelHdrOK DEF Tidied, Tidies
  <1>5. X \in Seq(StepSet)
    <2>1. Free(f) \in StepSet
      BY StepTypes
    <2>. QED
      BY <2>1
  <1>. HIDE DEF F, G, P, U, X
  <1>6. Regrouped(F, G, P, U, X)
    BY <1>3, <1>4, <1>5, Regroup
  <1>. QED
    BY <1>1, <1>2, <1>6 DEF F, Regrouped

\* An object is deleted, with something harmless behind.
LEMMA DeletionOK ==
  ASSUME dev \in Devs, CacheInside(dev), ChunksInside(dev.objs), NEW f \in Files,
         NEW E \in Seq(StepSet), \A i \in 1 .. Len(E) : E[i].do \in {"gc", "hdr", "end"}
  PROVE  /\ DelObj(f, dev.objs) \o E \in Seq(StepSet)
         /\ Calm(DelObj(f, dev.objs) \o E, dev.objs, dev.cache)
  <1>. DEFINE F == Flush(f)
              R == DelRest(f, dev.objs)
              P == R \o E
  <1>1. dev.objs \in [Files -> Objects] /\ dev.cache \subseteq Cachings
    BY DevFields
  <1>2. F \in Flushings(dev.objs) /\ \A e \in dev.cache : e.f = f => \E k \in 1 .. Len(F) :
          F[k].do = "data" /\ F[k].f = e.f /\ F[k].c = e.c
    BY FlushOK
  <1>3. R \in Tidied(dev.objs, f) /\ E \in Tidied(dev.objs, f)
    BY <1>1, DelRestOK, PlainTidied
  <1>4. P \in Tidied(dev.objs, f) /\ R \in Seq(StepSet)
    BY <1>3, TidiedConcat
  <1>5. P \in Tidies(dev.objs) /\ P \in Each(Own(f))
    BY <1>4 DEF Tidied
  <1>6. DelObj(f, dev.objs) \o E = F \o P
    <2>1. F \in Seq(StepSet)
      BY <1>2 DEF Flushings
    <2>2. DelObj(f, dev.objs) = F \o R
      BY <1>1, DelObjIs
    <2>. HIDE DEF F, R
    <2>. QED
      BY <1>4, <2>1, <2>2, ConcatAssoc, SMTT(30)
  <1>. HIDE DEF F, R, P
  <1>7. \A i \in 1 .. Len(P) : P[i].do = "size" => P[i].f = f
    BY <1>5 DEF Each, Own
  <1>8. \A i \in 1 .. Len(P) : P[i].do = "size" => \A e \in dev.cache : e.f = P[i].f =>
           \E k \in 1 .. Len(F) : F[k].do = "data" /\ F[k].f = e.f /\ F[k].c = e.c
    BY <1>2, <1>7
  <1>9. F \o P \in Seq(StepSet) /\ Calm(F \o P, dev.objs, dev.cache)
    BY <1>1, <1>2, <1>5, <1>8, FlushThenOK
  <1>. QED
    BY <1>6, <1>9

\* yaffs_strip_deleted_objs: what a mount leaves to do.
LEMMA StripOK ==
  ASSUME dev \in Devs, dev.cache = {},
         NEW objs \in [Files -> Objects], ChunksInside(objs), NEW fs \in Seq(Files)
  PROVE  /\ FlattenSeq([i \in 1 .. Len(fs) |-> DelObj(fs[i], objs)]) \in Seq(StepSet)
         /\ Calm(FlattenSeq([i \in 1 .. Len(fs) |-> DelObj(fs[i], objs)]), objs, {})
  <1>. DEFINE n == Len(fs)
              ss == [i \in 1 .. n |-> DelObj(fs[i], objs)]
              G == Tidies(objs)
              R == FlattenSeq(ss)
  <1>1. ASSUME NEW f \in Files PROVE DelObj(f, objs) \in G
    <2>1. CacheInside(dev)
      BY DEF CacheInside
    <2>2. DelObj(f, objs) = Flush(f) \o DelRest(f, objs) /\ Flush(f) = <<>>
      BY <2>1, DelObjIs, FlushEmpty
    <2>3. DelRest(f, objs) \in Tidies(objs) /\ DelRest(f, objs) \in Seq(StepSet)
      BY DelRestOK DEF Tidied, Tidies
    <2>4. <<>> \o DelRest(f, objs) = DelRest(f, objs)
      BY <2>3, ConcatAssoc
    <2>. QED
      BY <2>2, <2>3, <2>4
  <1>2. n \in Nat /\ \A i \in 1 .. n : fs[i] \in Files
    OBVIOUS
  <1>3. ss \in [1 .. n -> G]
    BY <1>1, <1>2
  <1>4. G \subseteq Seq(StepSet) /\ <<>> \in G /\ \A s, t \in G : s \o t \in G
    <2>1. <<>> \in G
      BY EmptyTidied DEF Tidied
    <2>2. G \subseteq Seq(StepSet)
      BY DEF Tidies
    <2>. QED
      BY <2>1, <2>2, TidyConcat
  <1>. HIDE DEF n, ss, G
  <1>5. R \in G
    BY <1>2, <1>3, <1>4, FlattenIn
  <1>6. R \in Seq(StepSet) /\ R \in Tidies(objs)
    BY <1>4, <1>5 DEF G
  <1>7. <<>> \in Flushings(objs)
    BY FlushingsClosed
  <1>. HIDE DEF R
  <1>8. <<>> \o R \in Seq(StepSet) /\ Calm(<<>> \o R, objs, {})
    <2>. DEFINE A == <<>>
                cache == {}
    <2>1. cache \subseteq Cachings /\ A \in Flushings(objs)
      BY <1>7
    <2>2. \A i \in 1 .. Len(R) : R[i].do = "size" => \A e \in cache : e.f = R[i].f =>
            \E k \in 1 .. Len(A) : A[k].do = "data" /\ A[k].f = e.f /\ A[k].c = e.c
      OBVIOUS
    <2>. HIDE DEF A, cache
    <2>3. A \o R \in Seq(StepSet) /\ Calm(A \o R, objs, cache)
      BY <1>6, <2>1, <2>2, FlushThenOK
    <2>. QED
      BY <2>3 DEF A, cache
  <1>9. <<>> \o R = R
    BY <1>6, ConcatAssoc
  <1>. QED
    BY <1>8, <1>9 DEF R, ss, n

\* A list of files in some order is a list of files.
LEMMA SomeOrderOf ==
  ASSUME NEW S, S \subseteq Files, NEW u \in SetToSeqs(S)
  PROVE  u \in Seq(Files)
  <1>1. IsFiniteSet(S)
    BY YaffsAssumption, FS_Subset
  <1>2. Cardinality(S) \in Nat
    BY <1>1, FS_CardinalityType
  <1>3. u \in [1 .. Cardinality(S) -> S]
    BY DEF SetToSeqs
  <1>4. u \in Seq(S)
    BY <1>2, <1>3, FunIsSeq
  <1>. QED
    BY <1>4

----------------------------------------------------------------------------
(* What the operations of users leave to do *)

\* A soft operation and its end.
LEMMA SoftEnd ==
  ASSUME NEW objs, NEW cache, NEW s \in Softs(objs)
  PROVE  s \o <<End("done")>> \in Seq(StepSet) /\ Calm(s \o <<End("done")>>, objs, cache)
  <1>1. <<End("done")>> \in Each(Plain)
    BY PlainSteps, EachOne
  <1>2. <<End("done")>> \in Softs(objs)
    BY <1>1, PlainSoft
  <1>3. s \o <<End("done")>> \in Softs(objs)
    BY <1>2, SoftConcat
  <1>. QED
    BY <1>3, SoftOK

\* The header of a file that has a name.
LEMMA SameOhOK ==
  ASSUME dev \in Devs, NEW f \in Files, dev.objs[f].dir = "root"
  PROVE  /\ SameOh(f) \in Each(Plain) /\ SameOh(f) \in Softs(dev.objs)
         /\ \A i \in 1 .. Len(SameOh(f)) : SameOh(f)[i].do \in {"gc", "hdr"}
  <1>. DEFINE n == Obj(f).name
  <1>1. Obj(f) \in Objects /\ Obj(f).dir = "root"
    BY DevFields DEF Obj
  <1>n. Obj(f).name \in Names \cup {""}
    BY <1>1 DEF Objects
  <1>2. "root" \in TagDirs \ {""} /\ FALSE \in BOOLEAN
    BY DEF TagDirs
  <1>. DEFINE u == UpdateOh(f, "root", n, FALSE)
  <1>3. SameOh(f) = u
    BY <1>1 DEF SameOh
  <1>4. u \in Each(Plain) /\ \A i \in 1 .. Len(u) : u[i].do \in {"gc", "hdr"}
    BY <1>n, <1>2, UpdateOhOK
  <1>. HIDE DEF u
  <1>. QED
    BY <1>3, <1>4, PlainSoft

\* yaffs_create_obj is soft.
LEMMA CreateOK ==
  ASSUME NEW f \in Files, NEW n \in Names, NEW objs
  PROVE  UpdateOh(f, "root", n, FALSE) \in Softs(objs)
  <1>n. n \in Names \cup {""}
    OBVIOUS
  <1>1. "root" \in TagDirs \ {""} /\ FALSE \in BOOLEAN
    BY DEF TagDirs
  <1>2. UpdateOh(f, "root", n, FALSE) \in Each(Plain)
    BY <1>n, <1>1, UpdateOhOK
  <1>. QED
    BY <1>2, PlainSoft

\* yaffs_unlink is soft.
LEMMA UnlinkOK ==
  ASSUME NEW f \in Files, NEW objs
  PROVE  UpdateOh(f, "unlinked", "", FALSE) \in Softs(objs)
  <1>n. "" \in Names \cup {""}
    OBVIOUS
  <1>1. "unlinked" \in TagDirs \ {""} /\ FALSE \in BOOLEAN
    BY DEF TagDirs
  <1>2. UpdateOh(f, "unlinked", "", FALSE) \in Each(Plain)
    BY <1>n, <1>1, UpdateOhOK
  <1>. QED
    BY <1>2, PlainSoft

\* yaffs_wr_file is soft: a hole and then the chunk.
LEMMA WriteOK ==
  ASSUME dev \in Devs, NEW f \in Files, dev.objs[f].dir = "root", NEW c \in Chunks,
         NEW v \in 0 .. MaxOps
  PROVE  HandleHole(f, c - 1) \o PutChunk(f, c, v) \in Softs(dev.objs)
  <1>1. c \in Nat /\ c - 1 \in 0 .. MaxChunk /\ c <= c
    BY ChunksAre DEF Chunks
  <1>2. HandleHole(f, c - 1) \in Softs(dev.objs)
    <2>. DEFINE m == c - 1
    <2>1. m \in 0 .. MaxChunk
      BY <1>1
    <2>. HIDE DEF m
    <2>2. HandleHole(f, m) \in Softs(dev.objs)
      BY <2>1, HandleHoleOK, WithinSoft
    <2>. QED
      BY <2>2 DEF m
  <1>3. PutChunk(f, c, v) \in Softs(dev.objs)
    BY <1>1, PutChunkOK, WithinSoft
  <1>. QED
    BY <1>2, <1>3, SoftConcat

\* yaffs_sync_object is soft.
LEMMA FsyncOK ==
  ASSUME dev \in Devs, CacheInside(dev), NEW f \in Files, dev.objs[f].dir = "root"
  PROVE  (IF Obj(f).dirty THEN Flush(f) \o SameOh(f) ELSE <<>>) \in Softs(dev.objs)
  <1>1. Flush(f) \in Softs(dev.objs) /\ SameOh(f) \in Softs(dev.objs)
    BY FlushOK, FlushingSoft, SameOhOK
  <1>2. Flush(f) \o SameOh(f) \in Softs(dev.objs)
    BY <1>1, SoftConcat
  <1>3. <<>> \in Softs(dev.objs)
    BY DEF Softs
  <1>. QED
    BY <1>2, <1>3

\* What a change of the size to n does between the flush and the last header.
ResizeMid(f, n) ==
  IF n = Obj(f).size THEN <<>>
  ELSE ((IF n > Obj(f).size THEN HandleHole(f, n)
         ELSE [i \in 1 .. (Obj(f).size - n) |-> Prune(f, Obj(f).size + 1 - i)])
        \o <<SetSize(f, n)>>) \o SameOh(f)

\* Four tidying lists make one.
LEMMA Tidied4 ==
  ASSUME NEW objs, NEW f, NEW G \in Tidied(objs, f), NEW P \in Tidied(objs, f),
         NEW U \in Tidied(objs, f), NEW X \in Tidied(objs, f)
  PROVE  Run4(G, P, U, X) \in Tidied(objs, f)
  <1>. DEFINE GP == G \o P
              GPU == GP \o U
  <1>1. GP \in Tidied(objs, f)
    BY TidiedConcat
  <1>. HIDE DEF GP
  <1>2. GPU \in Tidied(objs, f)
    BY <1>1, TidiedConcat
  <1>. HIDE DEF GPU
  <1>3. GPU \o X \in Tidied(objs, f)
    BY <1>2, TidiedConcat
  <1>. QED
    BY <1>3 DEF Run4, GP, GPU

\* A file that becomes no longer.
LEMMA ShrinkMid ==
  ASSUME dev \in Devs, NEW f \in Files, dev.objs[f].dir = "root",
         NEW n \in 0 .. MaxChunk, n <= dev.objs[f].size
  PROVE  ResizeMid(f, n) \in Tidied(dev.objs, f)
  <1>. DEFINE old == dev.objs[f].size
              p == old - n
              Z == [i \in 1 .. p |-> Prune(f, old + 1 - i)]
              x == SetSize(f, n)
  <1>1. dev.objs[f] \in Objects /\ Obj(f) = dev.objs[f]
    BY DevFields DEF Obj
  <1>2. old \in 0 .. MaxChunk /\ old \in Nat /\ n \in Nat /\ n \in 0 .. old
    BY <1>1, ObjectFields, ChunksAre
  <1>3. CASE n = old
    BY <1>1, <1>3, EmptyTidied DEF ResizeMid
  <1>4. CASE n # old
    <2>1. ~(n > old)
      BY <1>2
    <2>2. Z \in Tidied(dev.objs, f) /\ AllPruned(Z, dev.objs, f, n)
      BY <1>2, PrunesOK
    <2>3. x \in StepSet /\ x.f = f /\ x.do = "size" /\ x.n = n
      BY StepTypes DEF SetSize
    <2>. DEFINE Zx == Z \o <<x>>
    <2>4. ResizeMid(f, n) = Zx \o SameOh(f)
      BY <1>1, <1>4, <2>1 DEF ResizeMid
    <2>. HIDE DEF Z, x
    <2>5. Zx \in Tidied(dev.objs, f)
      BY <2>2, <2>3, TidyLast
    <2>6. SameOh(f) \in Tidied(dev.objs, f)
      <3>1. SameOh(f) \in Seq(StepSet)
        BY SameOhOK DEF Each
      <3>2. \A i \in 1 .. Len(SameOh(f)) : SameOh(f)[i].do \in {"gc", "hdr", "end"}
        BY SameOhOK
      <3>. QED
        BY <3>1, <3>2, PlainTidied
    <2>. HIDE DEF Zx
    <2>7. Zx \o SameOh(f) \in Tidied(dev.objs, f)
      BY <2>5, <2>6, TidiedConcat
    <2>. QED
      BY <2>4, <2>7
  <1>. QED
    BY <1>3, <1>4

\* The end of an operation tidies any file.
LEMMA EndTidied ==
  ASSUME NEW objs, NEW f
  PROVE  <<End("done")>> \in Tidied(objs, f) /\ <<End("done")>> \in Seq(StepSet)
  <1>. DEFINE x == End("done")
  <1>1. x.do = "end" /\ x \in StepSet
    BY PlainSteps DEF End
  <1>. HIDE DEF x
  <1>2. <<x>> \in Seq(StepSet) /\ \A i \in 1 .. Len(<<x>>) : <<x>>[i].do \in {"gc", "hdr", "end"}
    BY <1>1
  <1>. QED
    BY <1>2, PlainTidied DEF x

\* So does the header of a file that has a name.
LEMMA SameOhTidied ==
  ASSUME dev \in Devs, NEW f \in Files, dev.objs[f].dir = "root", NEW objs
  PROVE  SameOh(f) \in Tidied(objs, f) /\ SameOh(f) \in Seq(StepSet)
  <1>1. SameOh(f) \in Seq(StepSet)
    BY SameOhOK DEF Each
  <1>2. \A i \in 1 .. Len(SameOh(f)) : SameOh(f)[i].do \in {"gc", "hdr", "end"}
    BY SameOhOK
  <1>. QED
    BY <1>1, <1>2, PlainTidied

\* yaffs_resize_file to a smaller size or the same.
LEMMA ShrinkOK ==
  ASSUME dev \in Devs, CacheInside(dev), ChunksInside(dev.objs), NEW f \in Files,
         dev.objs[f].dir = "root", NEW n \in 0 .. MaxChunk, n <= dev.objs[f].size,
         NEW M, M = ResizeMid(f, n)
  PROVE  /\ Run5(Flush(f), <<Gc>>, M, SameOh(f), <<End("done")>>) \in Seq(StepSet)
         /\ Calm(Run5(Flush(f), <<Gc>>, M, SameOh(f), <<End("done")>>),
                 dev.objs, dev.cache)
  <1>. DEFINE F == Flush(f)
              G == <<Gc>>
              U == SameOh(f)
              X == <<End("done")>>
              P == Run4(G, M, U, X)
              objs == dev.objs
              cache == dev.cache
  <1>1. G \in Tidied(objs, f) /\ M \in Tidied(objs, f) /\ U \in Tidied(objs, f) /\ X \in Tidied(objs, f)
    BY GcTidied, ShrinkMid, SameOhTidied, EndTidied
  <1>2. F \in Flushings(objs) /\ \A e \in cache : e.f = f => \E k \in 1 .. Len(F) :
          F[k].do = "data" /\ F[k].f = e.f /\ F[k].c = e.c
    BY FlushOK
  <1>3. objs \in [Files -> Objects] /\ cache \subseteq Cachings /\ ChunksInside(objs)
    BY DevFields
  <1>4. F \in Seq(StepSet)
    BY <1>2 DEF Flushings
  <1>5. G \in Seq(StepSet) /\ M \in Seq(StepSet) /\ U \in Seq(StepSet) /\ X \in Seq(StepSet)
    BY <1>1 DEF Tidied, Tidies
  <1>. HIDE DEF F, G, U, X, objs, cache
  <1>6. P \in Tidied(objs, f)
    BY <1>1, Tidied4
  <1>7. Regrouped(F, G, M, U, X)
    BY <1>4, <1>5, Regroup
  <1>8. Run5(F, G, M, U, X) = F \o P
    BY <1>7 DEF Regrouped
  <1>. HIDE DEF P
  <1>9. P \in Tidies(objs) /\ \A i \in 1 .. Len(P) : P[i].do = "size" => P[i].f = f
    BY <1>6 DEF Tidied, Each, Own
  <1>10. \A i \in 1 .. Len(P) : P[i].do = "size" => \A e \in cache : e.f = P[i].f =>
           \E k \in 1 .. Len(F) : F[k].do = "data" /\ F[k].f = e.f /\ F[k].c = e.c
    BY <1>2, <1>9
  <1>11. F \o P \in Seq(StepSet) /\ Calm(F \o P, objs, cache)
    BY <1>2, <1>3, <1>9, <1>10, FlushThenOK
  <1>12. Run5(F, G, M, U, X) \in Seq(StepSet) /\ Calm(Run5(F, G, M, U, X), objs, cache)
    BY <1>8, <1>11
  <1>. QED
    BY <1>12 DEF F, G, U, X, objs, cache

Regrown(F, G, H, Z, L, T, X) ==
  Run5(F, G, (H \o Z) \o L, T, X) = ((F \o G) \o H) \o (Z \o ((L \o T) \o X))

Assoc(a, b, c) == (a \o b) \o c = a \o (b \o c)

\* Two ways to put three lists together.
LEMMA AssocOK ==
  ASSUME NEW a \in Seq(StepSet), NEW b \in Seq(StepSet), NEW c \in Seq(StepSet)
  PROVE  Assoc(a, b, c)
  BY ConcatAssoc DEF Assoc

\* Two lists of steps make a list of steps.
LEMMA ConcatIn ==
  ASSUME NEW a \in Seq(StepSet), NEW b \in Seq(StepSet)
  PROVE  a \o b \in Seq(StepSet)
  OBVIOUS

\* The list of a file that grows, grouped as it is proved.
LEMMA RegrowOK ==
  ASSUME NEW F \in Seq(StepSet), NEW G \in Seq(StepSet), NEW H \in Seq(StepSet),
         NEW Z \in Seq(StepSet), NEW L \in Seq(StepSet), NEW T \in Seq(StepSet),
         NEW X \in Seq(StepSet)
  PROVE  Regrown(F, G, H, Z, L, T, X)
  <1>. DEFINE A1 == F \o G
              ZL == Z \o L
              A == A1 \o H
              LT == L \o T
              ZLT == Z \o LT
              E == LT \o X
  <1>1. A1 \in Seq(StepSet) /\ ZL \in Seq(StepSet) /\ LT \in Seq(StepSet)
    BY ConcatIn
  <1>2. Assoc(H, Z, L) /\ Assoc(Z, L, T)
    BY AssocOK
  <1>3. (H \o Z) \o L = H \o ZL /\ ZL \o T = ZLT
    BY <1>2 DEF Assoc
  <1>4. (F \o G) = A1 /\ A1 \o H = A /\ L \o T = LT /\ LT \o X = E
    OBVIOUS
  <1>. HIDE DEF A1, ZL, LT
  <1>5. A \in Seq(StepSet) /\ ZLT \in Seq(StepSet)
    BY <1>1, ConcatIn
  <1>6. Assoc(A1, H, ZL) /\ Assoc(Z, LT, X)
    BY <1>1, AssocOK
  <1>7. A1 \o (H \o ZL) = A \o ZL /\ ZLT \o X = Z \o E
    BY <1>6 DEF Assoc
  <1>. HIDE DEF A, ZLT, E
  <1>8. Assoc(A, ZL, T) /\ Assoc(A, ZLT, X)
    BY <1>1, <1>5, AssocOK
  <1>9. (A \o ZL) \o T = A \o ZLT /\ (A \o ZLT) \o X = A \o (Z \o E)
    BY <1>3, <1>7, <1>8 DEF Assoc
  <1>10. Run5(F, G, (H \o Z) \o L, T, X) = A \o (Z \o E)
    BY <1>3, <1>4, <1>7, <1>9 DEF Run5
  <1>. QED
    BY <1>4, <1>10 DEF Regrown

\* Steps that write nothing of f beyond m.
UpTo(objs, f, m) ==
  {x \in StepSet : Soft(x, objs) /\ (x.do \in {"data", "cache"} /\ x.f = f => x.c <= m)}

\* yaffs_resize_file to a larger size.
LEMMA GrowingOK ==
  ASSUME dev \in Devs, CacheInside(dev), NEW f \in Files,
         dev.objs[f].dir = "root", NEW n \in 0 .. MaxChunk, n > dev.objs[f].size,
         NEW M, M = ResizeMid(f, n)
  PROVE  /\ Run5(Flush(f), <<Gc>>, M, SameOh(f), <<End("done")>>) \in Seq(StepSet)
         /\ Calm(Run5(Flush(f), <<Gc>>, M, SameOh(f), <<End("done")>>),
                 dev.objs, dev.cache)
  <1>. DEFINE F == Flush(f)
              G == <<Gc>>
              H == HandleHole(f, n)
              Z == <<SetSize(f, n)>>
              U == SameOh(f)
              X == <<End("done")>>
              objs == dev.objs
              cache == dev.cache
              W == UpTo(objs, f, n)
              A == (F \o G) \o H
              B == (U \o U) \o X
  <1>1. objs \in [Files -> Objects] /\ objs[f].size \in Nat /\ n \in Nat
    <2>1. dev.objs[f] \in Objects /\ dev.objs \in [Files -> Objects]
      BY DevFields
    <2>. QED
      BY <2>1, ObjectFields, ChunksAre
  <1>2. M = (H \o Z) \o U
    <2>1. n # Obj(f).size /\ n > Obj(f).size
      BY <1>1 DEF Obj
    <2>. QED
      BY <2>1 DEF ResizeMid
  <1>3. F \in Each(W)
    <2>1. F \in Seq(StepSet) /\ F \in Softs(objs)
      BY FlushOK, FlushingSoft DEF Flushings
    <2>2. \A i \in 1 .. Len(F) : F[i] \in StepSet /\ FlushLike(F[i], objs)
      BY FlushOK DEF Flushings
    <2>3. ASSUME NEW i \in 1 .. Len(F), F[i].do = "data", F[i].f = f PROVE F[i].c <= n
      <3>1. F[i].c \in Int /\ F[i].c <= objs[f].size
        <4>. DEFINE x == F[i]
        <4>1. x \in StepSet /\ FlushLike(x, objs) /\ x.do = "data" /\ x.f = f
          BY <2>2, <2>3
        <4>. HIDE DEF x, F, objs
        <4>2. x \in DataSteps /\ x.c <= objs[f].size
          BY <4>1, StepKinds DEF FlushLike
        <4>3. x.c \in Chunks
          BY <4>2 DEF DataSteps
        <4>4. x.c \in Int
          BY <4>3 DEF Chunks
        <4>. QED
          BY <4>2, <4>4 DEF x
      <3>. QED
        BY <1>1, <3>1
    <2>4. \A i \in 1 .. Len(F) : F[i].do # "cache"
      BY <2>2 DEF FlushLike
    <2>5. \A i \in 1 .. Len(F) : F[i] \in W
      BY <2>1, <2>2, <2>3, <2>4 DEF UpTo, Softs
    <2>. QED
      BY <2>1, <2>5 DEF Each
  <1>4. G \in Each(W)
    <2>1. Gc \in StepSet /\ Gc.do = "gc"
      BY PlainSteps DEF Gc
    <2>2. Gc \in W
      BY <2>1 DEF UpTo, Soft
    <2>. QED
      BY <2>1, <2>2, EachOne
  <1>5. H \in Each(W)
    <2>1. H \in Each(Within(objs, n))
      BY HandleHoleOK
    <2>2. Within(objs, n) \subseteq W
      BY DEF Within, UpTo
    <2>. HIDE DEF H, W
    <2>. QED
      BY <2>1, <2>2 DEF Each
  <1>6. U \in Seq(StepSet) /\ X \in Seq(StepSet)
    BY SameOhTidied, EndTidied
  <1>7. Z \in Seq(StepSet)
    <2>1. SetSize(f, n) \in StepSet
      BY StepTypes
    <2>. QED
      BY <2>1
  <1>8. U \in Each(Plain) /\ X \in Each(Plain)
        /\ \A i \in 1 .. Len(U) : U[i].do \in {"gc", "hdr"}
    BY SameOhOK, PlainSteps, EachOne
  <1>9. /\ \A i \in 1 .. Len(U) : U[i].do \in {"gc", "hdr", "end"}
        /\ \A i \in 1 .. Len(X) : X[i].do \in {"gc", "hdr", "end"}
    <2>. DEFINE x == End("done")
    <2>1. x.do = "end"
      BY DEF End
    <2>. HIDE DEF x
    <2>2. \A i \in 1 .. Len(<<x>>) : <<x>>[i].do \in {"gc", "hdr", "end"}
      BY <2>1
    <2>. QED
      BY <1>8, <2>2 DEF x
  <1>. HIDE DEF F, G, H, Z, U, X, objs, cache, W
  <1>10. F \in Seq(StepSet) /\ G \in Seq(StepSet) /\ H \in Seq(StepSet)
    BY <1>3, <1>4, <1>5 DEF Each
  <1>11. A \in Each(W)
    <2>1. F \o G \in Each(W)
      BY <1>3, <1>4, EachOK
    <2>. DEFINE FG == F \o G
    <2>2. FG \in Each(W)
      BY <2>1
    <2>. HIDE DEF FG
    <2>3. FG \o H \in Each(W)
      BY <1>5, <2>2, EachOK
    <2>. QED
      BY <2>3 DEF FG
  <1>12. B \in Seq(StepSet) /\ \A i \in 1 .. Len(B) : B[i].do \in {"gc", "hdr", "end"}
    <2>. DEFINE P == {x \in StepSet : x.do \in {"gc", "hdr", "end"}}
                UU == U \o U
    <2>1. U \in Each(P) /\ X \in Each(P)
      <3>1. (\A i \in 1 .. Len(U) : U[i] \in StepSet) /\ \A i \in 1 .. Len(X) : X[i] \in StepSet
        BY <1>6
      <3>2. (\A i \in 1 .. Len(U) : U[i] \in P) /\ \A i \in 1 .. Len(X) : X[i] \in P
        BY <1>9, <3>1
      <3>. HIDE DEF P
      <3>. QED
        BY <1>6, <3>2 DEF Each
    <2>2. \A x \in P : x.do \in {"gc", "hdr", "end"}
      OBVIOUS
    <2>. HIDE DEF P
    <2>3. UU \in Each(P)
      BY <2>1, EachOK
    <2>. HIDE DEF UU
    <2>4. UU \o X \in Each(P)
      BY <2>1, <2>3, EachOK
    <2>5. B = UU \o X
      BY DEF UU
    <2>. HIDE DEF B
    <2>. QED
      BY <2>2, <2>4, <2>5 DEF Each
  <1>13. Regrown(F, G, H, Z, U, U, X)
    BY <1>6, <1>7, <1>10, RegrowOK
  <1>14. Run5(F, G, M, U, X) = A \o (Z \o B)
    BY <1>2, <1>13 DEF Regrown
  <1>. HIDE DEF A, B
  <1>15. /\ A \in Softs(objs)
         /\ \A k \in 1 .. Len(A) : A[k].do \in {"data", "cache"} /\ A[k].f = f => A[k].c <= n
    BY <1>11 DEF Each, W, UpTo, Softs
  <1>16. A \o (Z \o B) \in Seq(StepSet) /\ Calm(A \o (Z \o B), objs, cache)
    <2>1. objs[f].size <= n
      BY <1>1 DEF objs
    <2>2. A \o (<<SetSize(f, n)>> \o B) \in Seq(StepSet)
          /\ Calm(A \o (<<SetSize(f, n)>> \o B), objs, cache)
      BY <1>1, <1>12, <1>15, <2>1, GrowOK
    <2>. QED
      BY <2>2 DEF Z
  <1>17. Run5(F, G, M, U, X) \in Seq(StepSet) /\ Calm(Run5(F, G, M, U, X), objs, cache)
    BY <1>14, <1>16
  <1>. QED
    BY <1>17 DEF F, G, U, X, objs, cache

\* yaffs_setattr of the size.
LEMMA ResizeOK ==
  ASSUME dev \in Devs, CacheInside(dev), ChunksInside(dev.objs), NEW f \in Files,
         dev.objs[f].dir = "root", NEW n \in 0 .. MaxChunk
  PROVE  /\ (ResizeFile(f, n) \o SameOh(f)) \o <<End("done")>> \in Seq(StepSet)
         /\ Calm((ResizeFile(f, n) \o SameOh(f)) \o <<End("done")>>, dev.objs, dev.cache)
  <1>. DEFINE M == ResizeMid(f, n)
              R == Run5(Flush(f), <<Gc>>, M, SameOh(f), <<End("done")>>)
  <1>1. Obj(f).dir \notin {"unlinked", "deleted"}
    BY DEF Obj
  <1>2. ResizeFile(f, n) = (Flush(f) \o <<Gc>>) \o M
    BY <1>1 DEF ResizeFile, ResizeMid
  <1>3. (ResizeFile(f, n) \o SameOh(f)) \o <<End("done")>> = R
    BY <1>2 DEF Run5
  <1>4. n <= dev.objs[f].size \/ n > dev.objs[f].size
    <2>1. dev.objs[f] \in Objects
      BY DevFields
    <2>2. dev.objs[f].size \in Nat /\ n \in Nat
      BY <2>1, ObjectFields, ChunksAre
    <2>. QED
      BY <2>2
  <1>5. R \in Seq(StepSet) /\ Calm(R, dev.objs, dev.cache)
    BY <1>4, ShrinkOK, GrowingOK
  <1>. QED
    BY <1>3, <1>5

\* yaffs_rename_obj.
RenameSteps(f, n) ==
  LET old == {x[2] : x \in {y \in Names0 : y[1] = n}}
      replace == IF old = {} THEN <<>>
                 ELSE LET g == CHOOSE x \in old : TRUE
                      IN  <<Hdr(f, "root", n, FALSE, g), Hdr(g, "unlinked", "", FALSE, 0)>>
  IN  replace \o UpdateOh(f, "root", n, FALSE)

\* yaffs_rename_obj is soft.
LEMMA RenameOK ==
  ASSUME NEW f \in Files, NEW n \in Names, NEW objs
  PROVE  RenameSteps(f, n) \in Softs(objs)
  <1>. DEFINE old == {x[2] : x \in {y \in Names0 : y[1] = n}}
              g == CHOOSE x \in old : TRUE
              r == IF old = {} THEN <<>>
                   ELSE <<Hdr(f, "root", n, FALSE, g), Hdr(g, "unlinked", "", FALSE, 0)>>
              u == UpdateOh(f, "root", n, FALSE)
  <1>1. RenameSteps(f, n) = r \o u
    BY DEF RenameSteps
  <1>2. u \in Softs(objs)
    BY CreateOK
  <1>3. r \in Softs(objs)
    <2>1. CASE old = {}
      <3>1. r = <<>> /\ <<>> \in Each(Plain)
        BY <2>1, EachOK
      <3>. QED
        BY <3>1, PlainSoft
    <2>2. CASE old # {}
      <3>1. g \in old
        BY <2>2
      <3>2. old \subseteq Files
        BY DEF Names0, Listing
      <3>3. g \in Files
        BY <3>1, <3>2
      <3>. DEFINE h1 == Hdr(f, "root", n, FALSE, g)
                  h2 == Hdr(g, "unlinked", "", FALSE, 0)
      <3>4. r = <<h1, h2>>
        BY <2>2
      <3>. HIDE DEF g
      <3>n. n \in Names \cup {""} /\ "" \in Names \cup {""}
        OBVIOUS
      <3>5. "root" \in TagDirs \ {""} /\ "unlinked" \in TagDirs \ {""} /\ FALSE \in BOOLEAN
        BY DEF TagDirs
      <3>6. g \in Files \cup {0} /\ 0 \in Files \cup {0}
        BY <3>3
      <3>7. h1 \in StepSet /\ h1.do = "hdr" /\ h2 \in StepSet /\ h2.do = "hdr"
        BY <3>3, <3>n, <3>5, <3>6, HdrType
      <3>. HIDE DEF h1, h2
      <3>8. h1 \in Plain /\ h2 \in Plain
        BY <3>7 DEF Plain
      <3>9. <<h1, h2>> \in Each(Plain)
        BY <3>7, <3>8, EachTwo
      <3>. QED
        BY <3>4, <3>9, PlainSoft
    <2>. QED
      BY <2>1, <2>2
  <1>. HIDE DEF r, u
  <1>4. r \o u \in Softs(objs)
    BY <1>2, <1>3, SoftConcat
  <1>. QED
    BY <1>1, <1>4

----------------------------------------------------------------------------
(* The inductive invariant *)

\* A block is being collected exactly when the next step copies one of its chunks.
Collects(d, td) ==
  IF td # <<>> /\ Head(td).do = "copy"
    THEN d.gcBlock # 0 /\ d.state[d.gcBlock] = "COLLECTING"
    ELSE NoneCollected(d)

Ready(d, ord, fl, td) ==
  /\ Good(d, ord, fl) /\ td \in Seq(StepSet) /\ Todo(td, d.objs, d.cache) /\ Collects(d, td)

Off(d, ord, fl, td) ==
  /\ d = BlankDev /\ td = <<>> /\ FlashOK(fl) /\ ord \in Seq(Blocks) /\ IsInjective(ord)
  /\ \A b \in Blocks : b \in InUse(ord) <=> fl[b] # <<>>

\* A list without copies can follow.
LEMMA CalmReady ==
  ASSUME NEW d, NEW ord, NEW fl, Good(d, ord, fl), NoneCollected(d),
         NEW td \in Seq(StepSet), Calm(td, d.objs, d.cache)
  PROVE  Ready(d, ord, fl, td)
  <1>1. ~(td # <<>> /\ Head(td).do = "copy")
    <2>1. SUFFICES ASSUME td # <<>>, Head(td).do = "copy" PROVE FALSE
      OBVIOUS
    <2>2. Head(td) = td[1] /\ 1 \in 1 .. Len(td)
      BY <2>1
    <2>. QED
      BY <2>1, <2>2 DEF Calm, NoCopies
  <1>. QED
    BY <1>1 DEF Ready, Collects, Calm

\* The first step is done, and nothing is being collected.
LEMMA PopReady ==
  ASSUME Ready(dev, order, flash, todo), todo # <<>>,
         NEW d, NEW ord, NEW fl, Good(d, ord, fl), NoneCollected(d),
         PopObjs(Cur, dev.objs, d.objs), PopSizes(Cur, dev.objs, d.objs),
         PopCache(Cur, dev.cache, d.cache)
  PROVE  Ready(d, ord, fl, Rest) /\ Rest \in Seq(StepSet) /\ Calm(Rest, d.objs, d.cache)
  <1>1. todo \in Seq(StepSet) /\ Todo(todo, dev.objs, dev.cache) /\ dev \in Devs /\ d \in Devs
    BY DEF Ready, Good
  <1>2. /\ dev.objs \in [Files -> Objects] /\ dev.cache \subseteq Cachings
        /\ d.objs \in [Files -> Objects] /\ d.cache \subseteq Cachings
    BY <1>1, DevFields
  <1>. DEFINE objs2 == d.objs
              cache2 == d.cache
              objs == dev.objs
              cache == dev.cache
  <1>3. /\ PopObjs(Head(todo), objs, objs2) /\ PopSizes(Head(todo), objs, objs2)
        /\ PopCache(Head(todo), cache, cache2)
    BY DEF Cur
  <1>4. objs \in [Files -> Objects] /\ objs2 \in [Files -> Objects]
        /\ cache \subseteq Cachings /\ cache2 \subseteq Cachings /\ Todo(todo, objs, cache)
    BY <1>1, <1>2
  <1>. HIDE DEF objs, objs2, cache, cache2
  <1>5. Tail(todo) \in Seq(StepSet) /\ Calm(Tail(todo), objs2, cache2)
    BY <1>1, <1>3, <1>4, PopOK
  <1>. QED
    BY <1>5, CalmReady DEF Rest, objs2, cache2

\* What the objects and the cache do when a step leaves them alone.
LEMMA PopSame ==
  ASSUME dev \in Devs, NEW h, h.do \notin {"prune", "data"}, NEW d, d.objs = dev.objs, d.cache = dev.cache
  PROVE  /\ PopObjs(h, dev.objs, d.objs) /\ PopSizes(h, dev.objs, d.objs)
         /\ PopCache(h, dev.cache, d.cache)
  <1>1. \A f \in Files : dev.objs[f].size \in Nat
    <2>1. \A f \in Files : dev.objs[f] \in Objects
      BY DevFields
    <2>. QED
      BY <2>1, ObjectFields
  <1>. QED
    BY <1>1 DEF PopObjs, PopSizes, PopCache, Puts

\* What a step of the collector, or none, starts from.
LEMMA ReadyIs ==
  ASSUME Ready(dev, order, flash, todo)
  PROVE  /\ Good(dev, order, flash) /\ Accounts /\ dev \in Devs /\ todo \in Seq(StepSet)
         /\ Todo(todo, dev.objs, dev.cache)
         /\ dev.objs \in [Files -> Objects] /\ dev.cache \subseteq Cachings
         /\ ChunksInside(dev.objs) /\ CacheInside(dev)
         /\ todo # <<>> => Cur = todo[1] /\ Cur \in StepSet
         /\ todo = <<>> \/ Cur.do # "copy" => NoneCollected(dev)
  <1>1. Good(dev, order, flash) /\ todo \in Seq(StepSet) /\ Todo(todo, dev.objs, dev.cache)
        /\ Collects(dev, todo)
    BY DEF Ready
  <1>2. dev \in Devs /\ ChunksInside(dev.objs) /\ CacheInside(dev)
    BY <1>1 DEF Good
  <1>3. todo # <<>> => Cur = todo[1] /\ Cur \in StepSet
    BY <1>1 DEF Cur
  <1>4. todo = <<>> \/ Cur.do # "copy" => NoneCollected(dev)
    BY <1>1 DEF Collects, Cur
  <1>. QED
    BY <1>1, <1>2, <1>3, <1>4, GoodAccounts, DevFields

\* The reserve is refused.
LEMMA RefusedOK ==
  ASSUME Ready(dev, order, flash, todo), NoneCollected(dev), AllocRefused
  PROVE  /\ Good(dev', order', flash') /\ NoneCollected(dev')
         /\ dev'.objs = dev.objs /\ dev'.cache = dev.cache
  <1>0. /\ Good(dev, order, flash) /\ Accounts /\ dev \in Devs
        /\ ChunksInside(dev.objs) /\ CacheInside(dev)
    BY ReadyIs
  <1>1. CASE HasBlock
    <2>. DEFINE e == TakenDev(dev)
    <2>1. flash' = flash /\ order' = TakenOrder /\ dev' = e
      BY <1>1 DEF AllocRefused, TakeBlock, TakenOrder, TakenDev
    <2>2. SameBlocks(dev, dev)
      BY DEF SameBlocks
    <2>3. /\ e \in Devs /\ e.objs = dev.objs /\ e.used = dev.used /\ e.cache = dev.cache
          /\ Blk(e, TakenOrder, flash)
          /\ \A b \in Blocks : e.state[b] = "COLLECTING" => dev.state[b] = "COLLECTING"
      BY <1>0, <1>1, <2>2, TakenDevOK
    <2>4. TakenOrder \in Seq(Blocks) /\ IsInjective(TakenOrder)
      BY <1>0, <1>1, TakenOrderOK
    <2>. HIDE DEF e
    <2>5. ChunksInside(e.objs) /\ CacheInside(e)
      BY <1>0, <2>3 DEF CacheInside
    <2>6. \A f \in Files : e.objs[f].hdr = dev.objs[f].hdr /\ e.objs[f].chunk = dev.objs[f].chunk
      BY <2>3
    <2>7. Good(e, TakenOrder, flash)
      BY <1>0, <2>3, <2>4, <2>5, <2>6, KeepOK
    <2>8. NoneCollected(e)
      BY <2>3 DEF NoneCollected
    <2>. QED
      BY <2>1, <2>3, <2>7, <2>8
  <1>2. CASE ~HasBlock
    <2>1. flash' = flash /\ order' = order /\ dev' = dev
      BY <1>2 DEF AllocRefused
    <2>. QED
      BY <1>0, <2>1
  <1>. QED
    BY <1>1, <1>2

\* All that is left of an operation that failed is its end.
LEMMA FailedCalm ==
  ASSUME NEW objs, NEW cache
  PROVE  <<End("failed")>> \in Seq(StepSet) /\ Calm(<<End("failed")>>, objs, cache)
  <1>1. <<End("failed")>> \in Each(Plain)
    BY PlainSteps, EachOne
  <1>2. <<End("failed")>> \in Softs(objs)
    BY <1>1, PlainSoft
  <1>. QED
    BY <1>2, SoftOK

Dropped(f, c) == [dev EXCEPT !.cache = {e \in @ : ~(e.f = f /\ e.c = c)}]
Grown(f, c, size) == [dev.objs[f] EXCEPT !.chunk[c] = NewRef, !.dirty = TRUE, !.size = size]
Kept(f, o, d) == [d EXCEPT !.objs[f] = o]

\* A chunk leaves the cache.
LEMMA DroppedIs ==
  ASSUME dev \in Devs, NEW f, NEW c
  PROVE  LET d == Dropped(f, c) IN
         /\ d \in Devs /\ SameBlocks(dev, d) /\ d.objs = dev.objs
         /\ \A e \in d.cache : e \in dev.cache /\ ~(e.f = f /\ e.c = c)
  <1>. DEFINE C == {e \in dev.cache : ~(e.f = f /\ e.c = c)}
              d == [dev EXCEPT !.cache = C]
  <1>1. C \subseteq Cachings /\ \A e \in C : e \in dev.cache /\ ~(e.f = f /\ e.c = c)
    BY DevFields
  <1>2. Dropped(f, c) = d
    BY DEF Dropped
  <1>. HIDE DEF C
  <1>3. d \in Devs /\ d.cache = C /\ d.objs = dev.objs
    BY <1>1 DEF Devs
  <1>4. SameBlocks(dev, d)
    BY DEF SameBlocks, Devs
  <1>. QED
    BY <1>1, <1>2, <1>3, <1>4

\* The fields of a device one object of which changes.
LEMMA KeptIs ==
  ASSUME NEW d \in Devs, NEW f \in Files, NEW o \in Objects
  PROVE  LET e == Kept(f, o, d) IN
         /\ e \in Devs /\ SameBlocks(d, e) /\ e.cache = d.cache
         /\ e.objs[f] = o /\ \A g \in Files : g # f => e.objs[g] = d.objs[g]
  <1>1. d.objs \in [Files -> Objects]
    BY DevFields
  <1>. DEFINE e == [d EXCEPT !.objs = [d.objs EXCEPT ![f] = o]]
  <1>2. Kept(f, o, d) = e
    BY DEF Kept
  <1>3. e \in Devs /\ e.objs = [d.objs EXCEPT ![f] = o] /\ e.cache = d.cache
    BY <1>1 DEF Devs
  <1>4. SameBlocks(d, e)
    BY DEF SameBlocks, Devs
  <1>5. e.objs[f] = o /\ \A g \in Files : g # f => e.objs[g] = d.objs[g]
    BY <1>1, <1>3
  <1>. QED
    BY <1>2, <1>3, <1>4, <1>5

\* The blocks of Allocated do not depend on the objects.
LEMMA AllocatedSame ==
  ASSUME NEW d, SameBlocks(dev, d), dev \in Devs, d \in Devs
  PROVE  SameBlocks(Allocated(dev), Allocated(d))
  BY DEF SameBlocks, Allocated, Devs

\* SameBlocks is transitive.
LEMMA SameBlocksTrans ==
  ASSUME NEW d, NEW e, NEW g, SameBlocks(d, e), SameBlocks(e, g)
  PROVE  SameBlocks(d, g)
  BY DEF SameBlocks

\* A chunk of f is written: what the objects are then.
LEMMA GrownIs ==
  ASSUME dev \in Devs, NewRef \in Pages, NEW f \in Files, NEW c \in Chunks, NEW size \in 0 .. MaxChunk
  PROVE  LET o == Grown(f, c, size) IN
         /\ o \in Objects /\ o.hdr = dev.objs[f].hdr /\ o.size = size /\ o.chunk[c] = NewRef
         /\ \A k \in Chunks : k # c => o.chunk[k] = dev.objs[f].chunk[k]
  <1>1. dev.objs[f] \in Objects
    BY DevFields
  <1>2. NewRef \in Refs
    BY DEF Refs
  <1>. DEFINE r == NewRef
              p == dev.objs[f]
              o == [p EXCEPT !.chunk = [p.chunk EXCEPT ![c] = r], !.dirty = TRUE, !.size = size]
  <1>3. Grown(f, c, size) = o
    BY DEF Grown
  <1>4. p \in Objects /\ r \in Refs
    BY <1>1, <1>2
  <1>. HIDE DEF p, r
  <1>5. p.chunk \in [Chunks -> Refs]
    BY <1>4, ObjectFields
  <1>6. o \in Objects /\ o.hdr = p.hdr /\ o.size = size /\ o.chunk = [p.chunk EXCEPT ![c] = r]
    BY <1>4, <1>5 DEF Objects
  <1>7. o.chunk[c] = r /\ \A k \in Chunks : k # c => o.chunk[k] = p.chunk[k]
    BY <1>5, <1>6
  <1>. QED
    BY <1>3, <1>6, <1>7 DEF p, r

\* What a data step programs.
LEMMA DataTagOK ==
  ASSUME NEW f \in Files, NEW c \in Chunks, NEW v \in 0 .. MaxOps
  PROVE  DataTag(f, c, v) \in Tags /\ DataTag(f, c, v).obj = f /\ DataTag(f, c, v).chunk = c
  <1>1. c \in 0 .. MaxChunk /\ 0 \in 0 .. MaxChunk /\ c \in Nat
    BY ChunksAre DEF Chunks
  <1>. QED
    BY <1>1 DEF DataTag, Tags, TagDirs

\* The size a file has after chunk c was written.
LEMMA SizeAfter ==
  ASSUME Ready(dev, order, flash, todo), todo # <<>>, Cur.do = "data"
  PROVE  /\ Cur.f \in Files /\ Cur.c \in Chunks /\ Cur.v \in 0 .. MaxOps
         /\ LET s == IF Cur.reserve THEN dev.objs[Cur.f].size ELSE Max({dev.objs[Cur.f].size, Cur.c}) IN
            /\ s \in 0 .. MaxChunk /\ Cur.c <= s /\ dev.objs[Cur.f].size <= s
            /\ s = dev.objs[Cur.f].size \/ s = Cur.c
  <1>1. /\ Todo(todo, dev.objs, dev.cache) /\ Cur \in StepSet /\ Cur = todo[1]
        /\ dev \in Devs /\ todo \in Seq(StepSet)
    BY ReadyIs
  <1>2. Cur \in DataSteps
    BY <1>1, StepKinds
  <1>3. Cur.f \in Files /\ Cur.c \in Chunks /\ Cur.v \in 0 .. MaxOps
    BY <1>2 DEF DataSteps
  <1>4. dev.objs[Cur.f] \in Objects
    BY <1>1, <1>3, DevFields
  <1>. DEFINE n == dev.objs[Cur.f].size
  <1>5. n \in 0 .. MaxChunk /\ n \in Nat /\ Cur.c \in Nat /\ Cur.c \in 0 .. MaxChunk
    BY <1>3, <1>4, ObjectFields, ChunksAre DEF Chunks
  <1>6. ASSUME Cur.reserve PROVE Cur.c <= n
    <2>1. FlushesOK(todo, dev.objs)
      BY <1>1 DEF Todo
    <2>2. 1 \in 1 .. Len(todo)
      BY <1>1
    <2>3. todo[1].do = "data" /\ todo[1].reserve
      BY <1>1, <1>6
    <2>4. todo[1].c <= dev.objs[todo[1].f].size
      BY <2>1, <2>2, <2>3 DEF FlushesOK
    <2>. QED
      BY <1>1, <2>4
  <1>7. Max({n, Cur.c}) = IF n >= Cur.c THEN n ELSE Cur.c
    BY <1>5, MaxOfTwo
  <1>. HIDE DEF n
  <1>8. CASE Cur.reserve
    <2>1. Cur.c <= n
      BY <1>6, <1>8
    <2>. QED
      BY <1>3, <1>5, <1>8, <2>1 DEF n
  <1>9. CASE ~Cur.reserve
    BY <1>3, <1>5, <1>7, <1>9 DEF n
  <1>. QED
    BY <1>8, <1>9

\* A data chunk reaches the flash, and the one it replaces is forgotten.
LEMMA PutData ==
  ASSUME Ready(dev, order, flash, todo), todo # <<>>, Cur.do = "data", HasBlock,
         NEW f \in Files, f = Cur.f, NEW c \in Chunks, c = Cur.c, NEW v \in 0 .. MaxOps,
         NEW s \in 0 .. MaxChunk, c <= s, dev.objs[f].size <= s,
         s = dev.objs[f].size \/ s = c
  PROVE  LET e == ChunkDel(Kept(f, Grown(f, c, s), Allocated(Dropped(f, c))),
                           dev.objs[f].chunk[c])
         IN  Ready(e, TakenOrder, Programmed(DataTag(f, c, v)), Rest)
  <1>. DEFINE d0 == Dropped(f, c)
              a == Allocated(d0)
              o == Grown(f, c, s)
              d == Kept(f, o, a)
              t == DataTag(f, c, v)
              fl == Programmed(t)
              e == ChunkDel(d, dev.objs[f].chunk[c])
  <1>1. /\ Good(dev, order, flash) /\ Accounts /\ dev \in Devs
        /\ ChunksInside(dev.objs) /\ CacheInside(dev) /\ NoneCollected(dev)
    BY ReadyIs
  <1>2. t \in Tags /\ t.obj = f /\ t.chunk = c
    BY DataTagOK
  <1>3. /\ d0 \in Devs /\ SameBlocks(dev, d0) /\ d0.objs = dev.objs
        /\ \A x \in d0.cache : x \in dev.cache /\ ~(x.f = f /\ x.c = c)
    BY <1>1, DroppedIs
  <1>. HIDE DEF d0, t, e
  <1>4. a \in Devs /\ a.objs = dev.objs /\ a.cache = d0.cache /\ NewRef \in Pages
    BY <1>1, <1>2, <1>3, ProgramOK
  <1>5. SameBlocks(Allocated(dev), a)
    BY <1>1, <1>3, AllocatedSame
  <1>6. /\ o \in Objects /\ o.hdr = dev.objs[f].hdr /\ o.size = s /\ o.chunk[c] = NewRef
        /\ \A k \in Chunks : k # c => o.chunk[k] = dev.objs[f].chunk[k]
    BY <1>1, <1>4, GrownIs
  <1>. HIDE DEF a, o
  <1>7. /\ d \in Devs /\ SameBlocks(a, d) /\ d.cache = d0.cache
        /\ d.objs[f] = o /\ \A g \in Files : g # f => d.objs[g] = dev.objs[g]
    BY <1>4, <1>6, KeptIs
  <1>. HIDE DEF d
  <1>8. SameBlocks(Allocated(dev), d)
    BY <1>5, <1>7, SameBlocksTrans
  <1>9. c # 0 /\ c \in 0 .. MaxChunk
    BY ChunksAre
  <1>10. Ptr(d.objs, t.obj, t.chunk) = NewRef
    BY <1>2, <1>6, <1>7, <1>9 DEF Ptr
  <1>11. ASSUME NEW g \in Files, NEW k \in 0 .. MaxChunk, <<g, k>> # <<t.obj, t.chunk>>
         PROVE  Ptr(d.objs, g, k) = Ptr(dev.objs, g, k)
    <2>1. CASE g # f
      BY <1>7, <2>1 DEF Ptr
    <2>2. CASE g = f
      <3>1. k # c
        BY <1>2, <1>11, <2>2
      <3>2. k = 0 \/ k \in Chunks
        BY ChunksAre
      <3>. QED
        BY <1>6, <1>7, <2>2, <3>1, <3>2 DEF Ptr
    <2>. QED
      BY <2>1, <2>2
  <1>s. \A g \in Files : d.objs[g].size \in Nat /\ dev.objs[g].size \in Nat
    <2>1. \A g \in Files : d.objs[g] \in Objects /\ dev.objs[g] \in Objects
      BY <1>1, <1>7, DevFields
    <2>. QED
      BY <2>1, ObjectFields
  <1>r. \A g \in Files : d.objs[g].size >= dev.objs[g].size
    BY <1>s, <1>6, <1>7
  <1>12. ChunksInside(d.objs)
    <2>1. ASSUME NEW g \in Files, NEW k \in Chunks, d.objs[g].chunk[k] # NoRef
          PROVE  k <= d.objs[g].size
      <3>1. CASE g = f /\ k = c
        BY <1>6, <1>7, <3>1
      <3>2. CASE ~(g = f /\ k = c)
        <4>1. dev.objs[g].chunk[k] # NoRef
          BY <1>6, <1>7, <2>1, <3>2
        <4>2. k <= dev.objs[g].size /\ k \in Int
          BY <1>1, <4>1 DEF ChunksInside, Chunks
        <4>. QED
          BY <1>r, <1>s, <4>2
      <3>. QED
        BY <3>1, <3>2
    <2>. QED
      BY <2>1 DEF ChunksInside
  <1>13. CacheInside(d)
    <2>1. ASSUME NEW x \in d.cache PROVE x.c <= d.objs[x.f].size
      <3>1. x \in dev.cache /\ x \in Cachings
        BY <1>1, <1>3, <1>7, <2>1, DevFields
      <3>2. x.c \in Int /\ x.f \in Files
        BY <3>1 DEF Cachings, Chunks
      <3>3. x.c <= dev.objs[x.f].size
        BY <1>1, <3>1 DEF CacheInside
      <3>. QED
        BY <1>r, <1>s, <3>2, <3>3
    <2>. QED
      BY <2>1 DEF CacheInside
  <1>14. Ptr(dev.objs, t.obj, t.chunk) = dev.objs[f].chunk[c]
    BY <1>2, <1>9 DEF Ptr
  <1>15. e = ChunkDel(d, Ptr(dev.objs, t.obj, t.chunk))
    BY <1>14 DEF e
  <1>16. /\ Good(e, TakenOrder, Programmed(t)) /\ e.objs = d.objs /\ e.cache = d.cache
         /\ \A b \in Blocks : e.state[b] = "COLLECTING" => dev.state[b] = "COLLECTING"
    BY <1>1, <1>2, <1>7, <1>8, <1>10, <1>11, <1>12, <1>13, <1>15, PutOK
  <1>17. NoneCollected(e)
    BY <1>1, <1>16 DEF NoneCollected
  <1>18. PopObjs(Cur, dev.objs, e.objs)
    <2>1. ASSUME NEW g \in Files, NEW k \in Chunks,
                 dev.objs[g].chunk[k] = NoRef, ~Puts(Cur, g, k)
          PROVE  e.objs[g].chunk[k] = NoRef
      <3>1. ~(g = f /\ k = c)
        BY <2>1 DEF Puts
      <3>. QED
        BY <1>6, <1>7, <1>16, <2>1, <3>1
    <2>. QED
      BY <2>1 DEF PopObjs
  <1>19. PopSizes(Cur, dev.objs, e.objs)
    <2>1. ASSUME NEW g \in Files
          PROVE  \/ e.objs[g].size <= dev.objs[g].size
                 \/ Cur.do \in {"data", "cache"} /\ Cur.f = g /\ e.objs[g].size <= Cur.c
                 \/ Cur.do = "size" /\ Cur.f = g
      <3>1. CASE g # f
        <4>1. e.objs[g].size = dev.objs[g].size /\ e.objs[g].size \in Nat
          BY <1>7, <1>16, <1>s, <3>1
        <4>2. e.objs[g].size <= dev.objs[g].size
          BY <4>1
        <4>. QED
          BY <4>2
      <3>2. CASE g = f
        <4>1. e.objs[g].size = s /\ dev.objs[g].size \in Nat
          BY <1>6, <1>7, <1>16, <1>s, <3>2
        <4>2. CASE s = dev.objs[f].size
          <5>1. e.objs[g].size <= dev.objs[g].size
            BY <3>2, <4>1, <4>2
          <5>. QED
            BY <5>1
        <4>3. CASE s = c
          <5>1. e.objs[g].size <= Cur.c
            BY <4>1, <4>3
          <5>. QED
            BY <3>2, <5>1
        <4>. QED
          BY <4>2, <4>3
      <3>. QED
        BY <3>1, <3>2
    <2>. QED
      BY <1>16, <1>r, <2>1 DEF PopSizes
  <1>20. PopCache(Cur, dev.cache, e.cache)
    BY <1>3, <1>7, <1>16 DEF PopCache
  <1>21. Ready(e, TakenOrder, fl, Rest)
    BY <1>16, <1>17, <1>18, <1>19, <1>20, PopReady
  <1>. QED
    BY <1>21 DEF t, e, d, a, o, d0

\* A step that could be neither programmed nor done without: the operation fails.
LEMMA RefusedReady ==
  ASSUME Ready(dev, order, flash, todo), NoneCollected(dev), AllocRefused, todo' = <<End("failed")>>
  PROVE  Ready(dev', order', flash', todo')
  <1>1. Good(dev', order', flash') /\ NoneCollected(dev')
    BY RefusedOK
  <1>. DEFINE d == dev'
              ord == order'
              fl == flash'
              td == todo'
  <1>2. td \in Seq(StepSet) /\ Calm(td, d.objs, d.cache)
    BY FailedCalm
  <1>. HIDE DEF d, ord, fl, td
  <1>3. Good(d, ord, fl) /\ NoneCollected(d)
    BY <1>1 DEF d, ord, fl
  <1>4. Ready(d, ord, fl, td)
    BY <1>2, <1>3, CalmReady
  <1>. QED
    BY <1>4 DEF d, ord, fl, td

\* The blocks and the pointers stay, and no chunk goes beyond the size of its file.
LEMMA KeepReady ==
  ASSUME Ready(dev, order, flash, todo), NEW e \in Devs, SameBlocks(dev, e),
         \A f \in Files : e.objs[f].hdr = dev.objs[f].hdr /\ e.objs[f].chunk = dev.objs[f].chunk,
         ChunksInside(e.objs), CacheInside(e)
  PROVE  Good(e, order, flash)
  <1>1. Good(dev, order, flash)
    BY ReadyIs
  <1>2. /\ order \in Seq(Blocks) /\ IsInjective(order) /\ Blk(dev, order, flash)
        /\ e.used = dev.used
    BY <1>1 DEF Good, SameBlocks
  <1>3. Blk(e, order, flash)
    BY <1>2, BlkSame
  <1>. QED
    BY <1>1, <1>2, <1>3, KeepOK

\* yaffs_put_chunk_in_file
LEMMA WriteDataStep ==
  ASSUME Ready(dev, order, flash, todo), WriteData
  PROVE  Ready(dev', order', flash', todo')
  <1>1. /\ todo # <<>> /\ Cur.do = "data" /\ Cur \in StepSet
        /\ dev \in Devs /\ NoneCollected(dev) /\ Good(dev, order, flash)
        /\ ChunksInside(dev.objs) /\ CacheInside(dev)
    <2>1. todo # <<>> /\ Cur.do = "data"
      BY DEF WriteData, Running, Cur
    <2>. QED
      BY <2>1, ReadyIs
  <1>. DEFINE f == Cur.f
              c == Cur.c
              v == Cur.v
              s == IF Cur.reserve THEN dev.objs[Cur.f].size ELSE Max({dev.objs[Cur.f].size, Cur.c})
              d0 == Dropped(f, c)
              e == ChunkDel(Kept(f, Grown(f, c, s), Allocated(d0)), dev.objs[f].chunk[c])
  <1>2. /\ f \in Files /\ c \in Chunks /\ v \in 0 .. MaxOps
        /\ s \in 0 .. MaxChunk /\ c <= s /\ dev.objs[f].size <= s
        /\ s = dev.objs[f].size \/ s = c
    BY <1>1, SizeAfter
  <1>3. dev.objs[f] \in Objects
    BY <1>1, <1>2, DevFields
  <1>4. \/ /\ HasBlock /\ flash' = Programmed(DataTag(f, c, v)) /\ order' = TakenOrder
           /\ dev' = e /\ todo' = Rest
        \/ dev' = d0 /\ todo' = Rest /\ flash' = flash /\ order' = order
        \/ AllocRefused /\ todo' = <<End("failed")>>
    BY DEF WriteData, CanAlloc, Program, TakeBlock, Programmed, TakenOrder, Dropped, Kept, Grown, Obj
  <1>5. CASE /\ HasBlock /\ flash' = Programmed(DataTag(f, c, v)) /\ order' = TakenOrder
             /\ dev' = e /\ todo' = Rest
    <2>1. f = Cur.f /\ c = Cur.c
      OBVIOUS
    <2>2. e = ChunkDel(Kept(f, Grown(f, c, s), Allocated(Dropped(f, c))), dev.objs[f].chunk[c])
      OBVIOUS
    <2>. HIDE DEF f, c, v, s, e
    <2>3. Ready(e, TakenOrder, Programmed(DataTag(f, c, v)), Rest)
      BY <1>1, <1>2, <1>5, <2>1, <2>2, PutData
    <2>. QED
      BY <1>5, <2>3
  <1>6. CASE dev' = d0 /\ todo' = Rest /\ flash' = flash /\ order' = order
    <2>1. /\ d0 \in Devs /\ SameBlocks(dev, d0) /\ d0.objs = dev.objs
          /\ \A x \in d0.cache : x \in dev.cache /\ ~(x.f = f /\ x.c = c)
      BY <1>1, DroppedIs
    <2>. HIDE DEF d0
    <2>2. ChunksInside(d0.objs) /\ CacheInside(d0)
      BY <1>1, <2>1 DEF CacheInside
    <2>3. \A g \in Files : d0.objs[g].hdr = dev.objs[g].hdr /\ d0.objs[g].chunk = dev.objs[g].chunk
      BY <2>1
    <2>4. Good(d0, order, flash)
      BY <2>1, <2>2, <2>3, KeepReady
    <2>5. NoneCollected(d0)
      BY <1>1, <2>1 DEF NoneCollected, SameBlocks
    <2>6. \A g \in Files : dev.objs[g].size \in Nat
      <3>1. \A g \in Files : dev.objs[g] \in Objects
        BY <1>1, DevFields
      <3>. QED
        BY <3>1, ObjectFields
    <2>7. PopObjs(Cur, dev.objs, d0.objs)
      BY <1>1, <2>1 DEF PopObjs
    <2>8. PopSizes(Cur, dev.objs, d0.objs)
      BY <2>1, <2>6 DEF PopSizes
    <2>9. PopCache(Cur, dev.cache, d0.cache)
      BY <2>1 DEF PopCache
    <2>10. Ready(d0, order, flash, Rest)
      BY <1>1, <2>4, <2>5, <2>7, <2>8, <2>9, PopReady
    <2>. QED
      BY <1>6, <2>10
  <1>7. CASE AllocRefused /\ todo' = <<End("failed")>>
    BY <1>1, <1>7, RefusedReady
  <1>. QED
    BY <1>4, <1>5, <1>6, <1>7

NameSet == Names \cup {""}

\* Zero is a value and a size.
LEMMA ZeroIn == 0 \in 0 .. MaxOps /\ 0 \in 0 .. MaxChunk
  BY YaffsAssumption

\* A header is well typed.
LEMMA HdrTagOK ==
  ASSUME NEW f \in Files, NEW size \in 0 .. MaxChunk, NEW dir \in TagDirs,
         NEW name \in NameSet, NEW shrink \in BOOLEAN, NEW shadows \in Files \cup {0}
  PROVE  LET t == HdrTag(f, size, dir, name, shrink, shadows) IN
         t \in Tags /\ t.obj = f /\ t.chunk = 0
  <1>1. 0 \in 0 .. MaxOps /\ 0 \in 0 .. MaxChunk
    BY ZeroIn
  <1>. DEFINE t == HdrTag(f, size, dir, name, shrink, shadows)
  <1>2. t.obj = f /\ t.chunk = 0
    BY DEF HdrTag
  <1>3. t \in Tags
    BY <1>1 DEF HdrTag, Tags, NameSet
  <1>. QED
    BY <1>2, <1>3

\* What a header step carries.
LEMMA HdrFields ==
  ASSUME NEW s \in StepSet, s.do = "hdr"
  PROVE  /\ s.f \in Files /\ s.dir \in TagDirs /\ s.shrink \in BOOLEAN
         /\ s.shadows \in Files \cup {0}
  BY StepKinds DEF HdrSteps

\* The name in a header step is a name or none.
LEMMA HdrName ==
  ASSUME NEW s \in StepSet, s.do = "hdr"
  PROVE  s.name \in NameSet
  BY StepKinds DEF HdrSteps, NameSet

\* The object gets the directory and the name that the header has.
Renamed(o, dir, name) == [o EXCEPT !.dir = dir, !.name = name]
\* The object gets its new header.
Headed(o, r, dirty) == [o EXCEPT !.hdr = r, !.dirty = dirty]

\* The fields of an object with another directory and name.
LEMMA RenamedIs ==
  ASSUME NEW o \in Objects, NEW dir \in TagDirs, NEW name \in NameSet
  PROVE  LET p == Renamed(o, dir, name) IN
         p \in Objects /\ p.hdr = o.hdr /\ p.chunk = o.chunk /\ p.size = o.size
  <1>. DEFINE p == Renamed(o, dir, name)
  <1>1. p.hdr = o.hdr /\ p.chunk = o.chunk /\ p.size = o.size
    BY DEF Renamed, Objects
  <1>2. p \in Objects
    BY DEF Renamed, Objects, NameSet
  <1>. QED
    BY <1>1, <1>2

\* The fields of an object with another header.
LEMMA HeadedIs ==
  ASSUME NEW o \in Objects, NEW r \in Refs, NEW dirty \in BOOLEAN
  PROVE  LET p == Headed(o, r, dirty) IN
         p \in Objects /\ p.hdr = r /\ p.chunk = o.chunk /\ p.size = o.size
  <1>. DEFINE p == Headed(o, r, dirty)
  <1>1. p.hdr = r /\ p.chunk = o.chunk /\ p.size = o.size
    BY DEF Headed, Objects
  <1>2. p \in Objects
    BY DEF Headed, Objects
  <1>. QED
    BY <1>1, <1>2

\* A block that is marked keeps its accounts.
LEMMA MarkedGood ==
  ASSUME NEW d, NEW ord, NEW fl, Good(d, ord, fl), NEW T \in Blocks, NEW e,
         NEW m \in BOOLEAN, e = [d EXCEPT !.shrink[T] = m]
  PROVE  /\ Good(e, ord, fl) /\ e.objs = d.objs /\ e.cache = d.cache /\ e.state = d.state
  <1>1. d \in Devs /\ Blk(d, ord, fl) /\ ord \in Seq(Blocks) /\ IsInjective(ord)
    BY DEF Good
  <1>2. d.shrink \in [Blocks -> BOOLEAN]
    BY <1>1, DevFields
  <1>3. e = [d EXCEPT !.shrink = [d.shrink EXCEPT ![T] = m]]
    OBVIOUS
  <1>. DEFINE g == [d.shrink EXCEPT ![T] = m]
  <1>4. g \in [Blocks -> BOOLEAN]
    BY <1>2
  <1>. HIDE DEF g
  <1>5. /\ e \in Devs /\ e.objs = d.objs /\ e.cache = d.cache /\ e.used = d.used
        /\ e.state = d.state
    BY <1>1, <1>3, <1>4 DEF Devs, g
  <1>6. SameBlocks(d, e)
    BY <1>1, <1>3 DEF SameBlocks, Devs
  <1>7. Blk(e, ord, fl)
    BY <1>1, <1>6, BlkSame
  <1>8. ChunksInside(e.objs) /\ CacheInside(e)
    BY <1>5 DEF Good, CacheInside
  <1>9. \A f \in Files : e.objs[f].hdr = d.objs[f].hdr /\ e.objs[f].chunk = d.objs[f].chunk
    BY <1>5
  <1>10. Good(e, ord, fl)
    BY <1>1, <1>5, <1>7, <1>8, <1>9, KeepOK
  <1>. QED
    BY <1>5, <1>10

\* The sizes and the chunks of the files stay.
LEMMA SameInside ==
  ASSUME Ready(dev, order, flash, todo), NEW d \in Devs, d.cache = dev.cache,
         \A g \in Files : d.objs[g].chunk = dev.objs[g].chunk /\ d.objs[g].size = dev.objs[g].size
  PROVE  ChunksInside(d.objs) /\ CacheInside(d)
  <1>1. ChunksInside(dev.objs) /\ CacheInside(dev) /\ dev.cache \subseteq Cachings
    BY ReadyIs
  <1>2. ChunksInside(d.objs)
    BY <1>1 DEF ChunksInside
  <1>3. CacheInside(d)
    BY <1>1 DEF CacheInside, Cachings
  <1>. QED
    BY <1>2, <1>3

\* A step that leaves the chunks, the sizes and the cache.
LEMMA PopKept ==
  ASSUME dev \in Devs, NEW h, h.do \notin {"prune", "data"}, NEW d, d.cache = dev.cache,
         \A g \in Files : d.objs[g].chunk = dev.objs[g].chunk /\ d.objs[g].size = dev.objs[g].size
  PROVE  /\ PopObjs(h, dev.objs, d.objs) /\ PopSizes(h, dev.objs, d.objs)
         /\ PopCache(h, dev.cache, d.cache)
  <1>1. \A f \in Files : dev.objs[f].size \in Nat
    <2>1. \A f \in Files : dev.objs[f] \in Objects
      BY DevFields
    <2>. QED
      BY <2>1, ObjectFields
  <1>2. PopObjs(h, dev.objs, d.objs)
    BY DEF PopObjs, Puts
  <1>3. PopSizes(h, dev.objs, d.objs)
    BY <1>1 DEF PopSizes
  <1>4. PopCache(h, dev.cache, d.cache)
    BY DEF PopCache
  <1>. QED
    BY <1>2, <1>3, <1>4

\* A header reaches the flash, and the header it replaces is forgotten.
LEMMA PutHdr ==
  ASSUME Ready(dev, order, flash, todo), todo # <<>>, Cur.do = "hdr", HasBlock,
         NEW f \in Files, NEW t \in Tags, t.obj = f, t.chunk = 0,
         NEW o0 \in Objects, o0.chunk = dev.objs[f].chunk, o0.size = dev.objs[f].size,
         NEW o1 \in Objects, o1.hdr = NewRef, o1.chunk = o0.chunk, o1.size = o0.size,
         NEW e1, e1 = ChunkDel(Kept(f, o1, Allocated(Kept(f, o0, dev))), dev.objs[f].hdr),
         NEW m \in BOOLEAN, NEW e, e = [e1 EXCEPT !.shrink[Target] = m]
  PROVE  Ready(e, TakenOrder, Programmed(t), Rest)
  <1>. DEFINE d0 == Kept(f, o0, dev)
              a == Allocated(d0)
              d == Kept(f, o1, a)
              fl == Programmed(t)
  <1>1. /\ Good(dev, order, flash) /\ Accounts /\ dev \in Devs /\ NoneCollected(dev)
        /\ Target \in Blocks
    BY ReadyIs, TargetIs
  <1>2. /\ d0 \in Devs /\ SameBlocks(dev, d0) /\ d0.cache = dev.cache
        /\ d0.objs[f] = o0 /\ \A g \in Files : g # f => d0.objs[g] = dev.objs[g]
    BY <1>1, KeptIs
  <1>. HIDE DEF d0
  <1>3. a \in Devs /\ a.objs = d0.objs /\ a.cache = d0.cache
    BY <1>1, <1>2, ProgramOK
  <1>4. SameBlocks(Allocated(dev), a)
    BY <1>1, <1>2, AllocatedSame
  <1>. HIDE DEF a
  <1>5. /\ d \in Devs /\ SameBlocks(a, d) /\ d.cache = a.cache
        /\ d.objs[f] = o1 /\ \A g \in Files : g # f => d.objs[g] = a.objs[g]
    BY <1>3, KeptIs
  <1>. HIDE DEF d
  <1>6. SameBlocks(Allocated(dev), d)
    BY <1>4, <1>5, SameBlocksTrans
  <1>7. \A g \in Files : d.objs[g].chunk = dev.objs[g].chunk /\ d.objs[g].size = dev.objs[g].size
    <2>1. ASSUME NEW g \in Files
          PROVE  d.objs[g].chunk = dev.objs[g].chunk /\ d.objs[g].size = dev.objs[g].size
      <3>1. CASE g = f
        BY <1>5, <3>1
      <3>2. CASE g # f
        BY <1>2, <1>3, <1>5, <3>2
      <3>. QED
        BY <3>1, <3>2
    <2>. QED
      BY <2>1
  <1>8. Ptr(d.objs, t.obj, t.chunk) = NewRef /\ Ptr(dev.objs, t.obj, t.chunk) = dev.objs[f].hdr
    BY <1>5 DEF Ptr
  <1>9. ASSUME NEW g \in Files, NEW k \in 0 .. MaxChunk, <<g, k>> # <<t.obj, t.chunk>>
        PROVE  Ptr(d.objs, g, k) = Ptr(dev.objs, g, k)
    <2>1. CASE g # f
      BY <1>2, <1>3, <1>5, <2>1 DEF Ptr
    <2>2. CASE g = f
      <3>1. k # 0
        BY <1>9, <2>2
      <3>. QED
        BY <1>7, <3>1 DEF Ptr
    <2>. QED
      BY <2>1, <2>2
  <1>10. d.cache = dev.cache
    BY <1>2, <1>3, <1>5
  <1>11. ChunksInside(d.objs) /\ CacheInside(d)
    BY <1>5, <1>7, <1>10, SameInside
  <1>12. e1 = ChunkDel(d, Ptr(dev.objs, t.obj, t.chunk))
    BY <1>8 DEF d, a, d0
  <1>13. /\ Good(e1, TakenOrder, fl) /\ e1.objs = d.objs /\ e1.cache = d.cache
         /\ \A b \in Blocks : e1.state[b] = "COLLECTING" => dev.state[b] = "COLLECTING"
    BY <1>1, <1>5, <1>6, <1>8, <1>9, <1>11, <1>12, PutOK
  <1>. HIDE DEF fl
  <1>14. /\ Good(e, TakenOrder, fl) /\ e.objs = e1.objs /\ e.cache = e1.cache
         /\ e.state = e1.state
    BY <1>1, <1>13, MarkedGood
  <1>15. NoneCollected(e)
    BY <1>1, <1>13, <1>14, SMTT(30) DEF NoneCollected
  <1>16. /\ e.cache = dev.cache
         /\ \A g \in Files : e.objs[g].chunk = dev.objs[g].chunk /\ e.objs[g].size = dev.objs[g].size
    BY <1>7, <1>10, <1>13, <1>14
  <1>17. /\ PopObjs(Cur, dev.objs, e.objs) /\ PopSizes(Cur, dev.objs, e.objs)
         /\ PopCache(Cur, dev.cache, e.cache)
    <2>. DEFINE h == Cur
    <2>1. h.do \notin {"prune", "data"}
      OBVIOUS
    <2>. HIDE DEF h
    <2>2. /\ PopObjs(h, dev.objs, e.objs) /\ PopSizes(h, dev.objs, e.objs)
          /\ PopCache(h, dev.cache, e.cache)
      BY <1>1, <1>16, <2>1, PopKept
    <2>. QED
      BY <2>2 DEF h
  <1>18. Ready(e, TakenOrder, fl, Rest)
    BY <1>14, <1>15, <1>17, PopReady
  <1>. QED
    BY <1>18 DEF fl

\* The chunks and the pages stay: the next step follows.
LEMMA SkipReady ==
  ASSUME Ready(dev, order, flash, todo), todo # <<>>, Cur.do \notin {"prune", "data", "copy"},
         NEW d, NEW ord, NEW fl, Good(d, ord, fl), NoneCollected(d), d.cache = dev.cache,
         \A g \in Files : d.objs[g].chunk = dev.objs[g].chunk /\ d.objs[g].size = dev.objs[g].size
  PROVE  Ready(d, ord, fl, Rest)
  <1>1. dev \in Devs
    BY ReadyIs
  <1>2. /\ PopObjs(Cur, dev.objs, d.objs) /\ PopSizes(Cur, dev.objs, d.objs)
        /\ PopCache(Cur, dev.cache, d.cache)
    <2>. DEFINE h == Cur
    <2>1. h.do \notin {"prune", "data"}
      OBVIOUS
    <2>. HIDE DEF h
    <2>2. /\ PopObjs(h, dev.objs, d.objs) /\ PopSizes(h, dev.objs, d.objs)
          /\ PopCache(h, dev.cache, d.cache)
      BY <1>1, <2>1, PopKept
    <2>. QED
      BY <2>2 DEF h
  <1>. QED
    BY <1>2, PopReady

\* The reserve is refused to a header, and the operation goes on without it.
LEMMA SkipRefused ==
  ASSUME Ready(dev, order, flash, todo), todo # <<>>, Cur.do = "hdr", NoneCollected(dev),
         AllocRefused, todo' = Rest
  PROVE  Ready(dev', order', flash', todo')
  <1>. DEFINE d == dev'
              ord == order'
              fl == flash'
              h == Cur
  <1>1. /\ Good(d, ord, fl) /\ NoneCollected(d)
        /\ d.objs = dev.objs /\ d.cache = dev.cache
    BY RefusedOK
  <1>. HIDE DEF d, ord, fl
  <1>2. \A g \in Files : d.objs[g].chunk = dev.objs[g].chunk /\ d.objs[g].size = dev.objs[g].size
    BY <1>1
  <1>3. Ready(d, ord, fl, Rest)
    BY <1>1, <1>2, SkipReady
  <1>. QED
    BY <1>3 DEF d, ord, fl

\* A new file that cannot be made is deleted.
LEMMA UndoRefused ==
  ASSUME Ready(dev, order, flash, todo), NoneCollected(dev), NEW f \in Files,
         AllocRefused, todo' = DelObj(f, dev.objs) \o <<End("failed")>>
  PROVE  Ready(dev', order', flash', todo')
  <1>1. /\ Good(dev', order', flash') /\ NoneCollected(dev')
        /\ dev'.objs = dev.objs /\ dev'.cache = dev.cache
    BY RefusedOK
  <1>. DEFINE d == dev'
              ord == order'
              fl == flash'
              E == <<End("failed")>>
              s == DelObj(f, dev.objs) \o E
  <1>2. dev \in Devs /\ CacheInside(dev) /\ ChunksInside(dev.objs)
    BY ReadyIs
  <1>3. E \in Seq(StepSet) /\ \A i \in 1 .. Len(E) : E[i].do \in {"gc", "hdr", "end"}
    <2>1. E \in Seq(StepSet)
      BY FailedCalm
    <2>2. End("failed").do = "end"
      BY DEF End
    <2>. QED
      BY <2>1, <2>2
  <1>. HIDE DEF E
  <1>4. s \in Seq(StepSet) /\ Calm(s, dev.objs, dev.cache)
    BY <1>2, <1>3, DeletionOK
  <1>. HIDE DEF d, ord, fl, s
  <1>5. Good(d, ord, fl) /\ NoneCollected(d) /\ d.objs = dev.objs /\ d.cache = dev.cache
    BY <1>1 DEF d, ord, fl
  <1>6. Ready(d, ord, fl, s)
    BY <1>4, <1>5, CalmReady
  <1>. QED
    BY <1>6 DEF d, ord, fl, s, E

\* The header of a file that has one already need not be written.
LEMMA SkipHdr ==
  ASSUME Ready(dev, order, flash, todo), todo # <<>>, Cur.do = "hdr", NEW f \in Files,
         NEW o \in Objects, o.hdr = dev.objs[f].hdr, o.chunk = dev.objs[f].chunk,
         o.size = dev.objs[f].size
  PROVE  Ready(Kept(f, o, dev), order, flash, Rest)
  <1>. DEFINE d == Kept(f, o, dev)
  <1>1. dev \in Devs /\ NoneCollected(dev)
    BY ReadyIs
  <1>2. /\ d \in Devs /\ SameBlocks(dev, d) /\ d.cache = dev.cache
        /\ d.objs[f] = o /\ \A g \in Files : g # f => d.objs[g] = dev.objs[g]
    BY <1>1, KeptIs
  <1>. HIDE DEF d
  <1>3. \A g \in Files : d.objs[g].chunk = dev.objs[g].chunk /\ d.objs[g].size = dev.objs[g].size
    BY <1>2
  <1>4. \A g \in Files : d.objs[g].hdr = dev.objs[g].hdr /\ d.objs[g].chunk = dev.objs[g].chunk
    BY <1>2
  <1>5. ChunksInside(d.objs) /\ CacheInside(d)
    BY <1>2, <1>3, SameInside
  <1>6. Good(d, order, flash)
    BY <1>2, <1>4, <1>5, KeepReady
  <1>7. NoneCollected(d)
    BY <1>1, <1>2 DEF NoneCollected, SameBlocks
  <1>8. Ready(d, order, flash, Rest)
    BY <1>2, <1>3, <1>6, <1>7, SkipReady
  <1>. QED
    BY <1>8 DEF d

\* yaffs_update_oh
LEMMA WriteHdrStep ==
  ASSUME Ready(dev, order, flash, todo), WriteHdr
  PROVE  Ready(dev', order', flash', todo')
  <1>1. /\ todo # <<>> /\ Cur.do = "hdr" /\ Cur \in StepSet
        /\ dev \in Devs /\ NoneCollected(dev) /\ Good(dev, order, flash)
    <2>1. todo # <<>> /\ Cur.do = "hdr"
      BY Zenon DEF WriteHdr, Running, Cur
    <2>. QED
      BY <2>1, ReadyIs
  <1>. DEFINE f == Cur.f
              dir == Cur.dir
              name == Cur.name
              sh == Cur.shrink
              over == Cur.shadows
              o0 == Renamed(dev.objs[f], dir, name)
              dirty == Cached(f) # {}
              o1 == Headed(o0, NewRef, dirty)
              size == IF dir \in {"unlinked", "deleted"} THEN 0 ELSE dev.objs[f].size
              t == HdrTag(f, size, dir, name, sh, over)
              e1 == ChunkDel(Kept(f, o1, Allocated(Kept(f, o0, dev))), dev.objs[f].hdr)
              m == e1.shrink[Target] \/ sh
              e == [e1 EXCEPT !.shrink[Target] = m]
  <1>2. /\ f \in Files /\ dir \in TagDirs /\ sh \in BOOLEAN /\ over \in Files \cup {0}
    BY <1>1, HdrFields
  <1>n. name \in NameSet
    BY <1>1, HdrName
  <1>3. \/ /\ HasBlock /\ flash' = Programmed(t) /\ order' = TakenOrder
           /\ dev' = e /\ todo' = Rest
        \/ dev' = Kept(f, o0, dev) /\ todo' = Rest /\ flash' = flash /\ order' = order
        \/ AllocRefused /\ todo' = Rest
        \/ AllocRefused /\ todo' = DelObj(f, dev.objs) \o <<End("failed")>>
    BY Zenon DEF WriteHdr, CanAlloc, Program, TakeBlock, Programmed, TakenOrder, Kept, Obj, Renamed, Headed
  <1>4. dev.objs[f] \in Objects
    BY <1>1, <1>2, DevFields
  <1>5. dev.objs[f].size \in 0 .. MaxChunk /\ size \in 0 .. MaxChunk /\ dirty \in BOOLEAN
    BY <1>4, ObjectFields, ZeroIn
  <1>. HIDE DEF f, dir, name, sh, over, o0, dirty, o1, size, t, e1, m, e
  <1>6. /\ o0 \in Objects /\ o0.hdr = dev.objs[f].hdr /\ o0.chunk = dev.objs[f].chunk
        /\ o0.size = dev.objs[f].size
    BY <1>2, <1>n, <1>4, RenamedIs DEF o0
  <1>7. CASE /\ HasBlock /\ flash' = Programmed(t) /\ order' = TakenOrder
             /\ dev' = e /\ todo' = Rest
    <2>1. t \in Tags /\ t.obj = f /\ t.chunk = 0
      <3>1. size \in 0 .. MaxChunk
        BY <1>5
      <3>. QED
        BY <1>2, <1>n, <3>1, HdrTagOK DEF t
    <2>2. NewRef \in Refs
      BY <1>1, <1>7, <2>1, ProgramOK, GoodAccounts DEF Refs, SameBlocks
    <2>3. o1 \in Objects /\ o1.hdr = NewRef /\ o1.chunk = o0.chunk /\ o1.size = o0.size
      BY <1>5, <1>6, <2>2, HeadedIs DEF o1
    <2>4. m \in BOOLEAN
      BY DEF m
    <2>5. e1 = ChunkDel(Kept(f, o1, Allocated(Kept(f, o0, dev))), dev.objs[f].hdr)
      BY DEF e1
    <2>6. e = [e1 EXCEPT !.shrink[Target] = m]
      BY DEF e
    <2>7. Ready(e, TakenOrder, Programmed(t), Rest)
      BY <1>1, <1>2, <1>6, <1>7, <2>1, <2>3, <2>4, <2>5, <2>6, PutHdr
    <2>. QED
      BY <1>7, <2>7
  <1>8. CASE dev' = Kept(f, o0, dev) /\ todo' = Rest /\ flash' = flash /\ order' = order
    <2>1. Ready(Kept(f, o0, dev), order, flash, Rest)
      BY <1>1, <1>2, <1>6, SkipHdr
    <2>. QED
      BY <1>8, <2>1
  <1>9. CASE AllocRefused /\ todo' = Rest
    BY <1>1, <1>9, SkipRefused
  <1>10. CASE AllocRefused /\ todo' = DelObj(f, dev.objs) \o <<End("failed")>>
    BY <1>1, <1>2, <1>10, UndoRefused
  <1>. QED
    BY <1>3, <1>7, <1>8, <1>9, <1>10

Unput(o, c) == [o EXCEPT !.chunk[c] = NoRef]
Sized(o, n) == [o EXCEPT !.size = n]

\* The fields of an object without one of its chunks.
LEMMA UnputIs ==
  ASSUME NEW o \in Objects, NEW c \in Chunks
  PROVE  LET p == Unput(o, c) IN
         /\ p \in Objects /\ p.hdr = o.hdr /\ p.size = o.size /\ p.chunk[c] = NoRef
         /\ \A k \in Chunks : k # c => p.chunk[k] = o.chunk[k]
  <1>1. o.chunk \in [Chunks -> Refs] /\ NoRef \in Refs
    BY ObjectFields DEF Refs
  <1>. DEFINE g == [o.chunk EXCEPT ![c] = NoRef]
              p == [o EXCEPT !.chunk = g]
  <1>2. Unput(o, c) = p
    BY DEF Unput
  <1>3. /\ g \in [Chunks -> Refs] /\ g[c] = NoRef
        /\ \A k \in Chunks : k # c => g[k] = o.chunk[k]
    BY <1>1
  <1>. HIDE DEF g
  <1>4. p \in Objects /\ p.hdr = o.hdr /\ p.size = o.size /\ p.chunk = g
    BY <1>3 DEF Objects
  <1>. QED
    BY <1>2, <1>3, <1>4

\* The fields of an object of another size.
LEMMA SizedIs ==
  ASSUME NEW o \in Objects, NEW n \in 0 .. MaxChunk
  PROVE  LET p == Sized(o, n) IN
         p \in Objects /\ p.hdr = o.hdr /\ p.chunk = o.chunk /\ p.size = n
  <1>. DEFINE p == Sized(o, n)
  <1>1. p.hdr = o.hdr /\ p.chunk = o.chunk /\ p.size = n
    BY DEF Sized, Objects
  <1>2. p \in Objects
    BY DEF Sized, Objects
  <1>. QED
    BY <1>1, <1>2

\* One chunk of a file goes: the invariant before and after yaffs_chunk_del.
LEMMA PruneStep ==
  ASSUME Ready(dev, order, flash, todo), todo # <<>>, Cur.do = "prune"
  PROVE  LET e == ChunkDel(Kept(Cur.f, Unput(dev.objs[Cur.f], Cur.c), dev),
                           dev.objs[Cur.f].chunk[Cur.c])
         IN  Ready(e, order, flash, Rest)
  <1>. DEFINE f == Cur.f
              c == Cur.c
              o == Unput(dev.objs[f], c)
              d == Kept(f, o, dev)
              e == ChunkDel(d, dev.objs[f].chunk[c])
  <1>1. /\ Good(dev, order, flash) /\ dev \in Devs /\ NoneCollected(dev) /\ Cur \in StepSet
        /\ ChunksInside(dev.objs) /\ CacheInside(dev)
    BY ReadyIs
  <1>2. f \in Files /\ c \in Chunks
    <2>1. Cur \in PruneSteps
      BY <1>1, StepKinds
    <2>. QED
      BY <2>1 DEF PruneSteps
  <1>3. \A g \in Files : dev.objs[g] \in Objects
    BY <1>1, DevFields
  <1>4. /\ o \in Objects /\ o.hdr = dev.objs[f].hdr /\ o.size = dev.objs[f].size
        /\ o.chunk[c] = NoRef /\ \A k \in Chunks : k # c => o.chunk[k] = dev.objs[f].chunk[k]
    BY <1>2, <1>3, UnputIs
  <1>. HIDE DEF o
  <1>5. /\ d \in Devs /\ SameBlocks(dev, d) /\ d.cache = dev.cache
        /\ d.objs[f] = o /\ \A g \in Files : g # f => d.objs[g] = dev.objs[g]
    BY <1>1, <1>2, <1>4, KeptIs
  <1>6. e = ChunkDel(d, dev.objs[f].chunk[c])
    OBVIOUS
  <1>. HIDE DEF d, e
  <1>7. \A g \in Files : d.objs[g].size = dev.objs[g].size
    BY <1>4, <1>5
  <1>8. \A g \in Files : \A k \in Chunks :
          d.objs[g].chunk[k] = (IF g = f /\ k = c THEN NoRef ELSE dev.objs[g].chunk[k])
    <2>1. ASSUME NEW g \in Files, NEW k \in Chunks
          PROVE  d.objs[g].chunk[k] = (IF g = f /\ k = c THEN NoRef ELSE dev.objs[g].chunk[k])
      <3>1. CASE g = f
        BY <1>4, <1>5, <3>1
      <3>2. CASE g # f
        BY <1>5, <3>2
      <3>. QED
        BY <3>1, <3>2
    <2>. QED
      BY <2>1
  <1>9. c # 0 /\ c \in 0 .. MaxChunk
    BY <1>2, ChunksAre
  <1>10. Ptr(d.objs, f, c) = NoRef /\ Ptr(dev.objs, f, c) = dev.objs[f].chunk[c]
    BY <1>2, <1>8, <1>9 DEF Ptr
  <1>11. ASSUME NEW g \in Files, NEW k \in 0 .. MaxChunk, <<g, k>> # <<f, c>>
         PROVE  Ptr(d.objs, g, k) = Ptr(dev.objs, g, k)
    <2>1. CASE k = 0
      BY <1>4, <1>5, <2>1 DEF Ptr
    <2>2. CASE k # 0
      <3>1. k \in Chunks
        BY <2>2, ChunksAre
      <3>. QED
        BY <1>8, <1>11, <2>2, <3>1 DEF Ptr
    <2>. QED
      BY <2>1, <2>2
  <1>12. ChunksInside(d.objs)
    BY <1>1, <1>7, <1>8 DEF ChunksInside
  <1>13. CacheInside(d)
    BY <1>1, <1>5, <1>7, DevFields DEF CacheInside, Cachings
  <1>14. /\ Good(e, order, flash) /\ e.objs = d.objs /\ e.cache = d.cache
         /\ \A b \in Blocks : e.state[b] = "COLLECTING" => dev.state[b] = "COLLECTING"
    <2>. DEFINE x == ChunkDel(d, Ptr(dev.objs, f, c))
    <2>1. e = x
      BY <1>6, <1>10
    <2>2. \A g \in Files : \A k \in 0 .. MaxChunk :
            <<g, k>> # <<f, c>> => Ptr(d.objs, g, k) = Ptr(dev.objs, g, k)
      BY <1>11
    <2>3. Good(dev, order, flash) /\ f \in Files /\ c \in 0 .. MaxChunk /\ d \in Devs
          /\ SameBlocks(dev, d) /\ Ptr(d.objs, f, c) = NoRef
      BY <1>1, <1>2, <1>5, <1>9, <1>10
    <2>. HIDE DEF f, c
    <2>4. /\ Good(x, order, flash) /\ x.objs = d.objs /\ x.cache = d.cache
          /\ \A b \in Blocks : x.state[b] = "COLLECTING" => dev.state[b] = "COLLECTING"
      BY <1>12, <1>13, <2>2, <2>3, DropOK
    <2>. QED
      BY <2>1, <2>4
  <1>15. NoneCollected(e)
    BY <1>1, <1>14 DEF NoneCollected
  <1>16. PopObjs(Cur, dev.objs, e.objs)
    <2>1. ASSUME NEW g \in Files, NEW k \in Chunks, dev.objs[g].chunk[k] = NoRef
          PROVE  e.objs[g].chunk[k] = NoRef
      BY <1>8, <1>14, <2>1
    <2>2. e.objs[f].chunk[c] = NoRef
      BY <1>2, <1>8, <1>14
    <2>. QED
      BY <2>1, <2>2 DEF PopObjs
  <1>17. PopSizes(Cur, dev.objs, e.objs)
    <2>1. \A g \in Files : e.objs[g].size = dev.objs[g].size /\ dev.objs[g].size \in Nat
      BY <1>3, <1>7, <1>14, ObjectFields
    <2>2. ASSUME NEW g \in Files PROVE e.objs[g].size <= dev.objs[g].size
      BY <2>1
    <2>3. ASSUME NEW g \in Files PROVE e.objs[g].size >= dev.objs[g].size
      BY <2>1
    <2>. QED
      BY <2>2, <2>3 DEF PopSizes
  <1>18. PopCache(Cur, dev.cache, e.cache)
    BY <1>5, <1>14 DEF PopCache
  <1>. QED
    <2>1. Ready(e, order, flash, Rest)
      BY <1>14, <1>15, <1>16, <1>17, <1>18, PopReady
    <2>. QED
      BY <2>1 DEF e, d, o

\* The size of a file is set: the list says what this size does.
LEMMA SizeFirst ==
  ASSUME Ready(dev, order, flash, todo), todo # <<>>, Cur.do = "size"
  PROVE  /\ Cur.f \in Files /\ Cur.n \in 0 .. MaxChunk
         /\ \/ /\ \A c \in Chunks : c > Cur.n => dev.objs[Cur.f].chunk[c] = NoRef
               /\ \A e \in dev.cache : ~(e.f = Cur.f /\ e.c > Cur.n)
            \/ dev.objs[Cur.f].size <= Cur.n
  <1>1. /\ Todo(todo, dev.objs, dev.cache) /\ Cur = todo[1] /\ Cur \in StepSet
        /\ todo \in Seq(StepSet)
    BY ReadyIs
  <1>2. Cur.f \in Files /\ Cur.n \in 0 .. MaxChunk
    <2>1. Cur \in SizeSteps
      BY <1>1, StepKinds
    <2>. QED
      BY <2>1 DEF SizeSteps
  <1>3. 1 \in 1 .. Len(todo)
    BY <1>1
  <1>4. Shrinks(todo, 1, dev.objs, dev.cache) \/ Grows(todo, 1, dev.objs)
    BY <1>1, <1>3 DEF Todo, SizesOK
  <1>5. CASE Shrinks(todo, 1, dev.objs, dev.cache)
    <2>1. ASSUME NEW c \in Chunks, c > Cur.n PROVE dev.objs[Cur.f].chunk[c] = NoRef
      <3>1. GoneBy(todo, 1, dev.objs, Cur.f, c)
        BY <1>1, <1>5, <2>1 DEF Shrinks, AllGone
      <3>. QED
        BY <3>1 DEF GoneBy
    <2>2. ASSUME NEW e \in dev.cache, e.f = Cur.f, e.c > Cur.n PROVE FALSE
      <3>1. Flushed(todo, 1, e)
        BY <1>1, <1>5, <2>2 DEF Shrinks
      <3>. QED
        BY <3>1 DEF Flushed
    <2>. QED
      BY <1>2, <2>1, <2>2
  <1>6. CASE Grows(todo, 1, dev.objs)
    BY <1>1, <1>2, <1>6 DEF Grows
  <1>. QED
    BY <1>4, <1>5, <1>6

\* The size of a file is set.
LEMMA SizeStep ==
  ASSUME Ready(dev, order, flash, todo), todo # <<>>, Cur.do = "size"
  PROVE  Ready(Kept(Cur.f, Sized(dev.objs[Cur.f], Cur.n), dev), order, flash, Rest)
  <1>. DEFINE f == Cur.f
              n == Cur.n
              o == Sized(dev.objs[f], n)
              d == Kept(f, o, dev)
  <1>1. /\ Good(dev, order, flash) /\ dev \in Devs /\ NoneCollected(dev)
        /\ ChunksInside(dev.objs) /\ CacheInside(dev)
    BY ReadyIs
  <1>2. /\ f \in Files /\ n \in 0 .. MaxChunk
        /\ \/ /\ \A c \in Chunks : c > n => dev.objs[f].chunk[c] = NoRef
              /\ \A e \in dev.cache : ~(e.f = f /\ e.c > n)
           \/ dev.objs[f].size <= n
    BY SizeFirst
  <1>3. \A g \in Files : dev.objs[g] \in Objects
    BY <1>1, DevFields
  <1>4. /\ o \in Objects /\ o.hdr = dev.objs[f].hdr /\ o.chunk = dev.objs[f].chunk /\ o.size = n
    BY <1>2, <1>3, SizedIs
  <1>. HIDE DEF o
  <1>5. /\ d \in Devs /\ SameBlocks(dev, d) /\ d.cache = dev.cache
        /\ d.objs[f] = o /\ \A g \in Files : g # f => d.objs[g] = dev.objs[g]
    BY <1>1, <1>2, <1>4, KeptIs
  <1>. HIDE DEF d
  <1>6. \A g \in Files : d.objs[g].hdr = dev.objs[g].hdr /\ d.objs[g].chunk = dev.objs[g].chunk
    BY <1>4, <1>5
  <1>7. \A g \in Files : dev.objs[g].size \in Nat
    BY <1>3, ObjectFields
  <1>8. ChunksInside(d.objs)
    <2>1. ASSUME NEW g \in Files, NEW k \in Chunks, d.objs[g].chunk[k] # NoRef
          PROVE  k <= d.objs[g].size
      <3>1. dev.objs[g].chunk[k] # NoRef
        BY <1>6, <2>1
      <3>2. k <= dev.objs[g].size /\ k \in Int
        BY <1>1, <3>1 DEF ChunksInside, Chunks
      <3>3. CASE g # f
        BY <1>5, <3>2, <3>3
      <3>4. CASE g = f
        BY <1>2, <1>4, <1>5, <1>7, <3>1, <3>2, <3>4
      <3>. QED
        BY <3>3, <3>4
    <2>. QED
      BY <2>1 DEF ChunksInside
  <1>9. CacheInside(d)
    <2>1. ASSUME NEW x \in d.cache PROVE x.c <= d.objs[x.f].size
      <3>1. x \in dev.cache /\ x \in Cachings
        BY <1>1, <1>5, <2>1, DevFields
      <3>2. x.c \in Int /\ x.f \in Files /\ x.c <= dev.objs[x.f].size
        BY <1>1, <3>1 DEF Cachings, Chunks, CacheInside
      <3>3. CASE x.f # f
        BY <1>5, <3>2, <3>3
      <3>4. CASE x.f = f
        <4>1. x.c <= n
          BY <1>2, <1>7, <3>1, <3>2, <3>4
        <4>. QED
          BY <1>4, <1>5, <3>4, <4>1
      <3>. QED
        BY <3>3, <3>4
    <2>. QED
      BY <2>1 DEF CacheInside
  <1>10. Good(d, order, flash)
    BY <1>5, <1>6, <1>8, <1>9, KeepReady
  <1>11. NoneCollected(d)
    BY <1>1, <1>5 DEF NoneCollected, SameBlocks
  <1>12. PopObjs(Cur, dev.objs, d.objs)
    BY <1>6 DEF PopObjs
  <1>13. PopSizes(Cur, dev.objs, d.objs)
    <2>1. ASSUME NEW g \in Files
          PROVE  d.objs[g].size <= dev.objs[g].size \/ Cur.f = g
      <3>1. CASE g # f
        <4>1. d.objs[g].size = dev.objs[g].size /\ dev.objs[g].size \in Nat
          BY <1>5, <1>7, <3>1
        <4>2. d.objs[g].size <= dev.objs[g].size
          BY <4>1
        <4>. QED
          BY <4>2
      <3>2. CASE g = f
        BY <3>2
      <3>. QED
        BY <3>1, <3>2
    <2>. QED
      BY <2>1 DEF PopSizes
  <1>14. PopCache(Cur, dev.cache, d.cache)
    BY <1>5 DEF PopCache
  <1>15. Ready(d, order, flash, Rest)
    BY <1>10, <1>11, <1>12, <1>13, <1>14, PopReady
  <1>. QED
    BY <1>15 DEF d, o

Released(f) == [dev EXCEPT !.objs[f] = NoObj, !.cache = @ \ Cached(f)]

\* An object that is not there points to nothing.
LEMMA NoObjIs ==
  NoObj \in Objects /\ NoObj.hdr = NoRef /\ NoObj.size = 0 /\ \A c \in Chunks : NoObj.chunk[c] = NoRef
  <1>1. NoObj \in Objects
    BY ChunksAre DEF NoObj, Objects, Refs
  <1>2. NoObj.hdr = NoRef /\ NoObj.size = 0 /\ \A c \in Chunks : NoObj.chunk[c] = NoRef
    BY DEF NoObj
  <1>. QED
    BY <1>1, <1>2

\* The fields of a device one file of which is gone.
LEMMA ReleasedIs ==
  ASSUME dev \in Devs, NEW f \in Files
  PROVE  LET d == Released(f) IN
         /\ d \in Devs /\ SameBlocks(dev, d)
         /\ d.objs[f] = NoObj /\ \A g \in Files : g # f => d.objs[g] = dev.objs[g]
         /\ \A e \in d.cache : e \in dev.cache /\ e.f # f
  <1>1. NoObj \in Objects /\ dev.objs \in [Files -> Objects] /\ dev.cache \subseteq Cachings
    BY NoObjIs, DevFields
  <1>. DEFINE C == dev.cache \ Cached(f)
              q == NoObj
              O == [dev.objs EXCEPT ![f] = q]
              d == [dev EXCEPT !.objs = O, !.cache = C]
  <1>2. C \subseteq Cachings /\ \A e \in C : e \in dev.cache /\ e.f # f
    BY <1>1 DEF Cached
  <1>3. Released(f) = d
    BY DEF Released
  <1>. HIDE DEF C, q
  <1>4. O \in [Files -> Objects] /\ O[f] = q /\ \A g \in Files : g # f => O[g] = dev.objs[g]
    BY <1>1 DEF q
  <1>. HIDE DEF O
  <1>5. d \in Devs /\ d.objs = O /\ d.cache = C
    BY <1>2, <1>4 DEF Devs
  <1>6. SameBlocks(dev, d)
    BY DEF SameBlocks, Devs
  <1>. QED
    BY <1>2, <1>3, <1>4, <1>5, <1>6 DEF q

\* A file that is freed has no chunks.
LEMMA FreeFirst ==
  ASSUME Ready(dev, order, flash, todo), todo # <<>>, Cur.do = "free"
  PROVE  Cur.f \in Files /\ \A c \in Chunks : dev.objs[Cur.f].chunk[c] = NoRef
  <1>1. /\ Todo(todo, dev.objs, dev.cache) /\ Cur = todo[1] /\ Cur \in StepSet
        /\ todo \in Seq(StepSet)
    BY ReadyIs
  <1>2. Cur.f \in Files
    <2>1. Cur \in FreeSteps
      BY <1>1, StepKinds
    <2>. QED
      BY <2>1 DEF FreeSteps
  <1>3. 1 \in 1 .. Len(todo)
    BY <1>1
  <1>4. AllGone(todo, 1, dev.objs, Cur.f, 0)
    BY <1>1, <1>3 DEF Todo, FreesOK
  <1>5. ASSUME NEW c \in Chunks PROVE dev.objs[Cur.f].chunk[c] = NoRef
    <2>1. c > 0
      BY DEF Chunks
    <2>2. GoneBy(todo, 1, dev.objs, Cur.f, c)
      BY <1>4, <2>1 DEF AllGone
    <2>. QED
      BY <2>2 DEF GoneBy
  <1>. QED
    BY <1>2, <1>5

\* A file is freed, and its header forgotten.
LEMMA FreeStep ==
  ASSUME Ready(dev, order, flash, todo), todo # <<>>, Cur.do = "free",
         NEW e, e = ChunkDel(Released(Cur.f), dev.objs[Cur.f].hdr)
  PROVE  Ready(e, order, flash, Rest)
  <1>. DEFINE f == Cur.f
              d == Released(f)
  <1>1. /\ Good(dev, order, flash) /\ dev \in Devs /\ NoneCollected(dev)
        /\ ChunksInside(dev.objs) /\ CacheInside(dev)
    BY ReadyIs
  <1>2. f \in Files /\ \A c \in Chunks : dev.objs[f].chunk[c] = NoRef
    BY FreeFirst
  <1>3. /\ d \in Devs /\ SameBlocks(dev, d)
        /\ d.objs[f] = NoObj /\ \A g \in Files : g # f => d.objs[g] = dev.objs[g]
        /\ \A x \in d.cache : x \in dev.cache /\ x.f # f
    BY <1>1, <1>2, ReleasedIs
  <1>. HIDE DEF d
  <1>4. NoObj.hdr = NoRef /\ NoObj.size = 0 /\ \A c \in Chunks : NoObj.chunk[c] = NoRef
    BY NoObjIs
  <1>5. \A g \in Files, k \in Chunks : d.objs[g].chunk[k] = dev.objs[g].chunk[k]
    BY <1>2, <1>3, <1>4
  <1>6. 0 \in 0 .. MaxChunk
    BY ZeroIn
  <1>7. Ptr(d.objs, f, 0) = NoRef /\ Ptr(dev.objs, f, 0) = dev.objs[f].hdr
    BY <1>3, <1>4 DEF Ptr
  <1>8. ASSUME NEW g \in Files, NEW k \in 0 .. MaxChunk, <<g, k>> # <<f, 0>>
        PROVE  Ptr(d.objs, g, k) = Ptr(dev.objs, g, k)
    <2>1. CASE k = 0
      BY <1>3, <1>8, <2>1 DEF Ptr
    <2>2. CASE k # 0
      <3>1. k \in Chunks
        BY <2>2, ChunksAre
      <3>. QED
        BY <1>5, <2>2, <3>1 DEF Ptr
    <2>. QED
      BY <2>1, <2>2
  <1>9. ChunksInside(d.objs)
    <2>1. ASSUME NEW g \in Files, NEW k \in Chunks, d.objs[g].chunk[k] # NoRef
          PROVE  k <= d.objs[g].size
      <3>1. g # f
        BY <1>2, <1>5, <2>1
      <3>. QED
        BY <1>1, <1>3, <2>1, <3>1 DEF ChunksInside
    <2>. QED
      BY <2>1 DEF ChunksInside
  <1>10. CacheInside(d)
    BY <1>1, <1>3, DevFields DEF CacheInside, Cachings
  <1>11. e = ChunkDel(d, Ptr(dev.objs, f, 0))
    BY <1>7 DEF d
  <1>12. /\ Good(e, order, flash) /\ e.objs = d.objs /\ e.cache = d.cache
         /\ \A b \in Blocks : e.state[b] = "COLLECTING" => dev.state[b] = "COLLECTING"
    <2>. DEFINE z == 0
    <2>1. /\ z \in 0 .. MaxChunk /\ Ptr(d.objs, f, z) = NoRef /\ e = ChunkDel(d, Ptr(dev.objs, f, z))
          /\ \A g \in Files : \A k \in 0 .. MaxChunk :
               <<g, k>> # <<f, z>> => Ptr(d.objs, g, k) = Ptr(dev.objs, g, k)
      BY <1>6, <1>7, <1>8, <1>11
    <2>. HIDE DEF z
    <2>. QED
      BY <1>1, <1>2, <1>3, <1>9, <1>10, <2>1, DropOK
  <1>13. NoneCollected(e)
    BY <1>1, <1>12 DEF NoneCollected
  <1>14. PopObjs(Cur, dev.objs, e.objs)
    BY <1>5, <1>12 DEF PopObjs
  <1>15. PopSizes(Cur, dev.objs, e.objs)
    <2>1. ASSUME NEW g \in Files PROVE e.objs[g].size <= dev.objs[g].size
      <3>0. dev.objs[g] \in Objects
        BY <1>1, DevFields
      <3>1. dev.objs[g].size \in Nat
        BY <3>0, ObjectFields
      <3>2. CASE g = f
        BY <1>3, <1>4, <1>12, <3>1, <3>2
      <3>3. CASE g # f
        BY <1>3, <1>12, <3>1, <3>3
      <3>. QED
        BY <3>2, <3>3
    <2>. QED
      BY <2>1 DEF PopSizes
  <1>16. PopCache(Cur, dev.cache, e.cache)
    BY <1>3, <1>12 DEF PopCache
  <1>. QED
    BY <1>12, <1>13, <1>14, <1>15, <1>16, PopReady

\* The steps that touch memory only.
LEMMA ForgetStep ==
  ASSUME Ready(dev, order, flash, todo), Forget
  PROVE  Ready(dev', order', flash', todo')
  <1>1. todo # <<>> /\ todo' = Rest /\ flash' = flash /\ order' = order
    BY DEF Forget, Running
  <1>2. CASE /\ Running("prune")
             /\ dev' = ChunkDel([dev EXCEPT !.objs[Cur.f].chunk[Cur.c] = NoRef],
                                Obj(Cur.f).chunk[Cur.c])
    <2>1. Cur.do = "prune"
      BY <1>2 DEF Running, Cur
    <2>2. dev' = ChunkDel(Kept(Cur.f, Unput(dev.objs[Cur.f], Cur.c), dev), dev.objs[Cur.f].chunk[Cur.c])
      BY <1>2 DEF Kept, Unput, Obj
    <2>. QED
      BY <1>1, <2>1, <2>2, PruneStep
  <1>3. CASE /\ Running("size")
             /\ dev' = [dev EXCEPT !.objs[Cur.f].size = Cur.n]
    <2>1. Cur.do = "size"
      BY <1>3 DEF Running, Cur
    <2>2. dev' = Kept(Cur.f, Sized(dev.objs[Cur.f], Cur.n), dev)
      BY <1>3 DEF Kept, Sized
    <2>. QED
      BY <1>1, <2>1, <2>2, SizeStep
  <1>4. CASE /\ Running("free")
             /\ dev' = ChunkDel([dev EXCEPT !.objs[Cur.f] = NoObj,
                                            !.cache = @ \ Cached(Cur.f)], Obj(Cur.f).hdr)
    <2>1. Cur.do = "free"
      BY <1>4 DEF Running, Cur
    <2>2. dev' = ChunkDel(Released(Cur.f), dev.objs[Cur.f].hdr)
      BY <1>4 DEF Released, Obj
    <2>. QED
      BY <1>1, <2>1, <2>2, FreeStep
  <1>. QED
    BY <1>2, <1>3, <1>4 DEF Forget

Caching(f, c, v, o) ==
  [dev EXCEPT !.cache = (@ \ {e \in Cached(f) : e.c = c}) \cup {[f |-> f, c |-> c, v |-> v]},
              !.objs[f] = o]

\* The fields of a device with one more chunk in its cache.
LEMMA CachingIs ==
  ASSUME dev \in Devs, NEW f \in Files, NEW c \in Chunks, NEW v \in 0 .. MaxOps, NEW o \in Objects
  PROVE  LET d == Caching(f, c, v, o) IN
         /\ d \in Devs /\ SameBlocks(dev, d)
         /\ d.objs[f] = o /\ \A g \in Files : g # f => d.objs[g] = dev.objs[g]
         /\ \A x \in d.cache : x \in dev.cache \/ (x.f = f /\ x.c = c)
  <1>1. dev.objs \in [Files -> Objects] /\ dev.cache \subseteq Cachings
    BY DevFields
  <1>. DEFINE x0 == [f |-> f, c |-> c, v |-> v]
              C == (dev.cache \ {e \in Cached(f) : e.c = c}) \cup {x0}
              O == [dev.objs EXCEPT ![f] = o]
              d == [dev EXCEPT !.cache = C, !.objs = O]
  <1>2. x0 \in Cachings /\ x0.f = f /\ x0.c = c
    BY DEF Cachings
  <1>3. Caching(f, c, v, o) = d
    BY DEF Caching
  <1>. HIDE DEF x0
  <1>4. C \subseteq Cachings /\ \A x \in C : x \in dev.cache \/ (x.f = f /\ x.c = c)
    BY <1>1, <1>2
  <1>. HIDE DEF C
  <1>5. O \in [Files -> Objects] /\ O[f] = o /\ \A g \in Files : g # f => O[g] = dev.objs[g]
    BY <1>1
  <1>. HIDE DEF O
  <1>6. d \in Devs /\ d.objs = O /\ d.cache = C
    BY <1>4, <1>5 DEF Devs
  <1>7. SameBlocks(dev, d)
    BY DEF SameBlocks, Devs
  <1>. QED
    BY <1>3, <1>4, <1>5, <1>6, <1>7

Touched(o, n) == [o EXCEPT !.size = n, !.dirty = TRUE]

\* The fields of an object that was written to.
LEMMA TouchedIs ==
  ASSUME NEW o \in Objects, NEW n \in 0 .. MaxChunk
  PROVE  LET p == Touched(o, n) IN
         p \in Objects /\ p.hdr = o.hdr /\ p.chunk = o.chunk /\ p.size = n
  <1>. DEFINE p == Touched(o, n)
  <1>1. p.hdr = o.hdr /\ p.chunk = o.chunk /\ p.size = n
    BY DEF Touched, Objects
  <1>2. p \in Objects
    BY DEF Touched, Objects
  <1>. QED
    BY <1>1, <1>2

\* A chunk enters the cache.
LEMMA CacheStep ==
  ASSUME Ready(dev, order, flash, todo), todo # <<>>, Cur.do = "cache",
         NEW f \in Files, f = Cur.f, NEW c \in Chunks, c = Cur.c, NEW v \in 0 .. MaxOps,
         NEW s \in 0 .. MaxChunk, c <= s, dev.objs[f].size <= s,
         s = dev.objs[f].size \/ s = c
  PROVE  Ready(Caching(f, c, v, Touched(dev.objs[f], s)), order, flash, Rest)
  <1>. DEFINE o == Touched(dev.objs[f], s)
              d == Caching(f, c, v, o)
  <1>1. /\ Good(dev, order, flash) /\ dev \in Devs /\ NoneCollected(dev)
        /\ ChunksInside(dev.objs) /\ CacheInside(dev)
    BY ReadyIs
  <1>2. \A g \in Files : dev.objs[g] \in Objects
    BY <1>1, DevFields
  <1>3. /\ o \in Objects /\ o.hdr = dev.objs[f].hdr /\ o.chunk = dev.objs[f].chunk /\ o.size = s
    BY <1>2, TouchedIs
  <1>. HIDE DEF o
  <1>4. /\ d \in Devs /\ SameBlocks(dev, d)
        /\ d.objs[f] = o /\ \A g \in Files : g # f => d.objs[g] = dev.objs[g]
        /\ \A x \in d.cache : x \in dev.cache \/ (x.f = f /\ x.c = c)
    BY <1>1, <1>3, CachingIs
  <1>. HIDE DEF d
  <1>5. \A g \in Files : d.objs[g].hdr = dev.objs[g].hdr /\ d.objs[g].chunk = dev.objs[g].chunk
    BY <1>3, <1>4
  <1>6. \A g \in Files : dev.objs[g].size \in Nat
    BY <1>2, ObjectFields
  <1>7. \A g \in Files : d.objs[g].size \in Nat
    <2>1. ASSUME NEW g \in Files PROVE d.objs[g].size \in Nat
      <3>1. d.objs[g] \in Objects
        BY <1>4, DevFields
      <3>. QED
        BY <3>1, ObjectFields
    <2>. QED
      BY <2>1
  <1>8. ASSUME NEW g \in Files PROVE d.objs[g].size >= dev.objs[g].size
    <2>1. CASE g = f
      BY <1>3, <1>4, <1>6, <2>1
    <2>2. CASE g # f
      BY <1>4, <1>6, <2>2
    <2>. QED
      BY <2>1, <2>2
  <1>9. ChunksInside(d.objs)
    <2>1. ASSUME NEW g \in Files, NEW k \in Chunks, d.objs[g].chunk[k] # NoRef
          PROVE  k <= d.objs[g].size
      <3>1. k <= dev.objs[g].size /\ k \in Int
        BY <1>1, <1>5, <2>1 DEF ChunksInside, Chunks
      <3>. QED
        BY <1>6, <1>7, <1>8, <3>1
    <2>. QED
      BY <2>1 DEF ChunksInside
  <1>10. CacheInside(d)
    <2>1. ASSUME NEW x \in d.cache PROVE x.c <= d.objs[x.f].size
      <3>1. CASE x \in dev.cache
        <4>1. x.c \in Int /\ x.f \in Files /\ x.c <= dev.objs[x.f].size
          BY <1>1, <3>1, DevFields DEF Cachings, Chunks, CacheInside
        <4>. QED
          BY <1>6, <1>7, <1>8, <4>1
      <3>2. CASE x.f = f /\ x.c = c
        BY <1>3, <1>4, <3>2
      <3>. QED
        BY <1>4, <3>1, <3>2
    <2>. QED
      BY <2>1 DEF CacheInside
  <1>11. Good(d, order, flash)
    BY <1>4, <1>5, <1>9, <1>10, KeepReady
  <1>12. NoneCollected(d)
    BY <1>1, <1>4 DEF NoneCollected, SameBlocks
  <1>13. PopObjs(Cur, dev.objs, d.objs)
    BY <1>5 DEF PopObjs
  <1>14. PopSizes(Cur, dev.objs, d.objs)
    <2>1. ASSUME NEW g \in Files
          PROVE  d.objs[g].size <= dev.objs[g].size \/ (Cur.f = g /\ d.objs[g].size <= Cur.c)
      <3>1. CASE g # f
        <4>1. d.objs[g].size <= dev.objs[g].size
          BY <1>4, <1>6, <3>1
        <4>. QED
          BY <4>1
      <3>2. CASE g = f /\ s = dev.objs[f].size
        <4>1. d.objs[g].size <= dev.objs[g].size
          BY <1>3, <1>4, <1>6, <3>2
        <4>. QED
          BY <4>1
      <3>3. CASE g = f /\ s = c
        <4>1. d.objs[g].size <= c
          BY <1>3, <1>4, <1>7, <3>3
        <4>. QED
          BY <3>3, <4>1
      <3>. QED
        BY <3>1, <3>2, <3>3
    <2>2. \A g \in Files : \/ d.objs[g].size <= dev.objs[g].size
                           \/ Cur.do \in {"data", "cache"} /\ Cur.f = g /\ d.objs[g].size <= Cur.c
                           \/ Cur.do = "size" /\ Cur.f = g
      BY <2>1
    <2>. QED
      BY <1>8, <2>2 DEF PopSizes
  <1>15. PopCache(Cur, dev.cache, d.cache)
    BY DEF PopCache
  <1>16. Ready(d, order, flash, Rest)
    BY <1>11, <1>12, <1>13, <1>14, <1>15, PopReady
  <1>. QED
    BY <1>16 DEF d, o

\* A write to the cache.
LEMMA WriteCacheStep ==
  ASSUME Ready(dev, order, flash, todo), WriteCache
  PROVE  Ready(dev', order', flash', todo')
  <1>1. /\ todo # <<>> /\ Cur.do = "cache" /\ Head(todo).do = "cache"
        /\ flash' = flash /\ order' = order
    BY DEF WriteCache, Running, Cur
  <1>2. /\ Cur \in StepSet /\ dev \in Devs /\ NoneCollected(dev) /\ Good(dev, order, flash)
        /\ todo \in Seq(StepSet) /\ Todo(todo, dev.objs, dev.cache) /\ CacheInside(dev)
        /\ dev.objs \in [Files -> Objects] /\ dev.cache \subseteq Cachings
    BY <1>1, ReadyIs
  <1>. DEFINE f == Cur.f
              c == Cur.c
              v == Cur.v
              s == Max({dev.objs[f].size, c})
  <1>3. f \in Files /\ c \in Chunks /\ v \in 0 .. MaxOps
    <2>1. Cur \in CacheSteps
      BY <1>1, <1>2, StepKinds
    <2>. QED
      BY <2>1 DEF CacheSteps
  <1>4. \/ todo' = <<End("failed")>> /\ dev' = dev
        \/ \E e \in dev.cache : todo' = Flush(e.f) \o todo /\ dev' = dev
        \/ dev' = Caching(f, c, v, Touched(dev.objs[f], s)) /\ todo' = Rest
    BY DEF WriteCache, Caching, Touched, Obj
  <1>5. CASE todo' = <<End("failed")>> /\ dev' = dev
    <2>. DEFINE td == <<End("failed")>>
                objs == dev.objs
                cache == dev.cache
    <2>1. td \in Seq(StepSet) /\ Calm(td, objs, cache)
      BY FailedCalm
    <2>. HIDE DEF td
    <2>2. Ready(dev, order, flash, td)
      BY <1>2, <2>1, CalmReady
    <2>. QED
      BY <1>1, <1>5, <2>2 DEF td
  <1>6. CASE \E e \in dev.cache : todo' = Flush(e.f) \o todo /\ dev' = dev
    <2>1. PICK e \in dev.cache : todo' = Flush(e.f) \o todo /\ dev' = dev
      BY <1>6
    <2>2. e.f \in Files
      BY <1>2 DEF Cachings
    <2>. DEFINE A == Flush(e.f)
                td == A \o todo
                objs == dev.objs
                cache == dev.cache
    <2>3. A \in Flushings(objs)
      BY <1>2, <2>2, FlushOK
    <2>. HIDE DEF A
    <2>4. td \in Seq(StepSet) /\ Calm(td, objs, cache)
      BY <1>1, <1>2, <2>3, FlushBefore
    <2>. HIDE DEF td
    <2>5. Ready(dev, order, flash, td)
      BY <1>2, <2>4, CalmReady
    <2>. QED
      BY <1>1, <2>1, <2>5 DEF td, A
  <1>7. CASE dev' = Caching(f, c, v, Touched(dev.objs[f], s)) /\ todo' = Rest
    <2>1. dev.objs[f] \in Objects
      BY <1>2, <1>3
    <2>. DEFINE n == dev.objs[f].size
    <2>2. n \in 0 .. MaxChunk /\ n \in Nat /\ c \in Nat /\ c \in 0 .. MaxChunk
      BY <1>3, <2>1, ObjectFields, ChunksAre DEF Chunks
    <2>3. s = IF n >= c THEN n ELSE c
      BY <2>2, MaxOfTwo
    <2>. HIDE DEF n, s
    <2>4. s \in 0 .. MaxChunk /\ c <= s /\ n <= s
      BY <2>2, <2>3
    <2>5. s = n \/ s = c
      BY <2>3
    <2>6. f = Cur.f /\ c = Cur.c
      OBVIOUS
    <2>. HIDE DEF f, c, v
    <2>7. Ready(Caching(f, c, v, Touched(dev.objs[f], s)), order, flash, Rest)
      BY <1>1, <1>3, <2>4, <2>5, <2>6, CacheStep DEF n
    <2>. QED
      BY <1>1, <1>7, <2>7
  <1>. QED
    BY <1>4, <1>5, <1>6, <1>7

\* Other states of the blocks, the same objects.
LEMMA BlocksGood ==
  ASSUME NEW d, NEW ord, NEW fl, Good(d, ord, fl), NEW e \in Devs, e.objs = d.objs, e.used = d.used, e.cache = d.cache,
         Blk(e, ord, fl)
  PROVE  Good(e, ord, fl)
  <1>1. ord \in Seq(Blocks) /\ IsInjective(ord) /\ ChunksInside(d.objs) /\ CacheInside(d)
    BY DEF Good
  <1>2. ChunksInside(e.objs) /\ CacheInside(e)
    BY <1>1 DEF CacheInside
  <1>3. \A f \in Files : e.objs[f].hdr = d.objs[f].hdr /\ e.objs[f].chunk = d.objs[f].chunk
    OBVIOUS
  <1>. QED
    BY <1>1, <1>2, <1>3, KeepOK

\* yaffs_block_became_dirty, the erasure.
LEMMA EraseStep ==
  ASSUME Ready(dev, order, flash, todo), EraseBlock
  PROVE  Ready(dev', order', flash', todo')
  <1>1. /\ Good(dev, order, flash) /\ Accounts /\ dev \in Devs /\ todo \in Seq(StepSet)
        /\ Todo(todo, dev.objs, dev.cache) /\ Collects(dev, todo)
    BY ReadyIs DEF Ready
  <1>. DEFINE b == CHOOSE x \in Dirty : \A y \in Dirty \ {x} : Older(y, x)
              e == [dev EXCEPT !.state[b] = "EMPTY", !.shrink[b] = FALSE]
              fl2 == [flash EXCEPT ![b] = <<>>]
  <1>2. /\ Dirty # {} /\ dev' = e /\ flash' = fl2 /\ order' = InUseBut({b}) /\ todo' = todo
    BY DEF EraseBlock
  <1>3. Dirty \subseteq InUse(order)
    BY <1>1 DEF Dirty, Good, Blk, StatesOK
  <1>4. b \in Dirty
    BY <1>1, <1>2, <1>3, NewestExists DEF Good
  <1>5. b \in Blocks /\ dev.state[b] = "DIRTY"
    BY <1>4 DEF Dirty
  <1>. HIDE DEF b
  <1>6. /\ e \in Devs /\ e.objs = dev.objs /\ e.used = dev.used /\ e.cache = dev.cache
        /\ FlashOK(fl2) /\ InUseBut({b}) \in Seq(Blocks) /\ IsInjective(InUseBut({b}))
        /\ Blk(e, InUseBut({b}), fl2)
        /\ \A r \in dev.used : r[1] # b
        /\ \A x \in Blocks : e.state[x] = "COLLECTING" <=> dev.state[x] = "COLLECTING"
        /\ e.gcBlock = dev.gcBlock
    BY <1>1, <1>5, EraseOK
  <1>. HIDE DEF e
  <1>7. Pointed(fl2, dev.objs)
    <2>1. ASSUME NEW f \in Files, NEW c \in 0 .. MaxChunk, Ptr(dev.objs, f, c) # NoRef
          PROVE  Holds(fl2, Ptr(dev.objs, f, c), f, c)
      <3>. DEFINE r == Ptr(dev.objs, f, c)
      <3>1. Holds(flash, r, f, c)
        BY <1>1, <2>1 DEF Good, Pointed
      <3>2. r \in dev.used
        BY <1>1, <2>1, RefsAre DEF Good
      <3>3. r \in Pages /\ r[1] \in Blocks
        BY <1>1, <3>2, UsedHeld
      <3>. HIDE DEF r
      <3>4. fl2[r[1]] = flash[r[1]]
        BY <1>1, <1>6, <3>2, <3>3 DEF Good, FlashOK
      <3>. QED
        BY <3>1, <3>4 DEF Holds, r
    <2>. QED
      BY <2>1 DEF Pointed
  <1>. HIDE DEF fl2
  <1>8. Good(e, InUseBut({b}), fl2)
    BY <1>1, <1>6, <1>7 DEF Good, CacheInside
  <1>9. Collects(e, todo)
    <2>1. dev.gcBlock \in 0 .. NBlocks
      BY <1>1, DevFields
    <2>2. dev.gcBlock # 0 => dev.gcBlock \in Blocks
      BY <2>1, BlocksAre
    <2>. QED
      BY <1>1, <1>6, <2>2 DEF Collects, NoneCollected
  <1>10. Ready(e, InUseBut({b}), fl2, todo)
    BY <1>1, <1>6, <1>8, <1>9 DEF Ready
  <1>. QED
    BY <1>2, <1>10

----------------------------------------------------------------------------
(* The collector *)

\* What the collector looks at: the device, with its oldest dirty block or without.
Looking(d) ==
  /\ d \in Devs /\ d.objs = dev.objs /\ d.used = dev.used /\ d.cache = dev.cache
  /\ d.state = dev.state /\ d.gcBlock = dev.gcBlock /\ d.dirtiest = dev.dirtiest
  /\ Blk(d, order, flash)

\* The collector looks for the oldest dirty block, or does not.
LEMMA LookingOK ==
  ASSUME Ready(dev, order, flash, todo), NoneCollected(dev), NEW x \in BOOLEAN
  PROVE  Looking(IF x THEN WithOldest ELSE dev)
  <1>1. Accounts
    BY ReadyIs
  <1>2. Looking(dev)
    BY <1>1 DEF Accounts, Looking
  <1>3. Looking(WithOldest)
    BY <1>1, WithOldestOK DEF Looking
  <1>. QED
    BY <1>2, <1>3

\* The look at the collector is over.
LEMMA LookedStep ==
  ASSUME Ready(dev, order, flash, todo), todo # <<>>, Cur.do \in {"gc", "bggc"},
         NEW e \in Devs, e.objs = dev.objs, e.used = dev.used, e.cache = dev.cache,
         Blk(e, order, flash), NoneCollected(e)
  PROVE  Ready(e, order, flash, Rest) /\ Rest \in Seq(StepSet) /\ Calm(Rest, e.objs, e.cache)
  <1>1. Good(dev, order, flash) /\ dev \in Devs
    BY ReadyIs
  <1>2. Good(e, order, flash)
    BY <1>1, BlocksGood
  <1>3. /\ PopObjs(Cur, dev.objs, e.objs) /\ PopSizes(Cur, dev.objs, e.objs)
        /\ PopCache(Cur, dev.cache, e.cache)
    <2>. DEFINE h == Cur
    <2>1. h.do \notin {"prune", "data"}
      OBVIOUS
    <2>. HIDE DEF h
    <2>2. /\ PopObjs(h, dev.objs, e.objs) /\ PopSizes(h, dev.objs, e.objs)
          /\ PopCache(h, dev.cache, e.cache)
      BY <1>1, <2>1, PopSame
    <2>. QED
      BY <2>2 DEF h
  <1>. QED
    BY <1>2, <1>3, PopReady

\* The candidate of a leisurely call.
LEMMA DirtiestStep ==
  ASSUME Ready(dev, order, flash, todo), NoneCollected(dev), todo # <<>>, Cur.do \in {"gc", "bggc"},
         NEW d, Looking(d), d.gcBlock = 0, NEW b \in Candidates(d)
  PROVE  Ready([d EXCEPT !.dirtiest = b], order, flash, Rest)
  <1>. DEFINE e == [d EXCEPT !.dirtiest = b]
  <1>1. b \in Blocks /\ d.state[b] = "FULL" /\ b \in 0 .. NBlocks
    BY BlocksAre DEF Candidates, DirtyFull, Looking
  <1>2. d \in Devs /\ Blk(d, order, flash)
    BY DEF Looking
  <1>3. /\ e \in Devs /\ e.objs = d.objs /\ e.used = d.used /\ e.cache = d.cache
        /\ e.state = d.state /\ e.alloc = d.alloc /\ e.gcBlock = d.gcBlock
        /\ e.dirtiest = b /\ e.oldest = d.oldest
    BY <1>1, <1>2 DEF Devs
  <1>. HIDE DEF e
  <1>4. Filled(e) = Filled(d) /\ \A x : UsedIn(e, x) = UsedIn(d, x)
    BY <1>3 DEF Filled, UsedIn
  <1>5. StatesOK(e, order, flash)
    BY <1>2, <1>3, <1>4 DEF Blk, StatesOK
  <1>6. MarksOK(e)
    BY <1>1, <1>2, <1>3, <1>4 DEF Blk, MarksOK
  <1>7. AllocOK(e, order, flash) /\ OldestOK(e, order)
    BY <1>2, <1>3, <1>4 DEF Blk, AllocOK, OldestOK
  <1>8. Blk(e, order, flash)
    BY <1>5, <1>6, <1>7 DEF Blk
  <1>9. NoneCollected(e)
    BY <1>3 DEF NoneCollected, Looking
  <1>10. e.objs = dev.objs /\ e.used = dev.used /\ e.cache = dev.cache
    BY <1>3 DEF Looking
  <1>11. Ready(e, order, flash, Rest)
    BY <1>3, <1>8, <1>9, <1>10, LookedStep
  <1>. QED
    BY <1>11 DEF e

\* What is selected is full.
LEMMA SelectedFull ==
  ASSUME Ready(dev, order, flash, todo), NoneCollected(dev), NEW d, Looking(d), NEW b \in Selectable(d)
  PROVE  b \in Blocks /\ d.state[b] = "FULL"
  <1>1. /\ Blk(d, order, flash) /\ d \in Devs /\ d.state = dev.state
        /\ order \in Seq(Blocks) /\ IsInjective(order) /\ Blk(dev, order, flash)
    BY ReadyIs DEF Looking, Accounts
  <1>2. CASE d.gcBlock # 0
    <2>1. b = d.gcBlock
      BY <1>2 DEF Selectable
    <2>2. b \in Filled(d)
      BY <1>1, <1>2, <2>1 DEF Blk, MarksOK
    <2>. QED
      BY <1>1, <2>2 DEF Filled, NoneCollected
  <1>3. CASE b \in Candidates(d)
    BY <1>1, <1>3 DEF Candidates, DirtyFull
  <1>4. CASE b = d.dirtiest /\ b # 0
    <2>1. d.dirtiest \in 0 .. NBlocks
      BY <1>1, DevFields
    <2>2. b \in Blocks
      BY <1>4, <2>1, BlocksAre
    <2>. QED
      BY <1>1, <1>4, <2>2 DEF Blk, MarksOK
  <1>5. CASE b \in Refresh
    <2>. DEFINE full == {x \in Blocks : dev.state[x] = "FULL"}
    <2>1. full # {} /\ b = OldestOf(full)
      BY <1>5 DEF Refresh
    <2>2. full \subseteq InUse(order)
      BY <1>1 DEF Blk, StatesOK
    <2>. HIDE DEF full
    <2>3. b \in full
      BY <1>1, <2>1, <2>2, OldestExists
    <2>. QED
      BY <1>1, <2>3 DEF full
  <1>. QED
    BY <1>2, <1>3, <1>4, <1>5 DEF Selectable

\* yaffs_gc_block up to its loop.
LEMMA CollectStep ==
  ASSUME Ready(dev, order, flash, todo), NoneCollected(dev), todo # <<>>, Cur.do \in {"gc", "bggc"},
         NEW d, Looking(d), NEW b \in Selectable(d), Collect(d, b)
  PROVE  Ready(dev', order, flash, todo')
  <1>1. b \in Blocks /\ d.state[b] = "FULL"
    BY SelectedFull
  <1>2. /\ d \in Devs /\ Blk(d, order, flash) /\ NoneCollected(d)
        /\ d.objs = dev.objs /\ d.used = dev.used /\ d.cache = dev.cache
    BY DEF Looking, NoneCollected
  <1>. DEFINE m == Marked(d, b)
              n == IF Aggressive THEN Cpb ELSE GcCopies
              e == [m EXCEPT !.state[b] = "COLLECTING"]
              x == Copy(n)
  <1>3. /\ m \in Devs /\ m.objs = d.objs /\ m.used = d.used /\ m.cache = d.cache
        /\ m.gcBlock = b /\ m.state = d.state /\ NoneCollected(m) /\ Blk(m, order, flash)
    BY <1>1, <1>2, MarkedOK
  <1>4. \/ UsedIn(m, b) = {} /\ dev' = BecameDirty(m, b) /\ todo' = Rest
        \/ dev' = e /\ todo' = <<x>> \o Rest
    BY DEF Collect, Marked
  <1>5. n \in Nat \ {0}
    BY YaffsAssumption
  <1>. HIDE DEF m, n
  <1>6. CASE UsedIn(m, b) = {} /\ dev' = BecameDirty(m, b) /\ todo' = Rest
    <2>. DEFINE g == BecameDirty(m, b)
    <2>1. /\ g \in Devs /\ g.objs = m.objs /\ g.used = m.used /\ g.cache = m.cache
          /\ g.state = [m.state EXCEPT ![b] = "DIRTY"]
      BY <1>1, <1>3, BecameDirtyIs
    <2>2. b \in Filled(m)
      BY <1>1, <1>3 DEF Filled
    <2>3. Blk(g, order, flash)
      BY <1>3, <1>6, <2>2, BecameDirtyOK
    <2>. HIDE DEF g
    <2>4. NoneCollected(g)
      BY <1>3, <2>1, DevFields DEF NoneCollected
    <2>5. Ready(g, order, flash, Rest)
      BY <1>2, <1>3, <2>1, <2>3, <2>4, LookedStep
    <2>. QED
      BY <1>6, <2>5 DEF g
  <1>7. CASE dev' = e /\ todo' = <<x>> \o Rest
    <2>1. /\ e \in Devs /\ e.objs = m.objs /\ e.used = m.used /\ e.cache = m.cache
          /\ e.gcBlock = b /\ e.state[b] = "COLLECTING" /\ Blk(e, order, flash)
      <3>1. m.state[b] = "FULL"
        BY <1>1, <1>3
      <3>2. e = InState(m, b, "COLLECTING")
        BY DEF InState
      <3>. HIDE DEF e
      <3>3. m \in Devs /\ Blk(m, order, flash) /\ NoneCollected(m) /\ m.gcBlock = b /\ b \in Blocks
        BY <1>1, <1>3
      <3>. QED
        BY <3>1, <3>2, <3>3, StartOK
    <2>. HIDE DEF e
    <2>2. Rest \in Seq(StepSet) /\ Calm(Rest, m.objs, m.cache)
      BY <1>2, <1>3, LookedStep
    <2>3. x \in StepSet /\ x.do = "copy"
      BY <1>5 DEF Copy, StepSet, CopySteps
    <2>. HIDE DEF x
    <2>. DEFINE td == <<x>> \o Rest
                objs == m.objs
                cache == m.cache
                tl == Rest
    <2>4. td \in Seq(StepSet) /\ td # <<>> /\ Head(td) = x /\ Todo(td, objs, cache)
      <3>1. tl \in Seq(StepSet) /\ Calm(tl, objs, cache)
        BY <2>2
      <3>. HIDE DEF tl, objs, cache
      <3>2. <<x>> \o tl \in Seq(StepSet) /\ <<x>> \o tl # <<>> /\ Head(<<x>> \o tl) = x
            /\ Todo(<<x>> \o tl, objs, cache)
        BY <2>3, <3>1, PrependOK
      <3>. QED
        BY <3>2 DEF tl
    <2>. HIDE DEF td
    <2>5. Good(dev, order, flash)
      BY ReadyIs
    <2>6. Good(e, order, flash)
      BY <1>2, <1>3, <2>1, <2>5, BlocksGood
    <2>7. b # 0
      BY <1>1, BlocksAre
    <2>8. Collects(e, td)
      BY <2>1, <2>3, <2>4, <2>7 DEF Collects
    <2>9. Ready(e, order, flash, td)
      BY <2>1, <2>4, <2>6, <2>8 DEF Ready
    <2>. QED
      BY <1>7, <2>9 DEF td
  <1>. QED
    BY <1>4, <1>6, <1>7

\* yaffs_check_gc
LEMMA StepGcStep ==
  ASSUME Ready(dev, order, flash, todo), StepGc
  PROVE  Ready(dev', order', flash', todo')
  <1>1. todo # <<>> /\ Cur.do \in {"gc", "bggc"} /\ flash' = flash /\ order' = order
    BY DEF StepGc, Running, Cur
  <1>2. NoneCollected(dev)
    BY <1>1, ReadyIs
  <1>. DEFINE d == IF Looks THEN WithOldest ELSE dev
              looks == Looks
  <1>3. Looking(d)
    <2>1. looks \in BOOLEAN
      BY DEF Looks, Aggressive
    <2>. HIDE DEF looks
    <2>2. Looking(IF looks THEN WithOldest ELSE dev)
      BY <1>2, <2>1, LookingOK
    <2>. QED
      BY <2>2 DEF looks
  <1>4. \/ dev' = d /\ todo' = Rest
        \/ /\ d.gcBlock = 0 /\ todo' = Rest
           /\ \E b \in Candidates(d) : dev' = [d EXCEPT !.dirtiest = b]
        \/ \E b \in Selectable(d) : Collect(d, b)
    BY Zenon DEF StepGc
  <1>. HIDE DEF d
  <1>5. CASE dev' = d /\ todo' = Rest
    <2>1. /\ d \in Devs /\ d.objs = dev.objs /\ d.used = dev.used /\ d.cache = dev.cache
          /\ Blk(d, order, flash) /\ NoneCollected(d)
      BY <1>2, <1>3 DEF Looking, NoneCollected
    <2>2. Ready(d, order, flash, Rest)
      BY <1>1, <2>1, LookedStep
    <2>. QED
      BY <1>1, <1>5, <2>2
  <1>6. ASSUME d.gcBlock = 0, todo' = Rest, NEW b \in Candidates(d), dev' = [d EXCEPT !.dirtiest = b]
        PROVE  Ready(dev', order', flash', todo')
    <2>1. Ready([d EXCEPT !.dirtiest = b], order, flash, Rest)
      BY <1>1, <1>2, <1>3, <1>6, DirtiestStep
    <2>. QED
      BY <1>1, <1>6, <2>1
  <1>7. ASSUME NEW b \in Selectable(d), Collect(d, b)
        PROVE  Ready(dev', order', flash', todo')
    <2>1. Ready(dev', order, flash, todo')
      BY <1>1, <1>2, <1>3, <1>7, CollectStep
    <2>. QED
      BY <1>1, <2>1
  <1>. QED
    BY <1>4, <1>5, <1>6, <1>7

Moved(o, c, r) == IF c = 0 THEN [o EXCEPT !.hdr = r] ELSE [o EXCEPT !.chunk[c] = r]

\* The fields of an object one chunk of which has moved.
LEMMA MovedIs ==
  ASSUME NEW o \in Objects, NEW c \in 0 .. MaxChunk, NEW r \in Refs
  PROVE  LET p == Moved(o, c, r) IN
         /\ p \in Objects /\ p.size = o.size
         /\ p.hdr = (IF c = 0 THEN r ELSE o.hdr)
         /\ \A k \in Chunks : p.chunk[k] = (IF k = c THEN r ELSE o.chunk[k])
  <1>1. o.chunk \in [Chunks -> Refs]
    BY ObjectFields
  <1>2. CASE c = 0
    <2>. DEFINE p == [o EXCEPT !.hdr = r]
    <2>1. p \in Objects /\ p.size = o.size /\ p.hdr = r /\ p.chunk = o.chunk
      BY DEF Objects
    <2>2. Moved(o, c, r) = p
      BY <1>2 DEF Moved
    <2>3. \A k \in Chunks : k # c
      BY <1>2, ChunksAre
    <2>. HIDE DEF p
    <2>. QED
      BY <1>2, <2>1, <2>2, <2>3
  <1>3. CASE c # 0
    <2>. DEFINE g == [o.chunk EXCEPT ![c] = r]
                p == [o EXCEPT !.chunk = g]
    <2>1. Moved(o, c, r) = p
      BY <1>3 DEF Moved
    <2>2. c \in Chunks
      BY <1>3, ChunksAre
    <2>3. g \in [Chunks -> Refs] /\ \A k \in Chunks : g[k] = (IF k = c THEN r ELSE o.chunk[k])
      BY <1>1, <2>2
    <2>. HIDE DEF g
    <2>4. p \in Objects /\ p.size = o.size /\ p.hdr = o.hdr /\ p.chunk = g
      BY <2>3 DEF Objects
    <2>. HIDE DEF p
    <2>. QED
      BY <1>3, <2>1, <2>3, <2>4
  <1>. QED
    BY <1>2, <1>3

\* What the collector writes: the same chunk of the same file.
LEMMA CopyOfOK ==
  ASSUME dev \in Devs, NEW g \in Tags
  PROVE  CopyOf(g) \in Tags /\ CopyOf(g).obj = g.obj /\ CopyOf(g).chunk = g.chunk
  <1>1. CASE g.chunk # 0
    BY <1>1 DEF CopyOf
  <1>2. CASE g.chunk = 0
    <2>. DEFINE f == g.obj
                dir == g.dir
                name == g.name
                sh == FALSE
                over == 0
                size == dev.objs[f].size
    <2>1. f \in Files /\ dir \in TagDirs
      BY DEF Tags
    <2>n. name \in NameSet
      BY DEF Tags, NameSet
    <2>2. dev.objs[f] \in Objects
      BY <2>1, DevFields
    <2>3. size \in 0 .. MaxChunk
      BY <2>2, ObjectFields
    <2>4. sh \in BOOLEAN /\ over \in Files \cup {0}
      OBVIOUS
    <2>5. CopyOf(g) = HdrTag(f, size, dir, name, sh, over)
      BY <1>2 DEF CopyOf, Obj
    <2>. HIDE DEF f, dir, name, sh, over, size
    <2>6. LET t == HdrTag(f, size, dir, name, sh, over) IN t \in Tags /\ t.obj = f /\ t.chunk = 0
      BY <2>1, <2>n, <2>3, <2>4, HdrTagOK
    <2>. QED
      BY <1>2, <2>5, <2>6 DEF f
  <1>. QED
    BY <1>1, <1>2

\* What a copy starts from.
LEMMA CopyFirst ==
  ASSUME Ready(dev, order, flash, todo), todo # <<>>, Cur.do = "copy"
  PROVE  /\ dev.gcBlock \in Blocks /\ dev.state[dev.gcBlock] = "COLLECTING"
         /\ Cur.left \in Nat \ {0}
         /\ \A b \in Blocks : dev.state[b] = "COLLECTING" => b = dev.gcBlock
  <1>1. /\ Cur \in StepSet /\ Good(dev, order, flash) /\ dev \in Devs
        /\ Head(todo).do = "copy" /\ Collects(dev, todo)
    BY ReadyIs DEF Ready, Cur
  <1>2. dev.gcBlock # 0 /\ dev.state[dev.gcBlock] = "COLLECTING"
    BY <1>1 DEF Collects
  <1>3. dev.gcBlock \in 0 .. NBlocks
    BY <1>1, DevFields
  <1>4. dev.gcBlock \in Blocks
    BY <1>2, <1>3, BlocksAre
  <1>5. Cur \in CopySteps
    BY <1>1, StepKinds
  <1>6. Cur.left \in Nat \ {0}
    BY <1>5 DEF CopySteps
  <1>. QED
    BY <1>1, <1>2, <1>4, <1>6 DEF Good, Blk, MarksOK

\* A collection stops, and the operation goes on.
LEMMA CopyEnds ==
  ASSUME Ready(dev, order, flash, todo), todo # <<>>, Cur.do = "copy",
         NEW e \in Devs, SameBlocks(InState(dev, dev.gcBlock, "FULL"), e),
         e.objs = dev.objs, e.cache = dev.cache
  PROVE  Ready(e, order, flash, Rest)
  <1>. DEFINE b == dev.gcBlock
              s == InState(dev, b, "FULL")
  <1>1. dev \in Devs /\ Good(dev, order, flash) /\ Blk(dev, order, flash)
    BY ReadyIs DEF Good
  <1>2. b \in Blocks /\ dev.state[b] = "COLLECTING"
    BY CopyFirst
  <1>. HIDE DEF b
  <1>3. /\ s \in Devs /\ s.objs = dev.objs /\ s.used = dev.used /\ s.cache = dev.cache
        /\ Blk(s, order, flash) /\ NoneCollected(s)
    BY <1>1, <1>2, StopOK
  <1>. HIDE DEF s
  <1>4. SameBlocks(s, e)
    BY DEF s, b
  <1>5. Blk(e, order, flash) /\ e.used = dev.used /\ NoneCollected(e)
    BY <1>3, <1>4, BlkSame DEF SameBlocks, NoneCollected
  <1>6. Good(e, order, flash)
    BY <1>1, <1>5, BlocksGood
  <1>7. /\ PopObjs(Cur, dev.objs, e.objs) /\ PopSizes(Cur, dev.objs, e.objs)
        /\ PopCache(Cur, dev.cache, e.cache)
    <2>. DEFINE h == Cur
    <2>1. h.do \notin {"prune", "data"}
      OBVIOUS
    <2>. HIDE DEF h
    <2>2. /\ PopObjs(h, dev.objs, e.objs) /\ PopSizes(h, dev.objs, e.objs)
          /\ PopCache(h, dev.cache, e.cache)
      BY <1>1, <2>1, PopSame
    <2>. QED
      BY <2>2 DEF h
  <1>. QED
    BY <1>5, <1>6, <1>7, PopReady

\* A page is copied, and the file points to the copy.
LEMMA CopyPut ==
  ASSUME Ready(dev, order, flash, todo), HasBlock,
         NEW r \in dev.used, NEW f \in Files, NEW c \in 0 .. MaxChunk, r = Ptr(dev.objs, f, c), r # NoRef,
         NEW t \in Tags, t.obj = f, t.chunk = c, NEW n \in Nat,
         NEW e, e = ChunkDel(Kept(f, Moved(dev.objs[f], c, NewRef),
                                  [Allocated(dev) EXCEPT !.gcChunk = n]), r)
  PROVE  /\ Good(e, TakenOrder, Programmed(t)) /\ e.cache = dev.cache
         /\ \A b \in Blocks : e.state[b] = "COLLECTING" => dev.state[b] = "COLLECTING"
         /\ \A g \in Files : /\ e.objs[g].size = dev.objs[g].size
                             /\ \A k \in Chunks : dev.objs[g].chunk[k] = NoRef => e.objs[g].chunk[k] = NoRef
  <1>. DEFINE a == Allocated(dev)
              a2 == [a EXCEPT !.gcChunk = n]
              o == Moved(dev.objs[f], c, NewRef)
              d == Kept(f, o, a2)
  <1>1. /\ Good(dev, order, flash) /\ Accounts /\ dev \in Devs
        /\ ChunksInside(dev.objs) /\ CacheInside(dev) /\ SameBlocks(dev, dev)
    BY ReadyIs DEF SameBlocks
  <1>2. a \in Devs /\ a.objs = dev.objs /\ a.cache = dev.cache /\ NewRef \in Pages
    BY <1>1, ProgramOK
  <1>. HIDE DEF a
  <1>3. /\ a2 \in Devs /\ a2.objs = dev.objs /\ a2.cache = dev.cache /\ SameBlocks(a, a2)
    BY <1>2 DEF Devs, SameBlocks
  <1>. HIDE DEF a2
  <1>4. dev.objs[f] \in Objects /\ NewRef \in Refs
    BY <1>1, <1>2, DevFields DEF Refs
  <1>5. /\ o \in Objects /\ o.size = dev.objs[f].size
        /\ o.hdr = (IF c = 0 THEN NewRef ELSE dev.objs[f].hdr)
        /\ \A k \in Chunks : o.chunk[k] = (IF k = c THEN NewRef ELSE dev.objs[f].chunk[k])
    BY <1>4, MovedIs
  <1>. HIDE DEF o
  <1>6. /\ d \in Devs /\ SameBlocks(a2, d) /\ d.cache = a2.cache
        /\ d.objs[f] = o /\ \A g \in Files : g # f => d.objs[g] = a2.objs[g]
    BY <1>3, <1>5, KeptIs
  <1>. HIDE DEF d
  <1>7. SameBlocks(Allocated(dev), d)
    BY <1>3, <1>6, SameBlocksTrans DEF a
  <1>8. ASSUME NEW g \in Files, NEW k \in 0 .. MaxChunk
        PROVE  Ptr(d.objs, g, k) = (IF g = f /\ k = c THEN NewRef ELSE Ptr(dev.objs, g, k))
    <2>1. CASE g # f
      BY <1>3, <1>6, <2>1 DEF Ptr
    <2>2. CASE g = f
      <3>1. k = 0 \/ k \in Chunks
        BY ChunksAre
      <3>. QED
        BY <1>5, <1>6, <2>2, <3>1 DEF Ptr
    <2>. QED
      BY <2>1, <2>2
  <1>9. \A g \in Files : d.objs[g].size = dev.objs[g].size
    BY <1>3, <1>5, <1>6
  <1>10. ASSUME NEW g \in Files, NEW k \in Chunks, dev.objs[g].chunk[k] = NoRef
         PROVE  d.objs[g].chunk[k] = NoRef
    <2>1. k # 0 /\ k \in 0 .. MaxChunk
      BY ChunksAre
    <2>2. ~(g = f /\ k = c)
      BY <1>10, <2>1 DEF Ptr
    <2>. QED
      BY <1>8, <1>10, <2>1, <2>2 DEF Ptr
  <1>11. ChunksInside(d.objs)
    <2>1. ASSUME NEW g \in Files, NEW k \in Chunks, d.objs[g].chunk[k] # NoRef
          PROVE  k <= d.objs[g].size
      <3>1. dev.objs[g].chunk[k] # NoRef
        BY <1>10, <2>1
      <3>. QED
        BY <1>1, <1>9, <3>1 DEF ChunksInside
    <2>. QED
      BY <2>1 DEF ChunksInside
  <1>12. CacheInside(d)
    BY <1>1, <1>3, <1>6, <1>9, DevFields DEF CacheInside, Cachings
  <1>13. e = ChunkDel(d, Ptr(dev.objs, t.obj, t.chunk))
    BY DEF d, o, a2, a
  <1>14. Ptr(d.objs, t.obj, t.chunk) = NewRef
    BY <1>8
  <1>15. ASSUME NEW g \in Files, NEW k \in 0 .. MaxChunk, <<g, k>> # <<t.obj, t.chunk>>
         PROVE  Ptr(d.objs, g, k) = Ptr(dev.objs, g, k)
    BY <1>8, <1>15
  <1>16. /\ Good(e, TakenOrder, Programmed(t)) /\ e.objs = d.objs /\ e.cache = d.cache
         /\ \A b \in Blocks : e.state[b] = "COLLECTING" => dev.state[b] = "COLLECTING"
    BY <1>1, <1>6, <1>7, <1>11, <1>12, <1>13, <1>14, <1>15, PutOK
  <1>. QED
    BY <1>3, <1>6, <1>9, <1>10, <1>16

\* The next copy of a collection that goes on.
LEMMA CopyGoesOn ==
  ASSUME Ready(dev, order, flash, todo), todo # <<>>, Cur.do = "copy", NEW n \in Nat \ {0},
         NEW e, NEW ord, NEW fl, Good(e, ord, fl),
         e.gcBlock # 0, e.state[e.gcBlock] = "COLLECTING",
         PopObjs(Cur, dev.objs, e.objs), PopSizes(Cur, dev.objs, e.objs),
         PopCache(Cur, dev.cache, e.cache)
  PROVE  Ready(e, ord, fl, <<Copy(n)>> \o Rest)
  <1>1. todo \in Seq(StepSet) /\ Todo(todo, dev.objs, dev.cache) /\ dev \in Devs /\ e \in Devs
    BY ReadyIs DEF Good
  <1>2. /\ dev.objs \in [Files -> Objects] /\ dev.cache \subseteq Cachings
        /\ e.objs \in [Files -> Objects] /\ e.cache \subseteq Cachings
    BY <1>1, DevFields
  <1>. DEFINE objs2 == e.objs
              cache2 == e.cache
              objs == dev.objs
              cache == dev.cache
              x == Copy(n)
              tl == Rest
              td == <<x>> \o tl
  <1>3. /\ PopObjs(Head(todo), objs, objs2) /\ PopSizes(Head(todo), objs, objs2)
        /\ PopCache(Head(todo), cache, cache2)
    BY DEF Cur
  <1>4. objs \in [Files -> Objects] /\ objs2 \in [Files -> Objects]
        /\ cache \subseteq Cachings /\ cache2 \subseteq Cachings /\ Todo(todo, objs, cache)
    BY <1>1, <1>2
  <1>5. x \in StepSet /\ x.do = "copy"
    BY DEF Copy, StepSet, CopySteps
  <1>. HIDE DEF objs, objs2, cache, cache2, x
  <1>6. tl \in Seq(StepSet) /\ Calm(tl, objs2, cache2)
    BY <1>1, <1>3, <1>4, PopOK DEF Rest
  <1>. HIDE DEF tl
  <1>7. td \in Seq(StepSet) /\ td # <<>> /\ Head(td) = x /\ Todo(td, objs2, cache2)
    BY <1>5, <1>6, PrependOK
  <1>. HIDE DEF td
  <1>8. Collects(e, td)
    BY <1>5, <1>7 DEF Collects
  <1>9. Ready(e, ord, fl, td)
    BY <1>7, <1>8 DEF Ready, objs2, cache2
  <1>. QED
    BY <1>9 DEF td, tl, x

\* A page has been copied.
LEMMA CopyDone ==
  ASSUME Ready(dev, order, flash, todo), todo # <<>>, Cur.do = "copy",
         NEW e, NEW ord, NEW fl, Good(e, ord, fl), e.cache = dev.cache,
         \A b \in Blocks : e.state[b] = "COLLECTING" => dev.state[b] = "COLLECTING",
         \A g \in Files : /\ e.objs[g].size = dev.objs[g].size
                          /\ \A k \in Chunks : dev.objs[g].chunk[k] = NoRef => e.objs[g].chunk[k] = NoRef,
         \/ /\ e.state[dev.gcBlock] = "COLLECTING" /\ Cur.left = 1
            /\ dev' = [e EXCEPT !.state[dev.gcBlock] = "FULL"] /\ todo' = Rest
         \/ /\ ~(e.state[dev.gcBlock] = "COLLECTING" /\ Cur.left = 1)
            /\ dev' = e
            /\ todo' = IF e.state[dev.gcBlock] = "COLLECTING"
                       THEN <<Copy(Cur.left - 1)>> \o Rest ELSE Rest
  PROVE  Ready(dev', ord, fl, todo')
  <1>. DEFINE b == dev.gcBlock
              n == Cur.left
  <1>1. /\ b \in Blocks /\ n \in Nat \ {0}
        /\ \A x \in Blocks : dev.state[x] = "COLLECTING" => x = b
    BY CopyFirst
  <1>2. dev \in Devs /\ e \in Devs /\ Blk(e, ord, fl)
    BY ReadyIs DEF Good
  <1>3. PopObjs(Cur, dev.objs, e.objs)
    BY DEF PopObjs
  <1>4. PopSizes(Cur, dev.objs, e.objs)
    <2>1. ASSUME NEW g \in Files PROVE e.objs[g].size = dev.objs[g].size /\ dev.objs[g].size \in Nat
      <3>1. dev.objs[g] \in Objects
        BY <1>2, DevFields
      <3>. QED
        BY <3>1, ObjectFields
    <2>2. ASSUME NEW g \in Files PROVE e.objs[g].size <= dev.objs[g].size
      BY <2>1
    <2>3. ASSUME NEW g \in Files PROVE e.objs[g].size >= dev.objs[g].size
      BY <2>1
    <2>. QED
      BY <2>2, <2>3 DEF PopSizes
  <1>5. PopCache(Cur, dev.cache, e.cache)
    BY DEF PopCache
  <1>6. CASE e.state[b] = "COLLECTING" /\ n = 1 /\ dev' = [e EXCEPT !.state[b] = "FULL"] /\ todo' = Rest
    <2>. DEFINE s == InState(e, b, "FULL")
    <2>1. dev' = s
      BY <1>6 DEF InState
    <2>. HIDE DEF b
    <2>2. /\ s \in Devs /\ s.objs = e.objs /\ s.used = e.used /\ s.cache = e.cache
          /\ Blk(s, ord, fl) /\ NoneCollected(s)
      BY <1>1, <1>2, <1>6, StopOK
    <2>. HIDE DEF s
    <2>3. Good(s, ord, fl)
      BY <1>2, <2>2, BlocksGood
    <2>4. /\ PopObjs(Cur, dev.objs, s.objs) /\ PopSizes(Cur, dev.objs, s.objs)
          /\ PopCache(Cur, dev.cache, s.cache)
      BY <1>3, <1>4, <1>5, <2>2
    <2>5. Ready(s, ord, fl, Rest)
      BY <2>2, <2>3, <2>4, PopReady
    <2>. QED
      BY <1>6, <2>1, <2>5
  <1>7. CASE ~(e.state[b] = "COLLECTING") /\ dev' = e /\ todo' = Rest
    <2>1. NoneCollected(e)
      BY <1>1, <1>7 DEF NoneCollected
    <2>2. Ready(e, ord, fl, Rest)
      BY <1>3, <1>4, <1>5, <2>1, PopReady
    <2>. QED
      BY <1>7, <2>2
  <1>8. CASE e.state[b] = "COLLECTING" /\ n # 1 /\ dev' = e /\ todo' = <<Copy(n - 1)>> \o Rest
    <2>1. b = e.gcBlock /\ b # 0
      BY <1>1, <1>2, <1>8, BlocksAre DEF Blk, MarksOK
    <2>. DEFINE m == n - 1
    <2>2. m \in Nat \ {0}
      BY <1>1, <1>8
    <2>. HIDE DEF m
    <2>3. e.gcBlock # 0 /\ e.state[e.gcBlock] = "COLLECTING"
      BY <1>8, <2>1
    <2>4. Ready(e, ord, fl, <<Copy(m)>> \o Rest)
      BY <1>3, <1>4, <1>5, <2>2, <2>3, CopyGoesOn
    <2>. QED
      BY <1>8, <2>4 DEF m
  <1>. QED
    BY <1>6, <1>7, <1>8

\* yaffs_gc_process_chunk
LEMMA GcCopyStep ==
  ASSUME Ready(dev, order, flash, todo), GcCopy
  PROVE  Ready(dev', order', flash', todo')
  <1>1. todo # <<>> /\ Cur.do = "copy"
    BY Zenon DEF GcCopy, Running, Cur
  <1>2. dev \in Devs /\ Good(dev, order, flash)
    BY ReadyIs
  <1>. DEFINE b == dev.gcBlock
              live == {r \in UsedIn(dev, b) : r[2] >= dev.gcChunk}
              r == CHOOSE x \in live : \A y \in live : x[2] <= y[2]
              t == CopyOf(Tag(r))
              n == r[2] + 1
              a == [Allocated(dev) EXCEPT !.gcChunk = n]
              e == ChunkDel(Kept(t.obj, Moved(dev.objs[t.obj], t.chunk, NewRef), a), r)
              s == InState(dev, b, "FULL")
  <1>3. b \in Blocks
    BY <1>1, CopyFirst
  <1>4. dev.state \in [Blocks -> BlockStates] /\ "FULL" \in BlockStates
    BY <1>2, DevFields DEF BlockStates
  <1>5. s \in Devs /\ SameBlocks(s, s) /\ s.objs = dev.objs /\ s.cache = dev.cache
    BY <1>2, <1>4 DEF Devs, InState, SameBlocks
  <1>6. CASE live = {}
    <2>1. dev' = s /\ todo' = Rest /\ flash' = flash /\ order' = order
      BY <1>6, Zenon DEF GcCopy, InState
    <2>. HIDE DEF s, live, r, t, n, a, e
    <2>2. Ready(s, order, flash, Rest)
      BY <1>1, <1>5, CopyEnds DEF s
    <2>. QED
      BY <2>1, <2>2
  <1>7. CASE live # {}
    <2>1. live \subseteq dev.used /\ dev.used \subseteq Pages
      BY <1>2, DevFields DEF UsedIn
    <2>2. r \in live
      <3>. DEFINE I == {y[2] : y \in live}
      <3>1. I \subseteq Nat /\ I # {}
        BY <1>7, <2>1 DEF Pages
      <3>2. PICK i \in I : \A j \in I : i <= j
        BY <3>1, LeastNat
      <3>3. PICK x \in live : x[2] = i
        BY <3>2
      <3>4. \A y \in live : x[2] <= y[2]
        BY <3>2, <3>3
      <3>. HIDE DEF live
      <3>. QED
        BY <3>3, <3>4
    <2>3. r \in dev.used /\ r \in Pages /\ n \in Nat
      BY <2>1, <2>2 DEF Pages
    <2>4. CASE ~HasBlock
      <3>. DEFINE x == [s EXCEPT !.gcChunk = n]
      <3>1. dev' = x /\ todo' = Rest /\ flash' = flash /\ order' = order
        BY <1>7, <2>4, Zenon DEF GcCopy, InState
      <3>. HIDE DEF s, live, r, t, n, a, e
      <3>2. x \in Devs /\ SameBlocks(s, x) /\ x.objs = dev.objs /\ x.cache = dev.cache
        BY <1>5, <2>3 DEF Devs, SameBlocks
      <3>. HIDE DEF x
      <3>3. Ready(x, order, flash, Rest)
        BY <1>1, <3>2, CopyEnds DEF s
      <3>. QED
        BY <3>1, <3>3, Zenon
    <2>5. CASE HasBlock
      <3>1. /\ flash' = Programmed(t) /\ order' = TakenOrder
            /\ \/ /\ e.state[b] = "COLLECTING" /\ Cur.left = 1
                  /\ dev' = [e EXCEPT !.state[b] = "FULL"] /\ todo' = Rest
               \/ /\ ~(e.state[b] = "COLLECTING" /\ Cur.left = 1)
                  /\ dev' = e
                  /\ todo' = IF e.state[b] = "COLLECTING"
                             THEN <<Copy(Cur.left - 1)>> \o Rest ELSE Rest
        <4>. DEFINE d0 == [Allocated(dev) EXCEPT !.gcChunk = r[2] + 1]
                    d2 == IF t.chunk = 0 THEN [d0 EXCEPT !.objs[t.obj].hdr = NewRef]
                          ELSE [d0 EXCEPT !.objs[t.obj].chunk[t.chunk] = NewRef]
                    d1 == ChunkDel(d2, r)
        <4>1. /\ Program(t)
              /\ IF d1.state[b] = "COLLECTING" /\ Cur.left = 1
                   THEN dev' = [d1 EXCEPT !.state[b] = "FULL"] /\ todo' = Rest
                   ELSE /\ dev' = d1
                        /\ todo' = IF d1.state[b] = "COLLECTING"
                                   THEN <<Copy(Cur.left - 1)>> \o Rest ELSE Rest
          BY Zenon, <1>7, <2>5 DEF GcCopy
        <4>2. d0.objs = dev.objs
          BY <1>2, GoodAccounts, ProgramOK DEF Allocated, Devs
        <4>3. d2 = Kept(t.obj, Moved(dev.objs[t.obj], t.chunk, NewRef), a)
          <5>. HIDE DEF d0, t
          <5>1. d2 = Kept(t.obj, Moved(d0.objs[t.obj], t.chunk, NewRef), d0)
            <6>1. CASE t.chunk = 0
              BY <6>1 DEF Kept, Moved
            <6>2. CASE t.chunk # 0
              BY <6>2 DEF Kept, Moved
            <6>. QED
              BY <6>1, <6>2
          <5>. HIDE DEF d2
          <5>2. d2 = Kept(t.obj, Moved(dev.objs[t.obj], t.chunk, NewRef), d0)
            BY <4>2, <5>1
          <5>. QED
            BY <5>2 DEF d0
        <4>. HIDE DEF d0, d2, t, r, live, a
        <4>4. d1 = e
          BY <4>3
        <4>. HIDE DEF d1, e
        <4>5. flash' = Programmed(t) /\ order' = TakenOrder
          BY <4>1 DEF Program, TakeBlock, Programmed, TakenOrder
        <4>. QED
          BY <4>1, <4>4, <4>5
      <3>2. PICK f \in Files, c \in 0 .. MaxChunk : r = Ptr(dev.objs, f, c) /\ Holds(flash, r, f, c)
        <4>. HIDE DEF r
        <4>. QED
          BY <1>2, <2>3, UsedHeld
      <3>3. r # NoRef /\ r[1] \in Blocks /\ r[2] \in 1 .. Len(flash[r[1]])
        <4>. HIDE DEF r
        <4>. QED
          BY <1>2, <2>3, UsedHeld
      <3>4. Tag(r) \in Tags /\ Tag(r).obj = f /\ Tag(r).chunk = c
        <4>. HIDE DEF r
        <4>1. flash[r[1]] \in Seq(Tags)
          BY <1>2, <3>3 DEF Good, FlashOK
        <4>2. flash[r[1]][r[2]] \in Tags
          BY <3>3, <4>1
        <4>. QED
          BY <3>2, <4>2 DEF Tag, Holds
      <3>. HIDE DEF r
      <3>5. t \in Tags /\ t.obj = f /\ t.chunk = c
        BY <1>2, <3>4, CopyOfOK
      <3>. HIDE DEF t, n
      <3>6. e = ChunkDel(Kept(f, Moved(dev.objs[f], c, NewRef),
                              [Allocated(dev) EXCEPT !.gcChunk = n]), r)
        BY <3>5
      <3>. HIDE DEF e, live, a
      <3>7. /\ Good(e, TakenOrder, Programmed(t)) /\ e.cache = dev.cache
            /\ \A x \in Blocks : e.state[x] = "COLLECTING" => dev.state[x] = "COLLECTING"
            /\ \A g \in Files : /\ e.objs[g].size = dev.objs[g].size
                                /\ \A k \in Chunks : dev.objs[g].chunk[k] = NoRef => e.objs[g].chunk[k] = NoRef
        BY <2>3, <2>5, <3>2, <3>3, <3>5, <3>6, CopyPut
      <3>. DEFINE fl == Programmed(t)
                  ord == TakenOrder
      <3>8. Good(e, ord, fl)
        BY <3>7
      <3>9. Ready(dev', ord, fl, todo')
        <4>. HIDE DEF fl, ord
        <4>. QED
          BY <1>1, <3>1, <3>7, <3>8, CopyDone
      <3>. QED
        BY <3>1, <3>9
    <2>. QED
      BY <2>4, <2>5
  <1>. QED
    BY <1>6, <1>7, Zenon

----------------------------------------------------------------------------
(* Users, the background collector, and power *)

\* Between operations nothing is being collected.
LEMMA IdleIs ==
  ASSUME Ready(dev, order, flash, todo), todo = <<>>
  PROVE  /\ Good(dev, order, flash) /\ dev \in Devs /\ NoneCollected(dev)
         /\ ChunksInside(dev.objs) /\ CacheInside(dev)
  BY ReadyIs

\* A list of steps is put on an idle device.
LEMMA GivenReady ==
  ASSUME Ready(dev, order, flash, todo), todo = <<>>,
         NEW td, td \in Seq(StepSet) /\ Calm(td, dev.objs, dev.cache)
  PROVE  Ready(dev, order, flash, td)
  <1>1. Good(dev, order, flash) /\ NoneCollected(dev)
    BY IdleIs
  <1>. QED
    BY <1>1, CalmReady

\* An operation whose list is soft begins.
LEMMA BeginSoft ==
  ASSUME Ready(dev, order, flash, todo), NEW op, NEW f, NEW c, NEW v, NEW goal,
         NEW steps \in Softs(dev.objs), Begin(op, f, c, v, goal, steps)
  PROVE  Ready(dev', order', flash', todo')
  <1>1. /\ todo = <<>> /\ todo' = steps \o <<End("done")>>
        /\ dev' = dev /\ order' = order /\ flash' = flash
    BY DEF Begin, Idle
  <1>. DEFINE td == steps \o <<End("done")>>
              objs == dev.objs
              cache == dev.cache
  <1>2. td \in Seq(StepSet) /\ Calm(td, objs, cache)
    BY SoftEnd
  <1>. HIDE DEF td
  <1>3. Ready(dev, order, flash, td)
    BY <1>1, <1>2, GivenReady
  <1>. QED
    BY <1>1, <1>3 DEF td

\* yaffs_setattr of the size begins.
LEMMA BeginResize ==
  ASSUME Ready(dev, order, flash, todo), NEW f \in RootFiles, NEW n \in 0 .. MaxChunk, Resize(f, n)
  PROVE  Ready(dev', order', flash', todo')
  <1>. DEFINE td == (ResizeFile(f, n) \o SameOh(f)) \o <<End("done")>>
  <1>1. /\ todo = <<>> /\ todo' = td
        /\ dev' = dev /\ order' = order /\ flash' = flash
    BY DEF Resize, Begin, Idle
  <1>2. /\ dev \in Devs /\ ChunksInside(dev.objs) /\ CacheInside(dev)
        /\ f \in Files /\ dev.objs[f].dir = "root"
    BY <1>1, IdleIs DEF RootFiles, Obj
  <1>3. td \in Seq(StepSet) /\ Calm(td, dev.objs, dev.cache)
    BY <1>2, ResizeOK
  <1>. HIDE DEF td
  <1>4. Ready(dev, order, flash, td)
    BY <1>1, <1>3, GivenReady
  <1>. QED
    BY <1>1, <1>4

\* yaffs_create_obj begins.
LEMMA CreateStep ==
  ASSUME Ready(dev, order, flash, todo), NEW f \in Files, NEW n \in Names, Create(f, n)
  PROVE  Ready(dev', order', flash', todo')
  <1>. DEFINE steps == UpdateOh(f, "root", n, FALSE)
              objs == dev.objs
  <1>1. steps \in Softs(objs)
    BY CreateOK
  <1>2. Begin("create", f, 0, 0, Names0 \cup {<<n, f>>}, steps)
    BY DEF Create
  <1>. HIDE DEF steps
  <1>. QED
    BY <1>1, <1>2, BeginSoft

\* yaffs_wr_file begins.
LEMMA WriteStep ==
  ASSUME Ready(dev, order, flash, todo), ops \in 0 .. MaxOps, NEW f \in RootFiles, NEW c \in Chunks,
         Write(f, c)
  PROVE  Ready(dev', order', flash', todo')
  <1>. DEFINE v == ops + 1
              steps == HandleHole(f, c - 1) \o PutChunk(f, c, v)
  <1>1. Begin("write", f, c, v, Names0, steps) /\ todo = <<>> /\ ops < MaxOps
    BY DEF Write, Begin, Idle
  <1>2. f \in Files /\ dev.objs[f].dir = "root" /\ dev \in Devs
    BY <1>1, IdleIs DEF RootFiles, Obj
  <1>3. v \in 0 .. MaxOps
    BY <1>1, YaffsAssumption
  <1>. HIDE DEF v
  <1>4. steps \in Softs(dev.objs)
    BY <1>2, <1>3, WriteOK
  <1>. HIDE DEF steps
  <1>. QED
    BY <1>1, <1>4, BeginSoft

\* yaffs_sync_object begins.
LEMMA FsyncStep ==
  ASSUME Ready(dev, order, flash, todo), NEW f \in RootFiles, Fsync(f)
  PROVE  Ready(dev', order', flash', todo')
  <1>. DEFINE steps == IF Obj(f).dirty THEN Flush(f) \o SameOh(f) ELSE <<>>
  <1>1. Begin("fsync", f, 0, 0, Names0, steps) /\ todo = <<>>
    BY DEF Fsync, Begin, Idle
  <1>2. f \in Files /\ dev.objs[f].dir = "root" /\ dev \in Devs /\ CacheInside(dev)
    BY <1>1, IdleIs DEF RootFiles, Obj
  <1>3. steps \in Softs(dev.objs)
    BY <1>2, FsyncOK
  <1>. HIDE DEF steps
  <1>. QED
    BY <1>1, <1>3, BeginSoft

\* yaffs_setattr of anything but the size begins.
LEMMA SetAttrStep ==
  ASSUME Ready(dev, order, flash, todo), NEW f \in RootFiles, SetAttr(f)
  PROVE  Ready(dev', order', flash', todo')
  <1>. DEFINE steps == SameOh(f)
  <1>1. Begin("attr", f, 0, 0, Names0, steps) /\ todo = <<>>
    BY DEF SetAttr, Begin, Idle
  <1>2. f \in Files /\ dev.objs[f].dir = "root" /\ dev \in Devs
    BY <1>1, IdleIs DEF RootFiles, Obj
  <1>3. steps \in Softs(dev.objs)
    BY <1>2, SameOhOK
  <1>. HIDE DEF steps
  <1>. QED
    BY <1>1, <1>3, BeginSoft

\* yaffs_unlink begins.
LEMMA UnlinkStep ==
  ASSUME Ready(dev, order, flash, todo), NEW f \in RootFiles, Unlink(f)
  PROVE  Ready(dev', order', flash', todo')
  <1>. DEFINE steps == UpdateOh(f, "unlinked", "", FALSE)
              goal == {x \in Names0 : x[2] # f}
              objs == dev.objs
  <1>1. Begin("unlink", f, 0, 0, goal, steps)
    BY DEF Unlink
  <1>2. steps \in Softs(objs)
    BY UnlinkOK DEF RootFiles
  <1>. HIDE DEF steps, goal
  <1>. QED
    BY <1>1, <1>2, BeginSoft

\* yaffs_rename_obj begins.
LEMMA RenameStep ==
  ASSUME Ready(dev, order, flash, todo), NEW f \in RootFiles, NEW n \in Names, Rename(f, n)
  PROVE  Ready(dev', order', flash', todo')
  <1>. DEFINE steps == RenameSteps(f, n)
              goal == {x \in Names0 : x[1] # n /\ x[2] # f} \cup {<<n, f>>}
              objs == dev.objs
  <1>1. Begin("rename", f, 0, 0, goal, steps)
    BY DEF Rename, RenameSteps
  <1>2. steps \in Softs(objs)
    BY RenameOK DEF RootFiles
  <1>. HIDE DEF steps, goal
  <1>. QED
    BY <1>1, <1>2, BeginSoft

\* yaffs_evict_inode of an unlinked file begins.
LEMMA EvictStep ==
  ASSUME Ready(dev, order, flash, todo), NEW f \in Files, Evict(f)
  PROVE  Ready(dev', order', flash', todo')
  <1>. DEFINE td == DelObj(f, dev.objs)
              e == <<>>
  <1>1. /\ todo = <<>> /\ todo' = td
        /\ dev' = dev /\ order' = order /\ flash' = flash
    BY DEF Evict, Idle
  <1>2. dev \in Devs /\ ChunksInside(dev.objs) /\ CacheInside(dev) /\ dev.objs \in [Files -> Objects]
    BY <1>1, IdleIs, DevFields
  <1>3. td \in Seq(StepSet)
    <2>. DEFINE F == Flush(f)
                R == DelRest(f, dev.objs)
    <2>1. F \in Seq(StepSet)
      BY <1>2, FlushOK DEF Flushings
    <2>2. R \in Seq(StepSet)
      BY <1>2, DelRestOK DEF Tidied, Tidies
    <2>3. td = F \o R
      BY <1>2, DelObjIs
    <2>. HIDE DEF F, R, td
    <2>. QED
      BY <2>1, <2>2, <2>3
  <1>4. e \in Seq(StepSet) /\ Len(e) = 0 /\ \A i \in 1 .. Len(e) : e[i].do \in {"gc", "hdr", "end"}
    OBVIOUS
  <1>5. td \o e = td
    <2>. HIDE DEF td
    <2>. QED
      BY <1>3
  <1>. HIDE DEF e
  <1>6. td \o e \in Seq(StepSet) /\ Calm(td \o e, dev.objs, dev.cache)
    BY <1>2, <1>4, DeletionOK
  <1>. HIDE DEF td
  <1>7. Ready(dev, order, flash, td)
    BY <1>1, <1>3, <1>5, <1>6, GivenReady
  <1>. QED
    BY <1>1, <1>7

\* yaffs_bg_gc begins.
LEMMA BgCollectStep ==
  ASSUME Ready(dev, order, flash, todo), BgCollect
  PROVE  Ready(dev', order', flash', todo')
  <1>. DEFINE td == <<BgGc>>
              objs == dev.objs
              cache == dev.cache
  <1>1. /\ todo = <<>> /\ todo' = td
        /\ dev' = dev /\ order' = order /\ flash' = flash
    BY DEF BgCollect, Idle
  <1>2. td \in Softs(objs)
    <2>1. td \in Each(Plain)
      BY PlainSteps, EachOne
    <2>. HIDE DEF td
    <2>. QED
      BY <2>1, PlainSoft
  <1>3. td \in Seq(StepSet) /\ Calm(td, objs, cache)
    BY <1>2, SoftOK
  <1>. HIDE DEF td
  <1>4. Ready(dev, order, flash, td)
    BY <1>1, <1>3, GivenReady
  <1>. QED
    BY <1>1, <1>4

\* An operation lets go of the lock.
LEMMA EndOpStep ==
  ASSUME Ready(dev, order, flash, todo), EndOp
  PROVE  Ready(dev', order', flash', todo')
  <1>1. /\ todo # <<>> /\ Cur.do = "end" /\ todo' = Rest
        /\ dev' = dev /\ order' = order /\ flash' = flash
    BY DEF EndOp, Running, Cur
  <1>2. Good(dev, order, flash) /\ NoneCollected(dev)
    BY <1>1, ReadyIs
  <1>3. Ready(dev, order, flash, Rest)
    BY <1>1, <1>2, SkipReady
  <1>. QED
    BY <1>1, <1>3

\* The memory of a device that is not mounted.
LEMMA BlankIs ==
  /\ BlankDev \in Devs /\ BlankDev.cache = {} /\ BlankDev.used = {}
  /\ \A f \in Files : BlankDev.objs[f] = NoObj
  <1>1. NoObj \in Objects
    BY NoObjIs
  <1>2. [f \in Files |-> NoObj] \in [Files -> Objects]
    BY <1>1
  <1>3. [b \in Blocks |-> "EMPTY"] \in [Blocks -> BlockStates]
    BY DEF BlockStates
  <1>4. 0 \in 0 .. NBlocks
    BY BlocksAre
  <1>. QED
    BY <1>2, <1>3, <1>4 DEF BlankDev, Devs

\* The power goes: the flash stays, and the blocks with something on it.
LEMMA PowerLossStep ==
  ASSUME Ready(dev, order, flash, todo), PowerLoss
  PROVE  Off(dev', order', flash', todo')
  <1>. DEFINE S == {b \in Blocks : flash[b] = <<>>}
              ord == InUseBut(S)
  <1>1. /\ dev' = BlankDev /\ todo' = <<>> /\ order' = ord /\ flash' = flash
    BY DEF PowerLoss
  <1>2. /\ FlashOK(flash) /\ order \in Seq(Blocks) /\ IsInjective(order)
        /\ StatesOK(dev, order, flash)
    BY DEF Ready, Good, Blk
  <1>3. ord \in Seq(Blocks) /\ IsInjective(ord) /\ InUse(ord) = InUse(order) \ S
    BY <1>2, OthersStay
  <1>. HIDE DEF ord
  <1>4. ASSUME NEW b \in Blocks PROVE b \in InUse(ord) <=> flash[b] # <<>>
    BY <1>2, <1>3 DEF StatesOK
  <1>. QED
    BY <1>1, <1>2, <1>3, <1>4 DEF Off

\* What a mount makes of the blocks.
LEMMA ScannedIs ==
  ASSUME FlashOK(flash), order \in Seq(Blocks), IsInjective(order),
         \A b \in Blocks : b \in InUse(order) <=> flash[b] # <<>>
  PROVE  /\ Good(ScannedDev, order, flash) /\ NoneCollected(ScannedDev)
         /\ ScannedDev.objs = Scan(flash, order).objs /\ ScannedDev.cache = {}
         /\ ScannedDev.objs \in [Files -> Objects] /\ ChunksInside(ScannedDev.objs)
  <1>. DEFINE m == Scan(flash, order)
              d == ScannedDev
              used == RefsOf(m.objs)
              full(b) == \/ b \in m.marked \/ \E r \in used : r[1] = b
                         \/ b = Last(order) /\ Len(flash[b]) < Cpb
              st == [b \in Blocks |-> IF flash[b] = <<>> THEN "EMPTY"
                                      ELSE IF full(b) THEN "FULL" ELSE "DIRTY"]
              sh == [b \in Blocks |-> b \in m.marked]
  <1>1. m \in ScansOf(flash)
    BY ScanFinds
  <1>2. /\ d.objs = m.objs /\ d.used = used /\ d.shrink = sh /\ d.state = st /\ d.alloc = 0
        /\ d.gcBlock = 0 /\ d.gcChunk = 0 /\ d.dirtiest = 0 /\ d.oldest = 0 /\ d.cache = {}
        /\ d = [objs |-> m.objs, used |-> used, shrink |-> sh, state |-> st, alloc |-> 0,
                gcBlock |-> 0, gcChunk |-> 0, dirtiest |-> 0, oldest |-> 0, cache |-> {}]
    BY DEF ScannedDev
  <1>. HIDE DEF m, d
  <1>3. m.objs \in [Files -> Objects] /\ Pointed(flash, m.objs) /\ ChunksInside(m.objs)
    BY <1>1 DEF ScansOf, Scans
  <1>4. used \subseteq Pages
    <2>. SUFFICES ASSUME NEW r, r \in used PROVE r \in Pages
      OBVIOUS
    <2>1. r # NoRef /\ \E f \in Files, c \in 0 .. MaxChunk : r = Ptr(m.objs, f, c)
      BY RefsAre
    <2>. QED
      BY <1>3, <2>1, PtrType
  <1>. HIDE DEF used
  <1>5. \A b \in Blocks : /\ st[b] \in {"EMPTY", "FULL", "DIRTY"}
                          /\ st[b] = "EMPTY" <=> flash[b] = <<>>
                          /\ st[b] = "DIRTY" => ~full(b)
    <2>. HIDE DEF full
    <2>. QED
      OBVIOUS
  <1>6. st \in [Blocks -> BlockStates]
    <2>1. \A b \in Blocks : st[b] \in BlockStates
      BY <1>5 DEF BlockStates
    <2>2. st = [b \in Blocks |-> st[b]]
      OBVIOUS
    <2>. HIDE DEF st
    <2>. QED
      BY <2>1, <2>2
  <1>7. sh \in [Blocks -> BOOLEAN] /\ 0 \in 0 .. NBlocks /\ 0 \in Nat
    BY BlocksAre
  <1>8. ASSUME NEW b \in Blocks, st[b] = "DIRTY" PROVE UsedIn(d, b) = {}
    BY <1>2, <1>5, <1>8 DEF UsedIn
  <1>. HIDE DEF st, sh
  <1>9. d \in Devs
    BY <1>2, <1>3, <1>4, <1>6, <1>7 DEF Devs
  <1>10. Blk(d, order, flash) /\ NoneCollected(d)
    <2>1. ASSUME NEW b \in Blocks
          PROVE  /\ d.state[b] \in {"EMPTY", "FULL", "DIRTY"}
                 /\ d.state[b] = "EMPTY" <=> flash[b] = <<>>
                 /\ d.state[b] = "DIRTY" => UsedIn(d, b) = {}
      BY <1>2, <1>5, <1>8
    <2>2. d.alloc = 0 /\ d.gcBlock = 0 /\ d.dirtiest = 0 /\ d.oldest = 0
      BY <1>2
    <2>. DEFINE ord == order
                fl == flash
    <2>3. \A b \in Blocks : b \in InUse(ord) <=> fl[b] # <<>>
      OBVIOUS
    <2>4. \A b \in Blocks : d.state[b] \in {"EMPTY", "FULL", "DIRTY"}
      BY <2>1
    <2>5. \A b \in Blocks : d.state[b] = "EMPTY" <=> fl[b] = <<>>
      BY <2>1
    <2>6. \A b \in Blocks : d.state[b] = "DIRTY" => UsedIn(d, b) = {}
      BY <2>1
    <2>. HIDE DEF ord, fl
    <2>7. Blk(d, ord, fl) /\ NoneCollected(d)
      BY <2>2, <2>3, <2>4, <2>5, <2>6, FreshOK
    <2>. QED
      BY <2>7 DEF ord, fl
  <1>11. CacheInside(d)
    BY <1>2 DEF CacheInside
  <1>12. Good(d, order, flash)
    BY <1>2, <1>3, <1>9, <1>10, <1>11 DEF Good, used
  <1>. QED
    BY <1>2, <1>3, <1>10, <1>12 DEF d, m

\* yaffs_guts_initialise
LEMMA MountStep ==
  ASSUME Off(dev, order, flash, todo), Mount
  PROVE  Ready(dev', order', flash', todo')
  <1>. DEFINE objs == Scan(flash, order).objs
              in(dir) == SetToSeqs({f \in Files : objs[f].dir = dir})
              strip(fs) == FlattenSeq([i \in 1 .. Len(fs) |-> DelObj(fs[i], objs)])
  <1>1. /\ dev = BlankDev /\ FlashOK(flash) /\ order \in Seq(Blocks) /\ IsInjective(order)
        /\ \A b \in Blocks : b \in InUse(order) <=> flash[b] # <<>>
    BY DEF Off
  <1>2. /\ Good(ScannedDev, order, flash) /\ NoneCollected(ScannedDev)
        /\ ScannedDev.objs = objs /\ ScannedDev.cache = {}
        /\ objs \in [Files -> Objects] /\ ChunksInside(objs)
    BY <1>1, ScannedIs
  <1>3. dev \in Devs /\ dev.cache = {}
    BY <1>1, BlankIs
  <1>4. dev' = ScannedDev /\ order' = order /\ flash' = flash
    BY DEF Mount
  <1>5. PICK u \in in("unlinked"), d \in in("deleted") : todo' = strip(u \o d)
    BY DEF Mount
  <1>6. u \in Seq(Files) /\ d \in Seq(Files)
    <2>. HIDE DEF objs
    <2>1. {f \in Files : objs[f].dir = "unlinked"} \subseteq Files
          /\ {f \in Files : objs[f].dir = "deleted"} \subseteq Files
      OBVIOUS
    <2>. QED
      BY <2>1, SomeOrderOf
  <1>. HIDE DEF objs
  <1>7. ASSUME NEW fs \in Seq(Files)
        PROVE  strip(fs) \in Seq(StepSet) /\ Calm(strip(fs), objs, {})
    BY <1>2, <1>3, StripOK
  <1>8. u \o d \in Seq(Files)
    BY <1>6, ConcatProperties
  <1>. DEFINE td == strip(u \o d)
  <1>9. td \in Seq(StepSet) /\ Calm(td, objs, {})
    BY <1>7, <1>8
  <1>. HIDE DEF td
  <1>10. Ready(ScannedDev, order, flash, td)
    BY <1>2, <1>9, CalmReady
  <1>. QED
    BY <1>4, <1>5, <1>10 DEF td

\* The inductive invariant: a mounted device is ready, and the flash of one that is not
\* mounted can be.
Bounded == ops \in 0 .. MaxOps /\ bgs \in 0 .. MaxBg /\ crashes \in 0 .. MaxCrashes
IInv ==
  /\ mounted \in BOOLEAN /\ Bounded
  /\ mounted => Ready(dev, order, flash, todo)
  /\ ~mounted => Off(dev, order, flash, todo)

\* A device that was never written to is ready.
LEMMA InitIInv ==
  Init => IInv
  <1>. SUFFICES ASSUME Init PROVE IInv
    OBVIOUS
  <1>. DEFINE d == BlankDev
              ord == <<>>
              fl == [b \in Blocks |-> <<>>]
              td == <<>>
  <1>1. dev = d /\ order = ord /\ flash = fl /\ todo = td /\ mounted = TRUE
    BY DEF Init
  <1>2. Bounded
    BY YaffsAssumption DEF Init, Bounded
  <1>3. /\ d \in Devs /\ d.cache = {} /\ d.used = {} /\ \A f \in Files : d.objs[f] = NoObj
    BY BlankIs
  <1>4. /\ d.alloc = 0 /\ d.gcBlock = 0 /\ d.dirtiest = 0 /\ d.oldest = 0
        /\ \A b \in Blocks : d.state[b] = "EMPTY"
    BY DEF BlankDev
  <1>5. ord \in Seq(Blocks) /\ IsInjective(ord) /\ InUse(ord) = {}
    BY DEF InUse, IsInjective
  <1>6. FlashOK(fl) /\ \A b \in Blocks : fl[b] = <<>>
    BY BlocksAre DEF FlashOK
  <1>7. td \in Seq(StepSet) /\ Calm(td, d.objs, d.cache)
    <2>. DEFINE objs == d.objs
                cache == d.cache
    <2>1. td \in Softs(objs)
      BY DEF Softs
    <2>. HIDE DEF d, td, objs, cache
    <2>2. td \in Seq(StepSet) /\ Calm(td, objs, cache)
      BY <2>1, SoftOK
    <2>. QED
      BY <2>2 DEF objs, cache
  <1>. HIDE DEF d, ord, fl, td
  <1>8. Blk(d, ord, fl) /\ NoneCollected(d)
    BY <1>4, <1>5, <1>6, FreshOK
  <1>9. \A f \in Files : \A c \in 0 .. MaxChunk : Ptr(d.objs, f, c) = NoRef
    <2>. SUFFICES ASSUME NEW f \in Files, NEW c \in 0 .. MaxChunk
                  PROVE  Ptr(d.objs, f, c) = NoRef
      OBVIOUS
    <2>1. d.objs[f] = NoObj /\ (c = 0 \/ c \in Chunks)
      BY <1>3, ChunksAre
    <2>. QED
      BY <2>1, NoObjIs DEF Ptr
  <1>10. RefsOf(d.objs) = {}
    <2>. SUFFICES ASSUME NEW r, r \in RefsOf(d.objs) PROVE FALSE
      OBVIOUS
    <2>. QED
      BY <1>9, RefsAre
  <1>11. Pointed(fl, d.objs) /\ ChunksInside(d.objs) /\ CacheInside(d)
    BY <1>3, <1>9, NoObjIs DEF Pointed, ChunksInside, CacheInside
  <1>12. Good(d, ord, fl)
    BY <1>3, <1>5, <1>6, <1>8, <1>10, <1>11 DEF Good
  <1>13. Ready(d, ord, fl, td)
    BY <1>7, <1>8, <1>12, CalmReady
  <1>. QED
    BY <1>1, <1>2, <1>13 DEF IInv

\* The steps of an operation.
LEMMA StepsKeep ==
  ASSUME IInv, Steps
  PROVE  IInv'
  <1>1. mounted /\ mounted' = mounted /\ ops' = ops /\ bgs' = bgs /\ crashes' = crashes
    BY Zenon DEF Steps, WriteData, WriteHdr, WriteCache, Forget, EraseBlock, StepGc, GcCopy, EndOp, Running
  <1>2. Ready(dev, order, flash, todo)
    BY <1>1 DEF IInv
  <1>3. Ready(dev', order', flash', todo')
    <2>1. CASE WriteData
      BY <1>2, <2>1, WriteDataStep
    <2>2. CASE WriteHdr
      BY <1>2, <2>2, WriteHdrStep
    <2>3. CASE WriteCache
      BY <1>2, <2>3, WriteCacheStep
    <2>4. CASE Forget
      BY <1>2, <2>4, ForgetStep
    <2>5. CASE EraseBlock
      BY <1>2, <2>5, EraseStep
    <2>6. CASE StepGc
      BY <1>2, <2>6, StepGcStep
    <2>7. CASE GcCopy
      BY <1>2, <2>7, GcCopyStep
    <2>8. CASE EndOp
      BY <1>2, <2>8, EndOpStep
    <2>. QED
      BY <2>1, <2>2, <2>3, <2>4, <2>5, <2>6, <2>7, <2>8 DEF Steps
  <1>. QED
    BY <1>1, <1>3 DEF IInv, Bounded

\* An operation of a user begins.
LEMMA UsersKeep ==
  ASSUME IInv, Users
  PROVE  IInv'
  <1>0. mounted /\ mounted' = mounted /\ bgs' = bgs /\ crashes' = crashes
    BY DEF Users, Create, Write, Resize, Fsync, SetAttr, Unlink, Rename, Evict, Begin, Idle
  <1>1. ops' = ops \/ (ops < MaxOps /\ ops' = ops + 1)
    BY DEF Users, Create, Write, Resize, Fsync, SetAttr, Unlink, Rename, Evict, Begin
  <1>2. Ready(dev, order, flash, todo) /\ Bounded
    BY <1>0 DEF IInv
  <1>3. Ready(dev', order', flash', todo')
    <2>1. CASE \E f \in Files, n \in Names : Create(f, n)
      BY <1>2, <2>1, CreateStep
    <2>2. CASE \E f \in RootFiles : \E c \in Chunks : Write(f, c)
      BY <1>2, <2>2, WriteStep DEF Bounded
    <2>3. CASE \E f \in RootFiles : \E n \in 0 .. MaxChunk : Resize(f, n)
      BY <1>2, <2>3, BeginResize
    <2>4. CASE \E f \in RootFiles : Fsync(f)
      BY <1>2, <2>4, FsyncStep
    <2>5. CASE \E f \in RootFiles : SetAttr(f)
      BY <1>2, <2>5, SetAttrStep
    <2>6. CASE \E f \in RootFiles : Unlink(f)
      BY <1>2, <2>6, UnlinkStep
    <2>7. CASE \E f \in RootFiles : \E n \in Names : Rename(f, n)
      BY <1>2, <2>7, RenameStep
    <2>8. CASE \E f \in Files : Evict(f)
      BY <1>2, <2>8, EvictStep
    <2>. QED
      BY <2>1, <2>2, <2>3, <2>4, <2>5, <2>6, <2>7, <2>8 DEF Users
  <1>4. Bounded'
    BY <1>0, <1>1, <1>2, YaffsAssumption DEF Bounded
  <1>. QED
    BY <1>0, <1>3, <1>4 DEF IInv

\* The background collector, and power.
LEMMA OthersKeep ==
  ASSUME IInv, BgCollect \/ PowerLoss \/ Mount
  PROVE  IInv'
  <1>1. CASE BgCollect
    <2>1. mounted /\ mounted' = mounted /\ ops' = ops /\ crashes' = crashes
          /\ bgs < MaxBg /\ bgs' = bgs + 1
      BY <1>1 DEF BgCollect, Idle
    <2>2. Ready(dev', order', flash', todo')
      BY <1>1, <2>1, BgCollectStep DEF IInv
    <2>3. Bounded'
      BY <2>1, YaffsAssumption DEF IInv, Bounded
    <2>. QED
      BY <2>1, <2>2, <2>3 DEF IInv
  <1>2. CASE PowerLoss
    <2>1. mounted /\ mounted' = FALSE /\ ops' = ops /\ bgs' = bgs
          /\ crashes < MaxCrashes /\ crashes' = crashes + 1
      BY <1>2 DEF PowerLoss
    <2>2. Off(dev', order', flash', todo')
      BY <1>2, <2>1, PowerLossStep DEF IInv
    <2>3. Bounded'
      BY <2>1, YaffsAssumption DEF IInv, Bounded
    <2>. QED
      BY <2>1, <2>2, <2>3 DEF IInv
  <1>3. CASE Mount
    <2>1. ~mounted /\ mounted' = TRUE /\ ops' = ops /\ bgs' = bgs /\ crashes' = crashes
      BY <1>3 DEF Mount
    <2>2. Ready(dev', order', flash', todo')
      BY <1>3, <2>1, MountStep DEF IInv
    <2>3. Bounded'
      BY <2>1 DEF IInv, Bounded
    <2>. QED
      BY <2>1, <2>2, <2>3 DEF IInv
  <1>. QED
    BY <1>1, <1>2, <1>3

\* Every step keeps the invariant.
LEMMA NextIInv ==
  IInv /\ [Next]_vars => IInv'
  <1>. SUFFICES ASSUME IInv, [Next]_vars PROVE IInv'
    OBVIOUS
  <1>1. CASE Steps
    BY <1>1, StepsKeep
  <1>2. CASE Users
    BY <1>2, UsersKeep
  <1>3. CASE BgCollect \/ PowerLoss \/ Mount
    BY <1>3, OthersKeep
  <1>4. CASE UNCHANGED vars
    <2>1. /\ mounted' = mounted /\ ops' = ops /\ bgs' = bgs /\ crashes' = crashes
          /\ dev' = dev /\ order' = order /\ flash' = flash /\ todo' = todo
      BY <1>4 DEF vars
    <2>. QED
      BY <2>1 DEF IInv, Bounded
  <1>5. [Next]_vars => Steps \/ Users \/ (BgCollect \/ PowerLoss \/ Mount) \/ UNCHANGED vars
    BY DEF Next, Traced
  <1>. QED
    BY <1>1, <1>2, <1>3, <1>4, <1>5

\* The invariant holds for every device, in any order of operations and losses of power.
THEOREM YaffsInvariant == Spec => []IInv
  <1>. QED
    BY InitIInv, NextIInv, PTL DEF Spec

\* What the invariant says of the pages in use.
LEMMA IInvMounted ==
  ASSUME IInv
  PROVE  /\ FlashOK(flash) /\ order \in Seq(Blocks) /\ IsInjective(order) /\ dev \in Devs
         /\ mounted => Good(dev, order, flash)
         /\ ~mounted => dev = BlankDev
  <1>1. CASE mounted
    BY <1>1 DEF IInv, Ready, Good
  <1>2. CASE ~mounted
    BY <1>2, BlankIs DEF IInv, Off
  <1>. QED
    BY <1>1, <1>2 DEF IInv

\* YaffsTypes: no block holds more chunks than it has pages, no block is in use twice, and every
\* page counted in use has been programmed, mounted or not (yaffs_alloc_chunk,
\* yaffs_chunk_del, yaffs2_scan_backwards).
THEOREM YaffsTypes == Spec => []TypeOK
  <1>1. IInv => TypeOK
    <2>. SUFFICES ASSUME IInv PROVE TypeOK
      OBVIOUS
    <2>1. /\ FlashOK(flash) /\ order \in Seq(Blocks) /\ IsInjective(order) /\ dev \in Devs
          /\ mounted => Good(dev, order, flash)
          /\ ~mounted => dev = BlankDev
      BY IInvMounted
    <2>2. flash \in [Blocks -> Seq(Tags)] /\ \A b \in Blocks : Len(flash[b]) <= Cpb
      BY <2>1 DEF FlashOK
    <2>3. ASSUME NEW r \in dev.used PROVE r[1] \in Blocks /\ r[2] \in 1 .. Len(flash[r[1]])
      <3>1. CASE mounted
        <4>1. Good(dev, order, flash)
          BY <2>1, <3>1
        <4>. DEFINE d == dev
                    fl == flash
                    ord == order
        <4>2. Good(d, ord, fl) /\ r \in d.used
          BY <2>3, <4>1
        <4>. HIDE DEF d, fl, ord
        <4>3. r[1] \in Blocks /\ r[2] \in 1 .. Len(fl[r[1]])
          BY <4>2, UsedHeld
        <4>. QED
          BY <4>3 DEF fl
      <3>2. CASE ~mounted
        BY <2>1, <2>3, <3>2, BlankIs
      <3>. QED
        BY <3>1, <3>2
    <2>4. dev.state \in [Blocks -> {"EMPTY", "ALLOCATING", "FULL", "COLLECTING", "DIRTY"}]
      BY <2>1, DevFields DEF BlockStates
    <2>5. mounted \in BOOLEAN /\ Bounded
      BY DEF IInv
    <2>6. flash \in [Blocks -> Seq([obj : Files, chunk : 0 .. MaxChunk, val : 0 .. MaxOps,
                               size : 0 .. MaxChunk,
                               dir : {"", "root", "unlinked", "deleted"},
                               name : Names \cup {""}, shrink : BOOLEAN,
                               shadows : Files \cup {0}])]
      BY <2>2, Zenon DEF Tags, TagDirs
    <2>. QED
      BY <2>1, <2>2, <2>3, <2>4, <2>5, <2>6, Zenon DEF TypeOK, Bounded
  <1>. QED
    BY <1>1, YaffsInvariant, PTL

\* On a mounted device the pages counted in use are exactly those some file refers to, and
\* each holds the chunk it is referred to for: through writes, truncation, deletion, copies
\* of the collector, refused allocations and mounts after a loss of power at any point
\* (yaffs_chunk_del, yaffs_gc_process_chunk, yaffs2_scan_backwards).
THEOREM RefsMatchKept == Spec => []RefsMatch
  <1>1. IInv => RefsMatch
    <2>. SUFFICES ASSUME IInv, mounted PROVE dev.used = RefsOf(dev.objs) /\
           \A f \in Files :
             /\ Obj(f).hdr # NoRef => Tag(Obj(f).hdr).obj = f /\ Tag(Obj(f).hdr).chunk = 0
             /\ \A c \in Chunks : Obj(f).chunk[c] # NoRef =>
                  Tag(Obj(f).chunk[c]).obj = f /\ Tag(Obj(f).chunk[c]).chunk = c
      BY DEF RefsMatch
    <2>1. dev.used = RefsOf(dev.objs) /\ Pointed(flash, dev.objs)
      BY IInvMounted DEF Good
    <2>2. ASSUME NEW f \in Files, Obj(f).hdr # NoRef
          PROVE  Tag(Obj(f).hdr).obj = f /\ Tag(Obj(f).hdr).chunk = 0
      <3>1. Ptr(dev.objs, f, 0) = Obj(f).hdr /\ 0 \in 0 .. MaxChunk
        BY ChunksAre DEF Ptr, Obj
      <3>2. Holds(flash, Obj(f).hdr, f, 0)
        BY <2>1, <2>2, <3>1 DEF Pointed
      <3>. QED
        BY <3>2 DEF Holds, Tag
    <2>3. ASSUME NEW f \in Files, NEW c \in Chunks, Obj(f).chunk[c] # NoRef
          PROVE  Tag(Obj(f).chunk[c]).obj = f /\ Tag(Obj(f).chunk[c]).chunk = c
      <3>1. Ptr(dev.objs, f, c) = Obj(f).chunk[c] /\ c \in 0 .. MaxChunk
        BY ChunksAre DEF Ptr, Obj
      <3>2. Holds(flash, Obj(f).chunk[c], f, c)
        BY <2>1, <2>3, <3>1 DEF Pointed
      <3>. QED
        BY <3>2 DEF Holds, Tag
    <2>. QED
      BY <2>1, <2>2, <2>3
  <1>. QED
    BY <1>1, YaffsInvariant, PTL

\* oldest_dirty_seq, when known, is that of the oldest full block with discarded pages,
\* whatever was discarded or collected since it was found (yaffs2_update_oldest_dirty_seq,
\* yaffs2_clear_oldest_dirty_seq, yaffs2_find_oldest_dirty_seq).
THEOREM OldestExactKept == Spec => []OldestExact
  <1>1. IInv => OldestExact
    <2>. SUFFICES ASSUME IInv, mounted, dev.oldest # 0, NEW b \in DirtyFull
                  PROVE  ~Older(b, dev.oldest)
      BY DEF OldestExact
    <2>1. Good(dev, order, flash) /\ order \in Seq(Blocks) /\ IsInjective(order)
      BY IInvMounted
    <2>2. Blk(dev, order, flash)
      BY <2>1 DEF Good
    <2>3. b \in Filled(dev) /\ Cardinality(UsedIn(dev, b)) < Cpb
      BY DEF DirtyFull, Filled
    <2>4. ~Before(order, b, dev.oldest) /\ dev.oldest \in Filled(dev)
      BY <2>2, <2>3 DEF Blk, OldestOK, MarksOK
    <2>5. b \in InUse(order) /\ dev.oldest \in InUse(order)
      BY <2>2, <2>3, <2>4, InUseFilled
    <2>. QED
      BY <2>1, <2>4, <2>5, OlderIs
  <1>. QED
    BY <1>1, YaffsInvariant, PTL
=============================================================================
