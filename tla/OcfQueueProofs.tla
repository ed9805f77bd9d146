--------------------------- MODULE OcfQueueProofs ---------------------------
(***************************************************************************)
(* The four operations of the code on its queues, as facts about the       *)
(* elements they keep.                                                     *)
(***************************************************************************)
EXTENDS OcfQueues, SequenceTheorems, TLAPS

(* list_add_tail. *)
LEMMA AppendElems ==
  ASSUME NEW S, NEW q \in Seq(S), NEW e \in S
  PROVE  /\ Append(q, e) \in Seq(S)
         /\ Elems(Append(q, e)) = Elems(q) \cup {e}
         /\ NoRepeats(q) /\ e \notin Elems(q) => NoRepeats(Append(q, e))
<1> DEFINE a == Append(q, e)
<1>1. a \in Seq(S) /\ Len(a) = Len(q) + 1 /\ Len(q) \in Nat
  OBVIOUS
<1>2. a[Len(q) + 1] = e /\ \A i \in 1 .. Len(q) : a[i] = q[i]
  OBVIOUS
<1>3. DOMAIN a = 1 .. Len(q) + 1 /\ DOMAIN q = 1 .. Len(q)
  BY <1>1
<1> HIDE DEF a
<1>4. Elems(a) = Elems(q) \cup {e}
  BY <1>1, <1>2, <1>3 DEF Elems
<1>5. NoRepeats(q) /\ e \notin Elems(q) => NoRepeats(a)
  BY <1>1, <1>2, <1>3 DEF Elems, NoRepeats
<1> QED BY <1>1, <1>4, <1>5 DEF a

(* list_add, at the front. *)
LEMMA ConsElems ==
  ASSUME NEW S, NEW q \in Seq(S), NEW e \in S
  PROVE  /\ <<e>> \o q \in Seq(S)
         /\ Elems(<<e>> \o q) = Elems(q) \cup {e}
         /\ NoRepeats(q) /\ e \notin Elems(q) => NoRepeats(<<e>> \o q)
<1> DEFINE c == <<e>> \o q
<1>1. c \in Seq(S) /\ Len(c) = Len(q) + 1
  OBVIOUS
<1>2. c[1] = e /\ \A i \in 1 .. Len(q) : c[i + 1] = q[i]
  OBVIOUS
<1>3. \A i \in 1 .. Len(c) : i = 1 \/ (i - 1 \in 1 .. Len(q) /\ c[i] = q[i - 1])
  <2> TAKE i \in 1 .. Len(c)
  <2>1. CASE i = 1
    BY <2>1
  <2>2. CASE i # 1
    <3>1. i - 1 \in 1 .. Len(q) /\ (i - 1) + 1 = i
      BY <1>1, <2>2
    <3> QED BY <3>1, <1>2
  <2> QED BY <2>1, <2>2
<1>4. DOMAIN c = 1 .. Len(c) /\ DOMAIN q = 1 .. Len(q)
  BY <1>1
<1> HIDE DEF c
<1>5. Elems(c) = Elems(q) \cup {e}
  <2>1. ASSUME NEW x \in Elems(c) PROVE x \in Elems(q) \cup {e}
    <3>1. PICK i \in 1 .. Len(c) : x = c[i]
      BY <1>4, <2>1 DEF Elems
    <3>2. CASE i = 1
      BY <1>2, <3>1, <3>2
    <3>3. CASE i # 1
      <4>1. i - 1 \in DOMAIN q /\ x = q[i - 1]
        BY <1>3, <1>4, <3>1, <3>3
      <4> QED BY <4>1 DEF Elems
    <3> QED BY <3>2, <3>3
  <2>2. ASSUME NEW x \in Elems(q) PROVE x \in Elems(c)
    <3>1. PICK i \in 1 .. Len(q) : x = q[i]
      BY <1>4 DEF Elems
    <3>2. i + 1 \in 1 .. Len(c) /\ c[i + 1] = x
      BY <1>1, <1>2, <3>1
    <3>3. i + 1 \in DOMAIN c
      BY <3>2, <1>4
    <3> QED BY <3>2, <3>3 DEF Elems
  <2>3. e \in Elems(c)
    <3>1. 1 \in DOMAIN c
      BY <1>1, <1>4
    <3> QED BY <1>2, <3>1 DEF Elems
  <2> QED BY <2>1, <2>2, <2>3
<1>6. ASSUME NoRepeats(q), e \notin Elems(q) PROVE NoRepeats(c)
  <2>1. \A i \in 1 .. Len(c) : i # 1 => c[i] \in Elems(q)
    BY <1>3, <1>4 DEF Elems
  <2>2. SUFFICES ASSUME NEW i \in 1 .. Len(c), NEW j \in 1 .. Len(c), c[i] = c[j]
                 PROVE  i = j
    BY <1>4 DEF NoRepeats
  <2>3. CASE i = 1 \/ j = 1
    BY <1>2, <1>6, <2>1, <2>2, <2>3
  <2>4. CASE i # 1 /\ j # 1
    <3>1. /\ i - 1 \in DOMAIN q /\ j - 1 \in DOMAIN q
          /\ q[i - 1] = q[j - 1]
      BY <1>3, <1>4, <2>2, <2>4
    <3>2. i - 1 = j - 1
      BY <1>6, <3>1 DEF NoRepeats
    <3> QED BY <3>2
  <2> QED BY <2>3, <2>4
<1> QED BY <1>1, <1>5, <1>6 DEF c

(* The first element is taken off. *)
LEMMA TailElems ==
  ASSUME NEW S, NEW q \in Seq(S), q # <<>>, NoRepeats(q)
  PROVE  /\ Head(q) \in S /\ Head(q) \in Elems(q)
         /\ Tail(q) \in Seq(S)
         /\ Elems(Tail(q)) = Elems(q) \ {Head(q)}
         /\ NoRepeats(Tail(q))
<1>1. Len(q) \in Nat /\ Len(q) > 0 /\ Head(q) = q[1] /\ q[1] \in S
  OBVIOUS
<1>2. /\ Tail(q) \in Seq(S) /\ Len(Tail(q)) = Len(q) - 1
      /\ \A i \in 1 .. Len(q) - 1 : Tail(q)[i] = q[i + 1]
      /\ DOMAIN Tail(q) = 1 .. Len(q) - 1
  OBVIOUS
<1>3. Elems(Tail(q)) \subseteq Elems(q) \ {Head(q)}
  BY <1>1, <1>2 DEF Elems, NoRepeats
<1>4. ASSUME NEW x \in Elems(q), x # Head(q) PROVE x \in Elems(Tail(q))
  <2>1. PICK i \in 1 .. Len(q) : x = q[i]
    BY DEF Elems
  <2>2. i # 1 /\ i - 1 \in 1 .. Len(q) - 1 /\ (i - 1) + 1 = i
    BY <1>1, <1>4, <2>1
  <2>3. Tail(q)[i - 1] = x
    BY <1>2, <2>1, <2>2
  <2>4. i - 1 \in DOMAIN Tail(q)
    BY <1>2, <2>2
  <2> QED BY <2>3, <2>4 DEF Elems
<1>5. NoRepeats(Tail(q))
  BY <1>1, <1>2 DEF NoRepeats
<1>6. Head(q) \in Elems(q)
  BY <1>1 DEF Elems
<1> QED BY <1>1, <1>2, <1>3, <1>4, <1>5, <1>6

(* list_del of the element at i. *)
LEMMA WithoutElems ==
  ASSUME NEW S, NEW q \in Seq(S), NEW i \in 1 .. Len(q), NoRepeats(q)
  PROVE  /\ q[i] \in S /\ q[i] \in Elems(q)
         /\ (SubSeq(q, 1, i - 1) \o SubSeq(q, i + 1, Len(q))) \in Seq(S)
         /\ Elems((SubSeq(q, 1, i - 1) \o SubSeq(q, i + 1, Len(q)))) = Elems(q) \ {q[i]}
         /\ NoRepeats((SubSeq(q, 1, i - 1) \o SubSeq(q, i + 1, Len(q))))
<1> DEFINE before == SubSeq(q, 1, i - 1)
           after == SubSeq(q, i + 1, Len(q))
<1>1. /\ Len(q) \in Nat /\ DOMAIN q = 1 .. Len(q) /\ q[i] \in S
      /\ i \in Int /\ Len(q) \in Int /\ 1 <= i /\ i <= Len(q)
  OBVIOUS
<1>2. /\ before \in Seq(S) /\ Len(before) = i - 1
      /\ \A j \in 1 .. i - 1 : before[j] = q[j]
  <2>1. i - 1 \in Int /\ \A j \in 1 .. i - 1 : q[j] \in S
    BY <1>1, ElementOfSeq
  <2>2. /\ before \in Seq(S)
        /\ Len(before) = IF 1 <= i - 1 THEN i - 1 - 1 + 1 ELSE 0
        /\ \A j \in 1 .. i - 1 - 1 + 1 : before[j] = q[1 + j - 1]
    BY <2>1, SubSeqProperties
  <2> HIDE DEF before
  <2> QED BY <1>1, <2>2
<1>3. /\ after \in Seq(S) /\ Len(after) = Len(q) - i
      /\ \A j \in 1 .. Len(q) - i : after[j] = q[i + j]
  <2>1. i + 1 \in Int /\ Len(q) \in Int /\ \A j \in i + 1 .. Len(q) : q[j] \in S
    BY <1>1, ElementOfSeq
  <2>2. /\ after \in Seq(S)
        /\ Len(after) = IF i + 1 <= Len(q) THEN Len(q) - (i + 1) + 1 ELSE 0
        /\ \A j \in 1 .. Len(q) - (i + 1) + 1 : after[j] = q[i + 1 + j - 1]
    BY <2>1, SubSeqProperties, SMTT(30)
  <2> HIDE DEF after
  <2>3. Len(after) = Len(q) - i /\ Len(q) - (i + 1) + 1 = Len(q) - i
    <3>1. Len(q) - (i + 1) + 1 = Len(q) - i
      BY <1>1, SMTT(30)
    <3>2. i + 1 <= Len(q) \/ i = Len(q)
      <4>1. \A m, n \in Int : m <= n => m + 1 <= n \/ m = n
        OBVIOUS
      <4> QED BY <1>1, <4>1
    <3>3. CASE i + 1 <= Len(q)
      BY <1>1, <2>2, <3>1, <3>3, SMTT(30)
    <3>4. CASE i = Len(q)
      <4>1. ~(i + 1 <= Len(q)) /\ Len(q) - i = 0
        BY <1>1, <3>4
      <4>2. Len(after) = 0
        BY <2>2, <4>1
      <4> QED BY <3>1, <4>1, <4>2
    <3> QED BY <3>1, <3>2, <3>3, <3>4, Zenon
  <2>4. ASSUME NEW j \in 1 .. Len(q) - i PROVE after[j] = q[i + j]
    <3>1. i + 1 + j - 1 = i + j
      BY <1>1
    <3>2. after[j] = q[i + 1 + j - 1]
      BY <2>2, <2>3
    <3> QED BY <3>1, <3>2
  <2> QED BY <2>2, <2>3, <2>4
<1> HIDE DEF before, after
<1>4. /\ before \o after \in Seq(S)
      /\ Len(before \o after) = Len(q) - 1
      /\ \A j \in 1 .. Len(q) - 1 :
            (before \o after)[j] = IF j <= i - 1 THEN before[j] ELSE after[j - (i - 1)]
  <2>1. Len(before) + Len(after) = Len(q) - 1
    BY <1>1, <1>2, <1>3
  <2>2. /\ before \o after \in Seq(S)
        /\ Len(before \o after) = Len(before) + Len(after)
        /\ \A j \in 1 .. Len(before) + Len(after) : (before \o after)[j] =
              IF j <= Len(before) THEN before[j] ELSE after[j - Len(before)]
    BY <1>2, <1>3, ConcatProperties
  <2> QED BY <1>2, <2>1, <2>2
<1>5. \A j \in 1 .. Len(q) - 1 :
        (before \o after)[j] = IF j < i THEN q[j] ELSE q[j + 1]
  <2> TAKE j \in 1 .. Len(q) - 1
  <2>1. CASE j < i
    BY <1>1, <1>2, <1>4, <2>1
  <2>2. CASE j >= i
    <3>1. /\ (before \o after)[j] = after[j - (i - 1)]
          /\ j - (i - 1) \in 1 .. Len(q) - i /\ i + (j - (i - 1)) = j + 1
      BY <1>1, <1>4, <2>2
    <3>2. (before \o after)[j] = q[j + 1] /\ ~(j < i)
      BY <1>1, <1>3, <2>2, <3>1
    <3> QED BY <3>2
  <2>3. j < i \/ j >= i
    BY <1>1
  <2> QED BY <2>1, <2>2, <2>3
<1> DEFINE rest == SubSeq(q, 1, i - 1) \o SubSeq(q, i + 1, Len(q))
<1>r. rest = before \o after
  BY DEF before, after
<1> HIDE DEF rest
<1>6. rest \in Seq(S) /\ Len(rest) = Len(q) - 1 /\ DOMAIN rest = 1 .. Len(q) - 1
  BY <1>4, <1>r, LenProperties
<1>7. \A j \in 1 .. Len(q) - 1 : rest[j] = IF j < i THEN q[j] ELSE q[j + 1]
  BY <1>5, <1>r
<1>8. NoRepeats(rest)
  <2>1. SUFFICES ASSUME NEW j \in 1 .. Len(q) - 1, NEW k \in 1 .. Len(q) - 1,
                        rest[j] = rest[k]
                 PROVE  j = k
    BY <1>6 DEF NoRepeats
  <2> DEFINE at(l) == IF l < i THEN l ELSE l + 1
  <2>2. at(j) \in 1 .. Len(q) /\ at(k) \in 1 .. Len(q)
    BY <1>1
  <2>3. q[at(j)] = q[at(k)]
    BY <1>7, <2>1
  <2>4. at(j) = at(k)
    BY <1>1, <2>2, <2>3 DEF NoRepeats
  <2> QED BY <1>1, <2>4
<1>9. ASSUME NEW x \in Elems(rest) PROVE x \in Elems(q) \ {q[i]}
  <2>1. PICK j \in 1 .. Len(q) - 1 : x = rest[j]
    BY <1>6 DEF Elems
  <2>2. CASE j < i
    <3>1. j \in DOMAIN q /\ i \in DOMAIN q /\ x = q[j] /\ j # i
      BY <1>1, <1>7, <2>1, <2>2
    <3> QED BY <3>1 DEF Elems, NoRepeats
  <2>3. CASE j >= i
    <3>1. j + 1 \in DOMAIN q /\ i \in DOMAIN q /\ x = q[j + 1] /\ j + 1 # i
      BY <1>1, <1>7, <2>1, <2>3
    <3> QED BY <3>1 DEF Elems, NoRepeats
  <2> QED BY <1>1, <2>2, <2>3
<1>10. ASSUME NEW x \in Elems(q), x # q[i] PROVE x \in Elems(rest)
  <2>1. PICK k \in 1 .. Len(q) : x = q[k]
    BY <1>1 DEF Elems
  <2>2. CASE k < i
    <3>1. k \in DOMAIN rest /\ rest[k] = x
      BY <1>1, <1>6, <1>7, <2>1, <2>2
    <3> QED BY <3>1 DEF Elems
  <2>3. CASE k > i
    <3>1. k - 1 \in DOMAIN rest /\ rest[k - 1] = x
      BY <1>1, <1>6, <1>7, <2>1, <2>3
    <3> QED BY <3>1 DEF Elems
  <2> QED BY <1>1, <1>10, <2>1, <2>2, <2>3
<1>11. q[i] \in Elems(q)
  BY <1>1 DEF Elems
<1> QED BY <1>1, <1>6, <1>8, <1>9, <1>10, <1>11, Zenon DEF rest

=============================================================================
