------------------------------ MODULE HtcProofs -----------------------------
(***************************************************************************)
(* Proofs about Htc for any endpoints, packets, costs and credits.         *)
(*                                                                         *)
(* HtcInv has one part per concern: the places of threads and the packets  *)
(* they have in hand, the queues and the marks of packets, the credits,    *)
(* and the packets that wait.  The credits are balanced: those the         *)
(* distribution holds and those of Rest, elsewhere, add up to the total,   *)
(* and no endpoint is assigned more than it has here and there.  The       *)
(* lemmas follow the distribution: reduce and give, one endpoint's step,   *)
(* the folds over the endpoints as sequences of such steps.  A queue that  *)
(* waits is covered, as some thread will still look at it, or waits for a  *)
(* reason.                                                                 *)
(***************************************************************************)
EXTENDS Htc, OcfQueueProofs, NatLemmas

\* Threads: what the fields of a thread hold at each place, and that one of them has each
\* packet in hand.
Places == {"free", "queued", "taken", "hif"}
Ats == {"idle", "check", "try", "issue", "full", "avail", "walk"}
Frames == [at : Ats, ep : Eps \cup {None}, pkt : Packets \cup {None}, walk : Seq(Eps)]

Shape(t, r) ==
  /\ r.at = "idle" => r = Idle
  /\ r.at \in {"check", "issue"} => r.pkt \in Packets /\ r.ep = EpOf[r.pkt]
  /\ r.at = "try" => r.ep \in Eps /\ (r.pkt \in Packets => EpOf[r.pkt] = r.ep)
  /\ r.at \in {"full", "avail", "walk"} => r.pkt = None
  /\ r.at \in {"full", "avail"} => r.ep \in Eps
  /\ r.at = "walk" => r.walk # << >>
  /\ r.at = "check" => r.walk = << >>
  /\ t # "irq" => r.at # "walk" /\ r.walk = << >>

ThreadsOK == th \in [Threads -> Frames] /\ \A t \in Threads : Shape(t, th[t])

OwnersOK ==
  /\ \A x \in Packets : pkt[x] = "taken" => \E t \in Threads : th[t].pkt = x
  /\ \A t \in Threads : th[t].pkt \in Packets => pkt[th[t].pkt] = "taken"
  /\ \A t, u \in Threads : th[t].pkt \in Packets /\ th[t].pkt = th[u].pkt => t = u

\* Queues: each holds its packets once, and the mark of a packet tells where it is.
QueuesOK ==
  /\ pkt \in [Packets -> Places] /\ q \in [Eps -> Seq(Packets)] /\ hif \in Seq(Packets)
  /\ \A e \in Eps : NoRepeats(q[e])
  /\ NoRepeats(hif)
  /\ \A e \in Eps : \A x \in Elems(q[e]) : EpOf[x] = e
  /\ \A x \in Packets : pkt[x] = "queued" <=> x \in Elems(q[EpOf[x]])
  /\ \A x \in Packets : pkt[x] = "hif" <=> x \in Elems(hif)

\* Credits: c is what the distribution holds, r what is elsewhere for each endpoint.
Credits == [tx : [Eps -> Int], asg : [Eps -> Int], free : Int]
Fair(c, r, e) == 0 <= c.tx[e] /\ c.tx[e] <= c.asg[e] /\ c.asg[e] <= c.tx[e] + r[e] /\ 0 <= r[e]
Worth(c, r) == c.free + SumFunctionOnSet(c.tx, Eps) + SumFunctionOnSet(r, Eps)
Balanced(c, r) == /\ c \in Credits /\ r \in [Eps -> Int]
                  /\ 0 <= c.free /\ Worth(c, r) = Total
                  /\ \A e \in Eps : Fair(c, r, e)
Rest == [e \in Eps |-> owed[e] + UnderWay(e) + lost[e]]
CreditsOK == owed \in [Eps -> Nat] /\ lost \in [Eps -> Nat] /\ Balanced(cr, Rest)

\* Waiting packets: an endpoint is covered while some thread will still look at its queue.
Covers(r, e) == \/ r.at \in {"try", "issue"} /\ r.ep = e
                \/ e \in Elems(r.walk)
Covered(e) == \E t \in Threads : Covers(th[t], e)
Waits(e) == /\ cr.tx[e] < Cost[Head(q[e])]
            /\ e # Control /\ acts = 0 => cr.free = 0
WaitsOK == stop = "no" => \A e \in Eps : q[e] # << >> /\ ~Covered(e) => Waits(e)

FlagsOK ==
  /\ active \in SUBSET Eps /\ Control \in active
  /\ ctlFull \in BOOLEAN /\ netStopped \in BOOLEAN /\ connected \in BOOLEAN
  /\ stop \in {"no", "flag", "masked", "done"}
  /\ fails \in 0 .. MaxTroubles /\ acts \in 0 .. MaxTroubles /\ events \in 0 .. MaxTroubles

HtcInv == ThreadsOK /\ OwnersOK /\ QueuesOK /\ CreditsOK /\ WaitsOK /\ FlagsOK

----------------------------------------------------------------------------

\* What the assumption on the constants says of the endpoints and the packets.
LEMMA ConstantFacts ==
  /\ Prio \in Seq(Eps) /\ Len(Prio) \in Nat /\ Len(Prio) >= 2 /\ DOMAIN Prio = 1 .. Len(Prio)
  /\ \A i \in 1 .. Len(Prio) : Prio[i] \in Eps
  /\ \A i, j \in 1 .. Len(Prio) : Prio[i] = Prio[j] => i = j
  /\ \A e \in Eps : \E i \in 1 .. Len(Prio) : Prio[i] = e
  /\ Control \in Eps /\ IsFiniteSet(Eps)
  /\ EpOf \in [Packets -> Eps] /\ Cost \in [Packets -> Nat \ {0}] /\ IsFiniteSet(Packets)
  /\ PerMax \in Nat /\ PerMax > 0 /\ Total \in Nat /\ PerMax < Total
  /\ None \notin Packets /\ "net" \notin Procs /\ "irq" \notin Procs
<1>1. Range(Prio) = Eps
  BY DEF Range, Eps
<1>2. /\ Prio \in Seq(Eps) /\ Len(Prio) \in Nat /\ Len(Prio) >= 2
      /\ DOMAIN Prio = 1 .. Len(Prio)
  BY <1>1, HtcAssumption
<1>3. \A i \in 1 .. Len(Prio) : Prio[i] \in Eps
  BY <1>2 DEF Eps
<1>4. \A i, j \in 1 .. Len(Prio) : Prio[i] = Prio[j] => i = j
  BY <1>2, HtcAssumption DEF IsInjective
<1>5. \A e \in Eps : \E i \in 1 .. Len(Prio) : Prio[i] = e
  BY <1>2 DEF Eps
<1>6. Control \in Eps
  BY <1>2, <1>3 DEF Control
<1>7. IsFiniteSet(Eps)
  <2>1. IsFiniteSet(1 .. Len(Prio))
    BY <1>2, FS_Interval
  <2>2. Eps = {Prio[i] : i \in 1 .. Len(Prio)}
    BY <1>2 DEF Eps
  <2>. DEFINE im == [i \in 1 .. Len(Prio) |-> Prio[i]]
  <2>3. im \in Surjection(1 .. Len(Prio), Eps)
    BY <1>3, <1>5 DEF Surjection
  <2>. QED
    BY <2>1, <2>3, FS_Surjection
<1>8. /\ PerMax \in Nat /\ PerMax > 0 /\ Total \in Nat /\ PerMax < Total
  BY HtcAssumption
<1>9. EpOf \in [Packets -> Eps] /\ IsFiniteSet(Packets) /\ None \notin Packets
  BY HtcAssumption
<1>10. Cost \in [Packets -> Nat \ {0}]
  BY <1>8, HtcAssumption
<1>11. "net" \notin Procs /\ "irq" \notin Procs
  BY HtcAssumption
<1>. QED
  BY <1>2, <1>3, <1>4, <1>5, <1>6, <1>7, <1>8, <1>9, <1>10, <1>11

\* The larger of two numbers.
LEMMA MaxTwo ==
  ASSUME NEW a \in Int, NEW b \in Int
  PROVE  Max({a, b}) = IF a >= b THEN a ELSE b
  BY DEF Max

\* The smaller of two numbers.
LEMMA MinTwo ==
  ASSUME NEW a \in Int, NEW b \in Int
  PROVE  Min({a, b}) = IF a <= b THEN a ELSE b
  BY DEF Min

\* The norm of an endpoint is a natural number, whatever the division leaves.
LEMMA TxCreditsNormType ==
  ASSUME NEW e \in Eps
  PROVE  TxCreditsNorm(e) \in Nat
<1>. DEFINE X == (((Total - PerMax) \div PerMax) * PerMax) \div 2
<1>1. PerMax \in Nat /\ PerMax > 0 /\ Total \in Nat
  BY ConstantFacts
<1>2. (Total - PerMax) \div PerMax \in Int
  BY <1>1
<1>3. X \in Int
  BY <1>1, <1>2
<1>. HIDE DEF X
<1>4. Max({PerMax, X}) = IF PerMax >= X THEN PerMax ELSE X
  BY <1>1, <1>3, MaxTwo
<1>5. TxCreditsNorm(e) = IF e = Control THEN PerMax ELSE Max({PerMax, X})
  BY DEF TxCreditsNorm, X
<1>. QED
  BY <1>1, <1>3, <1>4, <1>5

----------------------------------------------------------------------------

\* A record of credits, by its fields.
LEMMA CreditsAre ==
  ASSUME NEW t \in [Eps -> Int], NEW a \in [Eps -> Int], NEW n \in Int
  PROVE  [tx |-> t, asg |-> a, free |-> n] \in Credits
  BY DEF Credits

\* What the edits of ReduceCredits make of a record.
LEMMA EditReduce ==
  ASSUME NEW t, NEW a, NEW n, NEW e, NEW m, NEW l, NEW k
  PROVE  [[tx |-> t, asg |-> a, free |-> n] EXCEPT !.asg[e] = l, !.tx[e] = m, !.free = k]
           = [tx |-> [t EXCEPT ![e] = m], asg |-> [a EXCEPT ![e] = l], free |-> k]
<1>. DEFINE r == [tx |-> t, asg |-> a, free |-> n]
            r1 == [r EXCEPT !.asg[e] = l]
            r2 == [r1 EXCEPT !.tx[e] = m]
            r3 == [r2 EXCEPT !.free = k]
            aa == [a EXCEPT ![e] = l]
            tt == [t EXCEPT ![e] = m]
<1>1. [r EXCEPT !.asg[e] = l, !.tx[e] = m, !.free = k] = r3
  OBVIOUS
<1>2. r1 = [tx |-> t, asg |-> aa, free |-> n]
  OBVIOUS
<1>. HIDE DEF r1, aa
<1>3. r2 = [tx |-> tt, asg |-> aa, free |-> n]
  BY <1>2
<1>. HIDE DEF r2, tt
<1>4. r3 = [tx |-> tt, asg |-> aa, free |-> k]
  BY <1>3
<1>. HIDE DEF r3
<1>. QED
  BY <1>1, <1>4 DEF aa, tt

\* What the edits of GiveCredits make of a record.
LEMMA EditGive ==
  ASSUME NEW t, NEW a, NEW n, NEW e, NEW m, NEW l, NEW k
  PROVE  [[tx |-> t, asg |-> a, free |-> n] EXCEPT !.tx[e] = m, !.asg[e] = l, !.free = k]
           = [tx |-> [t EXCEPT ![e] = m], asg |-> [a EXCEPT ![e] = l], free |-> k]
<1>. DEFINE r == [tx |-> t, asg |-> a, free |-> n]
            r1 == [r EXCEPT !.tx[e] = m]
            r2 == [r1 EXCEPT !.asg[e] = l]
            r3 == [r2 EXCEPT !.free = k]
            aa == [a EXCEPT ![e] = l]
            tt == [t EXCEPT ![e] = m]
<1>1. [r EXCEPT !.tx[e] = m, !.asg[e] = l, !.free = k] = r3
  OBVIOUS
<1>2. r1 = [tx |-> tt, asg |-> a, free |-> n]
  OBVIOUS
<1>. HIDE DEF r1, tt
<1>3. r2 = [tx |-> tt, asg |-> aa, free |-> n]
  BY <1>2
<1>. HIDE DEF r2, aa
<1>4. r3 = [tx |-> tt, asg |-> aa, free |-> k]
  BY <1>3
<1>. HIDE DEF r3
<1>. QED
  BY <1>1, <1>4 DEF aa, tt

\* reduce_credits, field by field: the credits over the limit go to the free pool.
LEMMA ReduceIs ==
  ASSUME NEW c \in Credits, NEW e \in Eps, NEW l \in Int
  PROVE  LET d == ReduceCredits(c, e, l) IN
         /\ d.tx = Changed(c.tx, e, IF c.tx[e] <= l THEN c.tx[e] ELSE l)
         /\ d.asg = Changed(c.asg, e, l)
         /\ d.free = c.free + (IF c.tx[e] <= l THEN 0 ELSE c.tx[e] - l)
         /\ d \in Credits
<1>. DEFINE m == Min({c.tx[e], l})
            x == Max({0, c.tx[e] - l})
<1>1. c.tx \in [Eps -> Int] /\ c.asg \in [Eps -> Int] /\ c.free \in Int
  BY DEF Credits
<1>2. c.tx[e] \in Int /\ c.tx[e] - l \in Int
  BY <1>1
<1>3. m = IF c.tx[e] <= l THEN c.tx[e] ELSE l
  BY <1>2, MinTwo
<1>4. x = IF c.tx[e] <= l THEN 0 ELSE c.tx[e] - l
  BY <1>2, MaxTwo
<1>5. c = [tx |-> c.tx, asg |-> c.asg, free |-> c.free]
  BY DEF Credits
<1>6. ReduceCredits(c, e, l) = [c EXCEPT !.asg[e] = l, !.tx[e] = m, !.free = c.free + x]
  BY <1>5 DEF ReduceCredits
<1>. HIDE DEF m, x
<1>7. ReduceCredits(c, e, l) = [tx   |-> [c.tx EXCEPT ![e] = m],
                                asg  |-> [c.asg EXCEPT ![e] = l],
                                free |-> c.free + x]
  <2>. DEFINE t == c.tx
              a == c.asg
              n == c.free
  <2>1. c = [tx |-> t, asg |-> a, free |-> n]
    BY <1>5
  <2>2. ReduceCredits(c, e, l) = [c EXCEPT !.asg[e] = l, !.tx[e] = m, !.free = n + x]
    BY <1>6
  <2>. HIDE DEF t, a, n
  <2>3. ReduceCredits(c, e, l)
          = [[tx |-> t, asg |-> a, free |-> n] EXCEPT !.asg[e] = l, !.tx[e] = m, !.free = n + x]
    BY <2>1, <2>2, Zenon
  <2>4. ReduceCredits(c, e, l)
          = [tx |-> [t EXCEPT ![e] = m], asg |-> [a EXCEPT ![e] = l], free |-> n + x]
    BY <2>3, EditReduce, Zenon
  <2>. QED
    BY <2>4 DEF t, a, n
<1>8. /\ [c.tx EXCEPT ![e] = m] \in [Eps -> Int] /\ [c.asg EXCEPT ![e] = l] \in [Eps -> Int]
      /\ c.free + x \in Int
  BY <1>1, <1>2, <1>3, <1>4
<1>. QED
  BY <1>3, <1>4, <1>7, <1>8, CreditsAre DEF Changed

\* GiveCredits, field by field.
LEMMA GiveIs ==
  ASSUME NEW c \in Credits, NEW e \in Eps, NEW n \in Int
  PROVE  LET d == GiveCredits(c, e, n) IN
         /\ d.tx = Changed(c.tx, e, c.tx[e] + n)
         /\ d.asg = Changed(c.asg, e, c.asg[e] + n)
         /\ d.free = c.free - n
         /\ d \in Credits
<1>1. c.tx \in [Eps -> Int] /\ c.asg \in [Eps -> Int] /\ c.free \in Int
  BY DEF Credits
<1>2. c = [tx |-> c.tx, asg |-> c.asg, free |-> c.free]
  BY DEF Credits
<1>3. GiveCredits(c, e, n) = [tx   |-> [c.tx EXCEPT ![e] = c.tx[e] + n],
                              asg  |-> [c.asg EXCEPT ![e] = c.asg[e] + n],
                              free |-> c.free - n]
  <2>. DEFINE t == c.tx
              a == c.asg
              k == c.free
              m == t[e] + n
              l == a[e] + n
  <2>1. c = [tx |-> t, asg |-> a, free |-> k]
    BY <1>2
  <2>2. GiveCredits(c, e, n) = [c EXCEPT !.tx[e] = m, !.asg[e] = l, !.free = k - n]
    BY <1>2 DEF GiveCredits
  <2>. HIDE DEF t, a, k, m, l
  <2>3. GiveCredits(c, e, n)
          = [[tx |-> t, asg |-> a, free |-> k] EXCEPT !.tx[e] = m, !.asg[e] = l, !.free = k - n]
    BY <2>1, <2>2, Zenon
  <2>4. GiveCredits(c, e, n)
          = [tx |-> [t EXCEPT ![e] = m], asg |-> [a EXCEPT ![e] = l], free |-> k - n]
    BY <2>3, EditGive, Zenon
  <2>. QED
    BY <2>4 DEF t, a, k, m, l
<1>4. /\ [c.tx EXCEPT ![e] = c.tx[e] + n] \in [Eps -> Int]
      /\ [c.asg EXCEPT ![e] = c.asg[e] + n] \in [Eps -> Int]
      /\ c.free - n \in Int
  BY <1>1
<1>. QED
  BY <1>3, <1>4, CreditsAre DEF Changed

\* How the worth changes with one endpoint and the free pool.
LEMMA WorthMove ==
  ASSUME NEW c \in Credits, NEW d \in Credits, NEW r \in [Eps -> Int], NEW e \in Eps,
         NEW v \in Int, NEW w \in Int, NEW n \in Int,
         d.tx = Changed(c.tx, e, v), d.free = n
  PROVE  Worth(d, Changed(r, e, w)) = Worth(c, r) + (v - c.tx[e]) + (w - r[e]) + (n - c.free)
<1>. DEFINE t == Changed(r, e, w)
            f == c.tx
            g == Changed(f, e, v)
<1>1. IsFiniteSet(Eps)
  BY ConstantFacts
<1>2. f \in [Eps -> Int] /\ f[e] \in Int /\ r[e] \in Int /\ c.free \in Int
  BY DEF Credits
<1>3. Worth(d, t) = n + SumFunctionOnSet(g, Eps) + SumFunctionOnSet(t, Eps)
  BY DEF Worth, Changed
<1>4. Worth(c, r) = c.free + SumFunctionOnSet(f, Eps) + SumFunctionOnSet(r, Eps)
  BY DEF Worth
<1>5. SumFunctionOnSet(t, Eps) = SumFunctionOnSet(r, Eps) + (w - r[e])
  BY <1>1, SumExcept
<1>. HIDE DEF f
<1>6. SumFunctionOnSet(g, Eps) = SumFunctionOnSet(f, Eps) + (v - f[e])
  BY <1>1, <1>2, SumExcept
<1>7. IntOn(f, Eps) /\ IntOn(r, Eps)
  BY <1>2 DEF IntOn
<1>8. SumFunctionOnSet(f, Eps) \in Int /\ SumFunctionOnSet(r, Eps) \in Int
  BY <1>1, <1>7, SumType
<1>. HIDE DEF t, g
<1>9. Worth(d, t) = Worth(c, r) + (v - f[e]) + (w - r[e]) + (n - c.free)
  BY <1>2, <1>3, <1>4, <1>5, <1>6, <1>8
<1>. QED
  BY <1>9 DEF t, f, Changed

\* A function with one value changed.
LEMMA ChangedIs ==
  ASSUME NEW S, NEW T, NEW f \in [S -> T], NEW x \in S, NEW w \in T
  PROVE  /\ Changed(f, x, w) \in [S -> T] /\ Changed(f, x, w)[x] = w
         /\ \A y \in S : y # x => Changed(f, x, w)[y] = f[y]
         /\ Changed(f, x, f[x]) = f
  BY DEF Changed

Almost(c, r, e) == /\ c \in Credits /\ r \in [Eps -> Int]
                   /\ 0 <= c.free /\ Worth(c, r) = Total
                   /\ \A f \in Eps : f # e => Fair(c, r, f)
                   /\ 0 <= c.tx[e] /\ 0 <= c.asg[e] /\ c.asg[e] <= c.tx[e] + r[e] /\ 0 <= r[e]

\* reduce_credits balances, from credits that may exceed what is assigned.
LEMMA ReduceBalances ==
  ASSUME NEW c, NEW r, NEW e \in Eps, Almost(c, r, e), NEW l \in Nat, l <= c.asg[e]
  PROVE  Balanced(ReduceCredits(c, e, l), r)
<1>. DEFINE d == ReduceCredits(c, e, l)
            v == IF c.tx[e] <= l THEN c.tx[e] ELSE l
            n == c.free + (IF c.tx[e] <= l THEN 0 ELSE c.tx[e] - l)
<1>1. /\ c \in Credits /\ r \in [Eps -> Int] /\ 0 <= c.free /\ Worth(c, r) = Total
      /\ 0 <= c.tx[e] /\ 0 <= c.asg[e] /\ c.asg[e] <= c.tx[e] + r[e] /\ 0 <= r[e]
  BY DEF Almost
<1>2. c.tx \in [Eps -> Int] /\ c.asg \in [Eps -> Int] /\ c.free \in Int
  BY <1>1 DEF Credits
<1>3. c.tx[e] \in Int /\ c.asg[e] \in Int /\ r[e] \in Int /\ v \in Int /\ n \in Int
  BY <1>1, <1>2
<1>4. /\ d.tx = Changed(c.tx, e, v) /\ d.asg = Changed(c.asg, e, l)
      /\ d.free = n /\ d \in Credits
  BY <1>1, ReduceIs
<1>5. /\ d.tx[e] = v /\ d.asg[e] = l
      /\ \A f \in Eps : f # e => d.tx[f] = c.tx[f] /\ d.asg[f] = c.asg[f]
  BY <1>2, <1>3, <1>4 DEF Changed
<1>. HIDE DEF d
<1>6. Worth(d, Changed(r, e, r[e])) = Worth(c, r) + (v - c.tx[e]) + (r[e] - r[e]) + (n - c.free)
  BY <1>1, <1>3, <1>4, WorthMove
<1>7. Changed(r, e, r[e]) = r
  BY <1>1, <1>3 DEF Changed
<1>8. Worth(d, r) = Total
  <2>1. Worth(d, r) = Worth(c, r) + (v - c.tx[e]) + (r[e] - r[e]) + (n - c.free)
    BY <1>6, <1>7, Zenon
  <2>2. Total \in Int
    BY ConstantFacts
  <2>. QED
    BY <1>1, <1>2, <1>3, <2>1, <2>2
<1>9. ASSUME NEW f \in Eps PROVE Fair(d, r, f)
  <2>1. CASE f = e
    BY <1>1, <1>3, <1>5, <2>1 DEF Fair
  <2>2. CASE f # e
    BY <1>5, <2>2 DEF Fair, Almost
  <2>. QED
    BY <2>1, <2>2
<1>10. d.free \in Int /\ 0 <= d.free
  BY <1>1, <1>2, <1>3, <1>4
<1>11. Balanced(d, r)
  BY <1>1, <1>4, <1>8, <1>9, <1>10 DEF Balanced
<1>. QED
  BY <1>11 DEF d

\* Balanced credits meet what ReduceBalances asks for.
LEMMA BalancedIsAlmost ==
  ASSUME NEW c, NEW r, NEW e \in Eps, Balanced(c, r)
  PROVE  Almost(c, r, e)
<1>1. c.tx[e] \in Int /\ c.asg[e] \in Int /\ r[e] \in Int
  BY DEF Balanced, Credits
<1>2. Fair(c, r, e)
  BY DEF Balanced
<1>3. 0 <= c.tx[e] /\ 0 <= c.asg[e] /\ c.asg[e] <= c.tx[e] + r[e] /\ 0 <= r[e]
  BY <1>1, <1>2 DEF Fair
<1>. QED
  BY <1>3 DEF Balanced, Almost

\* Free credits may be given to any endpoint.
LEMMA GiveBalances ==
  ASSUME NEW c, NEW r, NEW e \in Eps, Balanced(c, r), NEW n \in Nat, n <= c.free
  PROVE  Balanced(GiveCredits(c, e, n), r)
<1>. DEFINE d == GiveCredits(c, e, n)
            v == c.tx[e] + n
<1>1. c \in Credits /\ r \in [Eps -> Int] /\ 0 <= c.free /\ Worth(c, r) = Total
  BY DEF Balanced
<1>2. c.tx \in [Eps -> Int] /\ c.asg \in [Eps -> Int] /\ c.free \in Int
  BY <1>1 DEF Credits
<1>3. c.tx[e] \in Int /\ c.asg[e] \in Int /\ r[e] \in Int /\ v \in Int /\ c.asg[e] + n \in Int
  BY <1>1, <1>2
<1>4. /\ d.tx = Changed(c.tx, e, v) /\ d.asg = Changed(c.asg, e, c.asg[e] + n)
      /\ d.free = c.free - n /\ d \in Credits
  BY <1>1, GiveIs
<1>5. /\ d.tx[e] = v /\ d.asg[e] = c.asg[e] + n
      /\ \A f \in Eps : f # e => d.tx[f] = c.tx[f] /\ d.asg[f] = c.asg[f]
  BY <1>2, <1>3, <1>4 DEF Changed
<1>. HIDE DEF d
<1>6. c.free - n \in Int
  BY <1>2
<1>7. Worth(d, Changed(r, e, r[e]))
        = Worth(c, r) + (v - c.tx[e]) + (r[e] - r[e]) + ((c.free - n) - c.free)
  BY <1>1, <1>3, <1>4, <1>6, WorthMove, SMTT(30)
<1>8. Changed(r, e, r[e]) = r
  BY <1>1, <1>3 DEF Changed
<1>9. Worth(d, r) = Total
  <2>1. Worth(d, r)
          = Worth(c, r) + (v - c.tx[e]) + (r[e] - r[e]) + ((c.free - n) - c.free)
    BY <1>7, <1>8, Zenon
  <2>2. Total \in Int
    BY ConstantFacts
  <2>. QED
    BY <1>1, <1>2, <1>3, <2>1, <2>2
<1>10. ASSUME NEW f \in Eps PROVE Fair(d, r, f)
  <2>1. Fair(c, r, f)
    BY DEF Balanced
  <2>2. CASE f = e
    BY <1>3, <1>5, <2>1, <2>2 DEF Fair
  <2>3. CASE f # e
    BY <1>5, <2>1, <2>3 DEF Fair
  <2>. QED
    BY <2>2, <2>3
<1>11. 0 <= d.free
  BY <1>2, <1>4
<1>12. Balanced(d, r)
  BY <1>1, <1>4, <1>9, <1>10, <1>11 DEF Balanced
<1>. QED
  BY <1>12 DEF d

\* Credits that come back for an endpoint, clipped at what it is assigned and at its norm.
LEMMA ReturnedBalances ==
  ASSUME NEW c, NEW r, NEW e \in Eps, Balanced(c, r), NEW n \in Nat, n <= r[e]
  PROVE  Balanced(Returned(c, e, n), Changed(r, e, r[e] - n))
<1>. DEFINE back == [c EXCEPT !.tx[e] = @ + n]
            kept == IF back.tx[e] > c.asg[e] THEN ReduceCredits(back, e, c.asg[e]) ELSE back
            s == Changed(r, e, r[e] - n)
<1>1. /\ c \in Credits /\ r \in [Eps -> Int] /\ 0 <= c.free /\ Worth(c, r) = Total
      /\ \A f \in Eps : Fair(c, r, f)
  BY DEF Balanced
<1>2. c.tx \in [Eps -> Int] /\ c.asg \in [Eps -> Int] /\ c.free \in Int
  BY <1>1 DEF Credits
<1>3. c.tx[e] \in Int /\ c.asg[e] \in Int /\ r[e] \in Int /\ c.tx[e] + n \in Int /\ r[e] - n \in Int
  BY <1>1, <1>2
<1>4. 0 <= c.tx[e] /\ c.tx[e] <= c.asg[e] /\ c.asg[e] <= c.tx[e] + r[e] /\ 0 <= r[e]
  BY <1>1 DEF Fair
<1>5. CASE n = 0
  <2>1. Returned(c, e, n) = c
    BY <1>5 DEF Returned
  <2>2. s = r
    BY <1>1, <1>3, <1>5 DEF Changed
  <2>. QED
    BY <2>1, <2>2 DEF s
<1>6. CASE n # 0
  <2>1. /\ back.tx = Changed(c.tx, e, c.tx[e] + n) /\ back.asg = c.asg /\ back.free = c.free
        /\ back \in Credits
    <3>1. c = [tx |-> c.tx, asg |-> c.asg, free |-> c.free]
      BY <1>1 DEF Credits
    <3>2. back = [tx |-> Changed(c.tx, e, c.tx[e] + n), asg |-> c.asg, free |-> c.free]
      BY <1>1, <3>1 DEF Credits, Changed
    <3>3. Changed(c.tx, e, c.tx[e] + n) \in [Eps -> Int]
      BY <1>2, <1>3 DEF Changed
    <3>. HIDE DEF back
    <3>. QED
      BY <1>2, <3>2, <3>3, CreditsAre
  <2>2. /\ back.tx[e] = c.tx[e] + n
        /\ \A f \in Eps : f # e => back.tx[f] = c.tx[f]
    BY <1>2, <1>3, <2>1 DEF Changed
  <2>3. /\ s \in [Eps -> Int] /\ s[e] = r[e] - n
        /\ \A f \in Eps : f # e => s[f] = r[f]
    BY <1>1, <1>3 DEF Changed
  <2>4. /\ Returned(c, e, n) = IF kept.tx[e] > TxCreditsNorm(e)
                                 THEN ReduceCredits(kept, e, TxCreditsNorm(e)) ELSE kept
    BY <1>6 DEF Returned
  <2>. HIDE DEF back
  <2>5. Worth(back, s)
          = Worth(c, r) + ((c.tx[e] + n) - c.tx[e]) + ((r[e] - n) - r[e]) + (c.free - c.free)
    BY <1>1, <1>2, <1>3, <2>1, WorthMove
  <2>. HIDE DEF s
  <2>6. Worth(back, s) = Total
    <3>1. Total \in Int
      BY ConstantFacts
    <3>. QED
      BY <1>1, <1>2, <1>3, <2>5, <3>1
  <2>7. \A f \in Eps : f # e => Fair(back, s, f)
    BY <1>1, <2>1, <2>2, <2>3 DEF Fair
  <2>8. /\ 0 <= back.tx[e] /\ 0 <= back.asg[e] /\ back.asg[e] <= back.tx[e] + s[e] /\ 0 <= s[e]
    BY <1>3, <1>4, <2>1, <2>2, <2>3
  <2>9. Almost(back, s, e)
    BY <1>1, <2>1, <2>3, <2>6, <2>7, <2>8 DEF Almost
  <2>10. Balanced(kept, s)
    <3>1. CASE back.tx[e] > c.asg[e]
      <4>1. c.asg[e] \in Nat /\ c.asg[e] <= back.asg[e]
        BY <1>3, <1>4, <2>1
      <4>. QED
        BY <2>9, <3>1, <4>1, ReduceBalances
    <3>2. CASE ~(back.tx[e] > c.asg[e])
      <4>1. Fair(back, s, e)
        BY <1>3, <2>1, <2>2, <2>8, <3>2 DEF Fair
      <4>2. Balanced(back, s)
        BY <1>1, <2>1, <2>3, <2>6, <2>7, <4>1 DEF Balanced
      <4>. QED
        BY <3>2, <4>2
    <3>. QED
      BY <3>1, <3>2
  <2>. HIDE DEF kept
  <2>11. CASE kept.tx[e] > TxCreditsNorm(e)
    <3>1. Almost(kept, s, e)
      BY <2>10, BalancedIsAlmost
    <3>2. TxCreditsNorm(e) \in Nat
      BY TxCreditsNormType
    <3>3. kept.tx[e] \in Int /\ kept.asg[e] \in Int /\ Fair(kept, s, e)
      BY <2>10 DEF Balanced, Credits
    <3>4. TxCreditsNorm(e) <= kept.asg[e]
      BY <2>11, <3>2, <3>3 DEF Fair
    <3>5. Balanced(ReduceCredits(kept, e, TxCreditsNorm(e)), s)
      BY <3>1, <3>2, <3>4, ReduceBalances
    <3>. QED
      BY <2>4, <2>11, <3>5 DEF s
  <2>12. CASE ~(kept.tx[e] > TxCreditsNorm(e))
    BY <2>4, <2>10, <2>12 DEF s
  <2>. QED
    BY <2>11, <2>12
<1>. QED
  BY <1>5, <1>6

----------------------------------------------------------------------------
\* Folds over a sequence s of endpoints: st[e] is the step for endpoint e, h what the fold
\* computes for each set of positions, p what it has computed after the first i of them.
Steps == [Eps -> [Credits -> Credits]]

FoldSteps(h, s, b, st) ==
  /\ h[{}] = b
  /\ \A u \in SUBSET DOMAIN s : u # {} /\ h[u \ {Max(u)}] \in Credits
                                  => h[u] = st[s[Max(u)]][h[u \ {Max(u)}]]

FoldIs(g, s, b, st) ==
  g = [u \in SUBSET DOMAIN s |-> IF u = {} THEN b ELSE st[s[Max(u)]][g[u \ {Max(u)}]]]

Stages(p, s, b, st) ==
  /\ p \in [0 .. Len(s) -> Credits] /\ p[0] = b
  /\ \A i \in 1 .. Len(s) : p[i] = st[s[i]][p[i - 1]]

\* The last of some positions.
LEMMA MaxOfPositions ==
  ASSUME NEW n \in Nat, NEW u \in SUBSET (1 .. n), u # {}
  PROVE  Max(u) \in u /\ \A k \in u : k <= Max(u)
<1>1. u \subseteq Nat /\ \A k \in u : k <= n
  OBVIOUS
<1>. QED
  BY <1>1, NatMax

\* The function that the fold over a sequence chooses exists.
LEMMA FoldOfSteps ==
  ASSUME NEW s \in Seq(Eps), NEW b \in Credits, NEW st \in Steps
  PROVE  \E g \in [SUBSET DOMAIN s -> Credits] : FoldIs(g, s, b, st)
<1>. DEFINE D == DOMAIN s
            ch == [u \in SUBSET D |-> Max(u)]
            ss == [i \in D |-> st[s[i]]]
<1>1. Len(s) \in Nat /\ D = 1 .. Len(s) /\ \A i \in D : s[i] \in Eps
  OBVIOUS
<1>2. IsFiniteSet(D)
  BY <1>1, FS_Interval
<1>3. \A u \in SUBSET D : u # {} => Max(u) \in u
  BY <1>1, MaxOfPositions
<1>4. \A u \in SUBSET D : u # {} => ch[u] \in u
  BY <1>3
<1>5. \A i \in D : ss[i] \in [Credits -> Credits]
  BY <1>1 DEF Steps
<1>6. \A i \in D : ss[i] = st[s[i]]
  OBVIOUS
<1>7. \A u \in SUBSET D : ch[u] = Max(u)
  OBVIOUS
<1>. HIDE DEF D, ch, ss
<1>8. PICK g \in [SUBSET D -> Credits] : FoldEquations(g, D, b, ch, ss)
  BY <1>2, <1>4, <1>5, FoldExists
<1>9. ASSUME NEW u \in SUBSET D
      PROVE  g[u] = IF u = {} THEN b ELSE st[s[Max(u)]][g[u \ {Max(u)}]]
  <2>1. g[u] = IF u = {} THEN b ELSE ss[ch[u]][g[u \ {ch[u]}]]
    BY <1>8 DEF FoldEquations
  <2>2. CASE u = {}
    BY <2>1, <2>2
  <2>3. CASE u # {}
    <3>1. Max(u) \in D /\ ch[u] = Max(u)
      BY <1>3, <1>7, <2>3
    <3>. QED
      BY <1>6, <2>1, <2>3, <3>1
  <2>. QED
    BY <2>2, <2>3
<1>10. g = [u \in SUBSET D |-> IF u = {} THEN b ELSE st[s[Max(u)]][g[u \ {Max(u)}]]]
  BY <1>9
<1>11. g \in [SUBSET DOMAIN s -> Credits]
  BY DEF D
<1>12. FoldIs(g, s, b, st)
  BY <1>10, Zenon DEF D, FoldIs
<1>. QED
  BY <1>11, <1>12

\* So the fold goes through one stage per element, in order.
LEMMA FoldStages ==
  ASSUME NEW s \in Seq(Eps), NEW b \in Credits, NEW st \in Steps,
         NEW h, FoldSteps(h, s, b, st)
  PROVE  \E p : Stages(p, s, b, st) /\ p[Len(s)] = h[DOMAIN s]
<1>. DEFINE n == Len(s)
            p == [i \in 0 .. n |-> h[1 .. i]]
            T == {i \in 0 .. n : h[1 .. i] \in Credits}
<1>1. n \in Nat /\ DOMAIN s = 1 .. n /\ \A i \in 1 .. n : s[i] \in Eps
  OBVIOUS
<1>2. ASSUME NEW i \in 1 .. n, h[1 .. (i - 1)] \in Credits
      PROVE  h[1 .. i] = st[s[i]][h[1 .. (i - 1)]] /\ h[1 .. i] \in Credits
  <2>1. 1 .. i \in SUBSET (1 .. n) /\ 1 .. i # {} /\ i \in 1 .. i /\ i \in Nat
    BY <1>1, SMTT(30)
  <2>2. Max(1 .. i) \in 1 .. i /\ \A k \in 1 .. i : k <= Max(1 .. i)
    BY <1>1, <2>1, MaxOfPositions
  <2>3. Max(1 .. i) = i
    BY <2>1, <2>2
  <2>4. (1 .. i) \ {i} = 1 .. (i - 1)
    BY <2>1
  <2>5. h[1 .. i] = st[s[i]][h[1 .. (i - 1)]]
    BY <1>1, <1>2, <2>1, <2>3, <2>4 DEF FoldSteps
  <2>. QED
    BY <1>1, <1>2, <2>5 DEF Steps
<1>3. h[1 .. 0] = b
  <2>1. 1 .. 0 = {}
    OBVIOUS
  <2>. QED
    BY <2>1 DEF FoldSteps
<1>4. 0 .. n \subseteq T
  <2>1. 0 \in T
    BY <1>1, <1>3
  <2>2. ASSUME NEW k \in 0 .. n - 1, k \in T PROVE k + 1 \in T
    <3>1. k + 1 \in 1 .. n /\ (k + 1) - 1 = k /\ k + 1 \in 0 .. n
      BY <1>1
    <3>2. h[1 .. ((k + 1) - 1)] \in Credits
      BY <2>2, <3>1
    <3>. QED
      BY <1>2, <3>1, <3>2
  <2>. HIDE DEF T, n
  <2>3. \A k \in 0 .. n - 1 : k \in T => k + 1 \in T
    BY <2>2
  <2>. QED
    BY <1>1, <2>1, <2>3, NatSetInduction
<1>5. \A i \in 0 .. n : h[1 .. i] \in Credits
  BY <1>4
<1>6. p \in [0 .. n -> Credits] /\ p[0] = b
  BY <1>1, <1>3, <1>5
<1>7. ASSUME NEW i \in 1 .. n PROVE p[i] = st[s[i]][p[i - 1]]
  <2>1. i - 1 \in 0 .. n /\ i \in 0 .. n
    BY <1>1
  <2>2. h[1 .. (i - 1)] \in Credits
    BY <1>5, <2>1
  <2>. QED
    BY <1>2, <2>1, <2>2
<1>8. p[n] = h[DOMAIN s]
  BY <1>1
<1>. HIDE DEF p
<1>. QED
  BY <1>6, <1>7, <1>8 DEF Stages, n

\* SendComplete goes through the endpoints by priority.
LEMMA SendCompleteFold ==
  ASSUME NEW rpt, NEW st \in Steps, cr \in Credits,
         \A e \in Eps : \A c \in Credits : st[e][c] = Returned(c, e, rpt[e])
  PROVE  \E p : Stages(p, Prio, cr, st) /\ SendComplete(rpt) = p[Len(Prio)]
<1>. DEFINE D == DOMAIN Prio
            Body(g) == [u \in SUBSET D |->
                          IF u = {} THEN cr
                          ELSE Returned(g[u \ {Max(u)}], Prio[Max(u)], rpt[Prio[Max(u)]])]
            h == CHOOSE g : g = Body(g)
<1>1. SendComplete(rpt) = h[D]
  BY DEF SendComplete, FoldLeft, MapThenFoldSet
<1>2. Prio \in Seq(Eps) /\ Len(Prio) \in Nat /\ D = 1 .. Len(Prio)
  BY ConstantFacts
<1>3. PICK g \in [SUBSET D -> Credits] : FoldIs(g, Prio, cr, st)
  BY <1>2, FoldOfSteps
<1>4. ASSUME NEW u \in SUBSET D, u # {}
      PROVE  Max(u) \in D /\ Prio[Max(u)] \in Eps /\ u \ {Max(u)} \in SUBSET D
  <2>1. Max(u) \in u
    BY <1>2, <1>4, MaxOfPositions
  <2>. QED
    BY <1>2, <2>1
<1>5. g = Body(g)
  <2>1. ASSUME NEW u \in SUBSET D
        PROVE  g[u] = IF u = {} THEN cr
                      ELSE Returned(g[u \ {Max(u)}], Prio[Max(u)], rpt[Prio[Max(u)]])
    <3>1. g[u] = IF u = {} THEN cr ELSE st[Prio[Max(u)]][g[u \ {Max(u)}]]
      BY <1>3 DEF FoldIs
    <3>2. CASE u = {}
      BY <3>1, <3>2
    <3>3. CASE u # {}
      <4>1. g[u \ {Max(u)}] \in Credits
        BY <1>4, <3>3
      <4>. QED
        BY <1>4, <3>1, <3>3, <4>1
    <3>. QED
      BY <3>2, <3>3, SMTT(30)
  <2>. QED
    BY <2>1
<1>6. h = Body(h)
  BY <1>5
<1>. HIDE DEF h
<1>7. ASSUME NEW u \in SUBSET D
      PROVE  h[u] = IF u = {} THEN cr
                    ELSE Returned(h[u \ {Max(u)}], Prio[Max(u)], rpt[Prio[Max(u)]])
  BY <1>6
<1>8. FoldSteps(h, Prio, cr, st)
  <2>1. h[{}] = cr
    BY <1>7
  <2>2. ASSUME NEW u \in SUBSET D, u # {}, h[u \ {Max(u)}] \in Credits
        PROVE  h[u] = st[Prio[Max(u)]][h[u \ {Max(u)}]]
    BY <1>4, <1>7, <2>2
  <2>. QED
    BY <2>1, <2>2 DEF FoldSteps
<1>. QED
  BY <1>1, <1>2, <1>8, FoldStages

\* RedistributeCredits goes through the data endpoints.
LEMMA RedistributeFold ==
  ASSUME NEW on, NEW st \in Steps, cr \in Credits,
         \A e \in Eps : \A c \in Credits : st[e][c] = IF e \in on THEN c ELSE ReduceCredits(c, e, 0)
  PROVE  \E p : Stages(p, Tail(Prio), cr, st) /\ RedistributeCredits(on) = p[Len(Tail(Prio))]
<1>. DEFINE s == Tail(Prio)
            D == DOMAIN s
            Body(g) == [u \in SUBSET D |->
                          IF u = {} THEN cr
                          ELSE IF s[Max(u)] \in on THEN g[u \ {Max(u)}]
                          ELSE ReduceCredits(g[u \ {Max(u)}], s[Max(u)], 0)]
            h == CHOOSE g : g = Body(g)
<1>1. RedistributeCredits(on) = h[D]
  BY DEF RedistributeCredits, FoldLeft, MapThenFoldSet
<1>2. s \in Seq(Eps) /\ Len(s) \in Nat /\ D = 1 .. Len(s)
  BY ConstantFacts
<1>3. PICK g \in [SUBSET D -> Credits] : FoldIs(g, s, cr, st)
  BY <1>2, FoldOfSteps
<1>4. ASSUME NEW u \in SUBSET D, u # {}
      PROVE  Max(u) \in D /\ s[Max(u)] \in Eps /\ u \ {Max(u)} \in SUBSET D
  <2>1. Max(u) \in u
    BY <1>2, <1>4, MaxOfPositions
  <2>. QED
    BY <1>2, <2>1
<1>5. g = Body(g)
  <2>1. ASSUME NEW u \in SUBSET D
        PROVE  g[u] = IF u = {} THEN cr
                      ELSE IF s[Max(u)] \in on THEN g[u \ {Max(u)}]
                      ELSE ReduceCredits(g[u \ {Max(u)}], s[Max(u)], 0)
    <3>1. g[u] = IF u = {} THEN cr ELSE st[s[Max(u)]][g[u \ {Max(u)}]]
      BY <1>3, Zenon DEF FoldIs
    <3>2. CASE u = {}
      BY <3>1, <3>2
    <3>3. CASE u # {}
      <4>1. g[u \ {Max(u)}] \in Credits
        BY <1>4, <3>3
      <4>. QED
        BY <1>4, <3>1, <3>3, <4>1
    <3>. QED
      BY <3>2, <3>3
  <2>. QED
    BY <2>1
<1>6. h = Body(h)
  BY <1>5
<1>. HIDE DEF h
<1>7. ASSUME NEW u \in SUBSET D
      PROVE  h[u] = IF u = {} THEN cr
                    ELSE IF s[Max(u)] \in on THEN h[u \ {Max(u)}]
                    ELSE ReduceCredits(h[u \ {Max(u)}], s[Max(u)], 0)
  BY <1>6
<1>8. FoldSteps(h, s, cr, st)
  <2>1. h[{}] = cr
    BY <1>7
  <2>2. ASSUME NEW u \in SUBSET D, u # {}, h[u \ {Max(u)}] \in Credits
        PROVE  h[u] = st[s[Max(u)]][h[u \ {Max(u)}]]
    BY <1>4, <1>7, <2>2, ZenonT(60)
  <2>. QED
    BY <2>1, <2>2 DEF FoldSteps
<1>9. s \in Seq(Eps)
  BY <1>2
<1>10. s = Tail(Prio) /\ D = DOMAIN s
  OBVIOUS
<1>. HIDE DEF s, D
<1>11. PICK p : Stages(p, s, cr, st) /\ p[Len(s)] = h[DOMAIN s]
  BY <1>8, <1>9, FoldStages
<1>. QED
  BY <1>1, <1>10, <1>11

\* TakeFrom goes through the endpoints it is given.
LEMMA TakeFold ==
  ASSUME NEW s \in Seq(Eps), NEW b \in Credits, NEW seek, NEW st \in Steps,
         \A e \in Eps : \A c \in Credits : st[e][c] = Take(c, e, seek)
  PROVE  \E p : Stages(p, s, b, st) /\ TakeFrom(b, s, seek) = p[Len(s)]
<1>. DEFINE D == DOMAIN s
            Body(g) == [u \in SUBSET D |->
                          IF u = {} THEN b
                          ELSE Take(g[u \ {Max(u)}], s[Max(u)], seek)]
            h == CHOOSE g : g = Body(g)
<1>1. TakeFrom(b, s, seek) = h[D]
  BY DEF TakeFrom, FoldLeft, MapThenFoldSet
<1>2. s \in Seq(Eps) /\ Len(s) \in Nat /\ D = 1 .. Len(s)
  OBVIOUS
<1>3. PICK g \in [SUBSET D -> Credits] : FoldIs(g, s, b, st)
  BY <1>2, FoldOfSteps
<1>4. ASSUME NEW u \in SUBSET D, u # {}
      PROVE  Max(u) \in D /\ s[Max(u)] \in Eps /\ u \ {Max(u)} \in SUBSET D
  <2>1. Max(u) \in u
    BY <1>2, <1>4, MaxOfPositions
  <2>. QED
    BY <1>2, <2>1
<1>5. g = Body(g)
  <2>1. ASSUME NEW u \in SUBSET D
        PROVE  g[u] = IF u = {} THEN b
                      ELSE Take(g[u \ {Max(u)}], s[Max(u)], seek)
    <3>1. g[u] = IF u = {} THEN b ELSE st[s[Max(u)]][g[u \ {Max(u)}]]
      BY <1>3 DEF FoldIs
    <3>2. CASE u = {}
      BY <3>1, <3>2
    <3>3. CASE u # {}
      <4>1. g[u \ {Max(u)}] \in Credits
        BY <1>4, <3>3
      <4>. QED
        BY <1>4, <3>1, <3>3, <4>1
    <3>. QED
      BY <3>2, <3>3, SMTT(30)
  <2>. QED
    BY <2>1
<1>6. h = Body(h)
  BY <1>5
<1>. HIDE DEF h
<1>7. ASSUME NEW u \in SUBSET D
      PROVE  h[u] = IF u = {} THEN b
                    ELSE Take(h[u \ {Max(u)}], s[Max(u)], seek)
  BY <1>6
<1>8. FoldSteps(h, s, b, st)
  <2>1. h[{}] = b
    BY <1>7
  <2>2. ASSUME NEW u \in SUBSET D, u # {}, h[u \ {Max(u)}] \in Credits
        PROVE  h[u] = st[s[Max(u)]][h[u \ {Max(u)}]]
    BY <1>4, <1>7, <2>2
  <2>. QED
    BY <2>1, <2>2 DEF FoldSteps
<1>. QED
  BY <1>1, <1>2, <1>8, FoldStages

----------------------------------------------------------------------------

\* Returned credits are credits, whatever the report says.
LEMMA ReturnedType ==
  ASSUME NEW c \in Credits, NEW e \in Eps, NEW n \in Int
  PROVE  Returned(c, e, n) \in Credits
<1>. DEFINE back == [c EXCEPT !.tx[e] = @ + n]
            kept == IF back.tx[e] > c.asg[e] THEN ReduceCredits(back, e, c.asg[e]) ELSE back
<1>1. c.tx \in [Eps -> Int] /\ c.asg \in [Eps -> Int] /\ c.free \in Int
  BY DEF Credits
<1>2. back \in Credits
  <2>1. c = [tx |-> c.tx, asg |-> c.asg, free |-> c.free]
    BY DEF Credits
  <2>2. back = [tx |-> Changed(c.tx, e, c.tx[e] + n), asg |-> c.asg, free |-> c.free]
    BY <2>1 DEF Credits, Changed
  <2>3. Changed(c.tx, e, c.tx[e] + n) \in [Eps -> Int]
    BY <1>1 DEF Changed
  <2>. HIDE DEF back
  <2>. QED
    BY <1>1, <2>2, <2>3, CreditsAre
<1>3. Returned(c, e, n) = IF n = 0 THEN c
                          ELSE IF kept.tx[e] > TxCreditsNorm(e)
                                 THEN ReduceCredits(kept, e, TxCreditsNorm(e)) ELSE kept
  BY DEF Returned
<1>4. c.asg[e] \in Int /\ TxCreditsNorm(e) \in Int
  BY <1>1, TxCreditsNormType
<1>. HIDE DEF back
<1>5. ReduceCredits(back, e, c.asg[e]) \in Credits
  BY <1>2, <1>4, ReduceIs
<1>6. kept \in Credits
  BY <1>2, <1>5
<1>. HIDE DEF kept
<1>7. ReduceCredits(kept, e, TxCreditsNorm(e)) \in Credits
  BY <1>4, <1>6, ReduceIs
<1>. QED
  BY <1>3, <1>6, <1>7

\* A report moves credits from the target back into the distribution.
LEMMA SendCompleteBalances ==
  ASSUME NEW r, Balanced(cr, r), NEW rpt \in [Eps -> Nat], \A e \in Eps : rpt[e] <= r[e]
  PROVE  Balanced(SendComplete(rpt), [e \in Eps |-> r[e] - rpt[e]])
<1>. DEFINE st == [e \in Eps |-> [c \in Credits |-> Returned(c, e, rpt[e])]]
            n == Len(Prio)
            Left(i) == [e \in Eps |-> IF \E j \in 1 .. i : Prio[j] = e THEN r[e] - rpt[e] ELSE r[e]]
<1>1. /\ n \in Nat /\ \A i \in 1 .. n : Prio[i] \in Eps
      /\ \A i, j \in 1 .. n : Prio[i] = Prio[j] => i = j
      /\ \A e \in Eps : \E i \in 1 .. n : Prio[i] = e
  BY ConstantFacts
<1>2. cr \in Credits /\ r \in [Eps -> Int] /\ \A e \in Eps : rpt[e] \in Int
  BY DEF Balanced
<1>3. \A e \in Eps : \A c \in Credits : Returned(c, e, rpt[e]) \in Credits
  BY <1>2, ReturnedType
<1>4. st \in Steps /\ \A e \in Eps : \A c \in Credits : st[e][c] = Returned(c, e, rpt[e])
  BY <1>3 DEF Steps
<1>. HIDE DEF st
<1>5. PICK p : Stages(p, Prio, cr, st) /\ SendComplete(rpt) = p[n]
  BY <1>2, <1>4, SendCompleteFold
<1>. DEFINE T == {i \in 0 .. n : Balanced(p[i], Left(i))}
<1>6. 0 \in T
  <2>1. Left(0) = r
    BY <1>2
  <2>2. p[0] = cr
    BY <1>5 DEF Stages
  <2>. QED
    BY <1>1, <2>1, <2>2, SMTT(30)
<1>7. ASSUME NEW k \in 0 .. n - 1, k \in T PROVE k + 1 \in T
  <2>. DEFINE e == Prio[k + 1]
              l == Left(k)
  <2>1. k + 1 \in 1 .. n /\ (k + 1) - 1 = k /\ e \in Eps /\ k + 1 \in 0 .. n
    BY <1>1
  <2>2. Balanced(p[k], l)
    BY <1>7
  <2>3. p[k] \in Credits
    BY <2>2 DEF Balanced
  <2>4. p[k + 1] = Returned(p[k], e, rpt[e])
    <3>1. p[k + 1] = st[e][p[k]]
      BY <1>5, <2>1 DEF Stages
    <3>. QED
      BY <1>4, <2>1, <2>3, <3>1
  <2>5. l[e] = r[e]
    BY <1>1, <2>1, SMTT(30)
  <2>6. Left(k + 1) = Changed(l, e, l[e] - rpt[e])
    <3>1. ASSUME NEW f \in Eps PROVE Left(k + 1)[f] = Changed(l, e, l[e] - rpt[e])[f]
      <4>1. CASE f = e
        BY <2>1, <2>5, <4>1 DEF Changed
      <4>2. CASE f # e
        <5>1. (\E j \in 1 .. k + 1 : Prio[j] = f) <=> (\E j \in 1 .. k : Prio[j] = f)
          BY <1>1, <2>1, <4>2
        <5>. QED
          BY <4>2, <5>1 DEF Changed
      <4>. QED
        BY <4>1, <4>2
    <3>. QED
      BY <3>1 DEF Changed
  <2>7. rpt[e] \in Nat /\ rpt[e] <= l[e]
    BY <2>1, <2>5
  <2>. HIDE DEF e, l, Left
  <2>8. Balanced(Returned(p[k], e, rpt[e]), Changed(l, e, l[e] - rpt[e]))
    BY <2>1, <2>2, <2>7, ReturnedBalances
  <2>9. Balanced(p[k + 1], Left(k + 1))
    BY <2>4, <2>6, <2>8
  <2>. QED
    BY <2>1, <2>9
<1>8. Left(n) = [e \in Eps |-> r[e] - rpt[e]]
  BY <1>1
<1>9. 0 .. n \subseteq T
  <2>. HIDE DEF T, n
  <2>1. \A k \in 0 .. n - 1 : k \in T => k + 1 \in T
    BY <1>7
  <2>. QED
    BY <1>1, <1>6, <2>1, NatSetInduction
<1>10. Balanced(p[n], Left(n))
  <2>1. n \in 0 .. n
    BY <1>1
  <2>2. n \in T
    BY <1>9, <2>1, Zenon
  <2>. QED
    BY <2>2
<1>. QED
  BY <1>5, <1>8, <1>10

\* Credits taken from one endpoint go to the free pool, and never beyond what is sought.
LEMMA TakeBalances ==
  ASSUME NEW c, NEW r, Balanced(c, r), NEW e \in Eps, NEW seek \in Nat
  PROVE  LET d == Take(c, e, seek) IN
         /\ Balanced(d, r)
         /\ \A f \in Eps : d.tx[f] <= c.tx[f]
         /\ \A f \in Eps : f # e => d.tx[f] = c.tx[f]
         /\ c.free <= d.free
         /\ d.free <= c.free \/ d.free <= seek
<1>. DEFINE need == seek - c.free
            l == c.asg[e] - need
            d == Take(c, e, seek)
<1>1. c \in Credits /\ r \in [Eps -> Int] /\ 0 <= c.free /\ Fair(c, r, e)
  BY DEF Balanced
<1>2. c.tx \in [Eps -> Int] /\ c.asg \in [Eps -> Int] /\ c.free \in Int
  BY <1>1 DEF Credits
<1>3. c.tx[e] \in Int /\ c.asg[e] \in Int /\ need \in Int /\ l \in Int /\ c.tx[e] <= c.asg[e]
  BY <1>1, <1>2 DEF Fair
<1>4. PerMax \in Nat
  BY ConstantFacts
<1>5. CASE need > 0 /\ l > PerMax
  <2>1. d = ReduceCredits(c, e, l)
    BY <1>5 DEF Take
  <2>2. l \in Nat /\ l <= c.asg[e]
    BY <1>2, <1>3, <1>4, <1>5
  <2>3. Almost(c, r, e)
    BY BalancedIsAlmost
  <2>. DEFINE v == IF c.tx[e] <= l THEN c.tx[e] ELSE l
  <2>4. /\ d.tx = Changed(c.tx, e, v)
        /\ d.free = c.free + (IF c.tx[e] <= l THEN 0 ELSE c.tx[e] - l)
    <3>. HIDE DEF l, d
    <3>. QED
      BY <1>1, <1>3, <2>1, ReduceIs, ZenonT(60) DEF v
  <2>. HIDE DEF l, d
  <2>5. Balanced(d, r)
    BY <2>1, <2>2, <2>3, ReduceBalances
  <2>. HIDE DEF v
  <2>6. d.tx[e] = v /\ \A f \in Eps : f # e => d.tx[f] = c.tx[f]
    BY <1>2, <2>4 DEF Changed
  <2>7. v <= c.tx[e]
    BY <1>3 DEF v
  <2>8. \A f \in Eps : d.tx[f] <= c.tx[f]
    BY <1>2, <2>6, <2>7
  <2>9. c.free <= d.free /\ d.free <= seek
    <3>1. l = c.asg[e] - (seek - c.free) /\ seek > c.free
      BY <1>2, <1>5 DEF l
    <3>2. CASE c.tx[e] <= l
      BY <1>2, <1>3, <2>4, <3>1, <3>2
    <3>3. CASE ~(c.tx[e] <= l)
      BY <1>2, <1>3, <2>4, <3>1, <3>3
    <3>. QED
      BY <3>2, <3>3
  <2>. QED
    BY <2>5, <2>6, <2>8, <2>9 DEF d
<1>6. CASE ~(need > 0 /\ l > PerMax)
  <2>1. d = c
    BY <1>6 DEF Take
  <2>2. \A f \in Eps : c.tx[f] <= c.tx[f]
    BY <1>2
  <2>. QED
    BY <1>2, <2>1, <2>2
<1>. QED
  BY <1>5, <1>6

NotMore(d, c) == \A f \in Eps : d.tx[f] <= c.tx[f]

\* The same of several endpoints; the one that seeks keeps its own.
LEMMA TakeFromBalances ==
  ASSUME NEW c, NEW r, Balanced(c, r), NEW s \in Seq(Eps), NEW seek \in Nat,
         NEW e \in Eps, e \notin Elems(s)
  PROVE  LET d == TakeFrom(c, s, seek) IN
         /\ Balanced(d, r) /\ NotMore(d, c) /\ d.tx[e] = c.tx[e]
         /\ d.free <= c.free \/ d.free <= seek
<1>. DEFINE st == [f \in Eps |-> [b \in Credits |-> Take(b, f, seek)]]
            n == Len(s)
            Good(d) == /\ Balanced(d, r) /\ NotMore(d, c) /\ d.tx[e] = c.tx[e]
                       /\ d.free <= c.free \/ d.free <= seek
<1>1. n \in Nat /\ DOMAIN s = 1 .. n /\ \A i \in 1 .. n : s[i] \in Eps /\ s[i] # e
  BY DEF Elems
<1>2. c \in Credits
  BY DEF Balanced
<1>3. c.tx \in [Eps -> Int] /\ c.free \in Int
  BY <1>2 DEF Credits
<1>4. ASSUME NEW f \in Eps, NEW b \in Credits PROVE Take(b, f, seek) \in Credits
  <2>1. b.asg[f] \in Int /\ b.free \in Int
    BY DEF Credits
  <2>. DEFINE l == b.asg[f] - (seek - b.free)
  <2>2. l \in Int
    BY <2>1
  <2>3. Take(b, f, seek) = b \/ Take(b, f, seek) = ReduceCredits(b, f, l)
    BY DEF Take
  <2>. HIDE DEF l
  <2>4. ReduceCredits(b, f, l) \in Credits
    BY <2>2, ReduceIs
  <2>. QED
    BY <2>3, <2>4
<1>5. st \in Steps /\ \A f \in Eps : \A b \in Credits : st[f][b] = Take(b, f, seek)
  BY <1>4 DEF Steps
<1>. HIDE DEF st
<1>6. PICK p : Stages(p, s, c, st) /\ TakeFrom(c, s, seek) = p[n]
  BY <1>2, <1>5, TakeFold
<1>. DEFINE T == {i \in 0 .. n : Good(p[i])}
<1>7. 0 \in T
  <2>1. p[0] = c
    BY <1>6 DEF Stages
  <2>2. NotMore(c, c)
    BY <1>3 DEF NotMore
  <2>. QED
    BY <1>1, <1>3, <2>1, <2>2
<1>8. ASSUME NEW k \in 0 .. n - 1, k \in T PROVE k + 1 \in T
  <2>. DEFINE f == s[k + 1]
              b == p[k]
              d == Take(b, f, seek)
  <2>1. k + 1 \in 1 .. n /\ (k + 1) - 1 = k /\ f \in Eps /\ f # e /\ k + 1 \in 0 .. n
    BY <1>1
  <2>2. Balanced(b, r) /\ NotMore(b, c) /\ b.tx[e] = c.tx[e] /\ (b.free <= c.free \/ b.free <= seek)
    BY <1>8
  <2>3. b \in Credits
    BY <2>2 DEF Balanced
  <2>4. p[k + 1] = d
    <3>1. p[k + 1] = st[f][b]
      BY <1>6, <2>1 DEF Stages
    <3>. QED
      BY <1>5, <2>1, <2>3, <3>1
  <2>. HIDE DEF f, b, d
  <2>5. /\ Balanced(d, r)
        /\ \A g \in Eps : d.tx[g] <= b.tx[g]
        /\ \A g \in Eps : g # f => d.tx[g] = b.tx[g]
        /\ d.free <= b.free \/ d.free <= seek
    BY <2>1, <2>2, TakeBalances, ZenonT(60) DEF d
  <2>6. d \in Credits
    BY <2>5 DEF Balanced
  <2>7. /\ d.tx \in [Eps -> Int] /\ d.free \in Int /\ b.tx \in [Eps -> Int] /\ b.free \in Int
    BY <2>3, <2>6 DEF Credits
  <2>8. NotMore(d, c)
    BY <1>3, <2>2, <2>5, <2>7, SMTT(30) DEF NotMore
  <2>9. d.tx[e] = c.tx[e]
    BY <2>1, <2>2, <2>5
  <2>10. d.free <= c.free \/ d.free <= seek
    BY <1>3, <2>2, <2>5, <2>7, SMTT(30)
  <2>11. Good(p[k + 1])
    BY <2>4, <2>5, <2>8, <2>9, <2>10
  <2>. QED
    BY <2>1, <2>11
<1>9. n \in T
  <2>. HIDE DEF T, n
  <2>1. \A k \in 0 .. n - 1 : k \in T => k + 1 \in T
    BY <1>8
  <2>2. 0 .. n \subseteq T
    BY <1>1, <1>7, <2>1, NatSetInduction
  <2>. QED
    BY <1>1, <2>2
<1>. QED
  BY <1>6, <1>9

\* A change of activity only frees credits.
LEMMA RedistributeBalances ==
  ASSUME NEW r, Balanced(cr, r), NEW on
  PROVE  Balanced(RedistributeCredits(on), r) /\ NotMore(RedistributeCredits(on), cr)
<1>. DEFINE Step(b, f) == IF f \in on THEN b ELSE ReduceCredits(b, f, 0)
            st == [f \in Eps |-> [b \in Credits |-> Step(b, f)]]
            s == Tail(Prio)
            n == Len(s)
            Good(d) == Balanced(d, r) /\ NotMore(d, cr)
<1>1. s \in Seq(Eps)
  BY ConstantFacts
<1>2. n \in Nat /\ DOMAIN s = 1 .. n /\ \A i \in 1 .. n : s[i] \in Eps
  BY <1>1
<1>3. cr \in Credits
  BY DEF Balanced
<1>4. cr.tx \in [Eps -> Int]
  BY <1>3 DEF Credits
<1>5. ASSUME NEW f \in Eps, NEW b \in Credits PROVE Step(b, f) \in Credits
  BY ReduceIs
<1>6. /\ st \in Steps
      /\ \A f \in Eps : \A b \in Credits : st[f][b] = IF f \in on THEN b ELSE ReduceCredits(b, f, 0)
  BY <1>5 DEF Steps
<1>. HIDE DEF st
<1>7. PICK p : Stages(p, s, cr, st) /\ RedistributeCredits(on) = p[n]
  BY <1>3, <1>6, RedistributeFold
<1>. HIDE DEF s
<1>. DEFINE T == {i \in 0 .. n : Good(p[i])}
<1>8. 0 \in T
  <2>1. p[0] = cr
    BY <1>7 DEF Stages
  <2>2. NotMore(cr, cr)
    BY <1>4 DEF NotMore
  <2>. QED
    BY <1>2, <2>1, <2>2
<1>9. ASSUME NEW k \in 0 .. n - 1, k \in T PROVE k + 1 \in T
  <2>. DEFINE f == s[k + 1]
              b == p[k]
              d == ReduceCredits(b, f, 0)
  <2>1. k + 1 \in 1 .. n /\ (k + 1) - 1 = k /\ f \in Eps /\ k + 1 \in 0 .. n
    BY <1>2
  <2>2. Balanced(b, r) /\ NotMore(b, cr)
    BY <1>9
  <2>3. b \in Credits
    BY <2>2 DEF Balanced
  <2>4. p[k + 1] = IF f \in on THEN b ELSE d
    <3>1. p[k + 1] = st[f][b]
      BY <1>7, <2>1 DEF Stages
    <3>. QED
      BY <1>6, <2>1, <2>3, <3>1
  <2>. HIDE DEF f, b, d
  <2>5. Balanced(d, r)
    <3>1. Almost(b, r, f)
      BY <2>1, <2>2, BalancedIsAlmost
    <3>2. 0 \in Nat /\ 0 <= b.asg[f]
      BY <3>1 DEF Almost
    <3>. QED
      BY <2>1, <3>1, <3>2, ReduceBalances DEF d
  <2>6. NotMore(d, cr)
    <3>1. d.tx = Changed(b.tx, f, IF b.tx[f] <= 0 THEN b.tx[f] ELSE 0)
      BY <2>1, <2>3, ReduceIs DEF d
    <3>2. b.tx \in [Eps -> Int]
      BY <2>3 DEF Credits
    <3>3. ASSUME NEW g \in Eps PROVE d.tx[g] <= b.tx[g]
      <4>1. CASE b.tx[f] <= 0
        BY <2>1, <3>1, <3>2, <4>1 DEF Changed
      <4>2. CASE ~(b.tx[f] <= 0)
        BY <2>1, <3>1, <3>2, <4>2 DEF Changed
      <4>. QED
        BY <4>1, <4>2
    <3>4. d \in Credits
      BY <2>5 DEF Balanced
    <3>5. d.tx \in [Eps -> Int]
      BY <3>4 DEF Credits
    <3>. QED
      BY <1>4, <2>2, <3>2, <3>3, <3>5 DEF NotMore
  <2>7. Good(p[k + 1])
    BY <2>2, <2>4, <2>5, <2>6
  <2>. QED
    BY <2>1, <2>7
<1>10. n \in T
  <2>. HIDE DEF T, n
  <2>1. \A k \in 0 .. n - 1 : k \in T => k + 1 \in T
    BY <1>9
  <2>2. 0 .. n \subseteq T
    BY <1>2, <1>8, <2>1, NatSetInduction
  <2>. QED
    BY <1>2, <2>2
<1>. QED
  BY <1>7, <1>10

\* An endpoint is not among those of lower priority than itself.
LEMMA LowerIs ==
  ASSUME NEW e \in Eps
  PROVE  Lower(e) \in Seq(Eps) /\ e \notin Elems(Lower(e))
<1>. DEFINE k == Rank(e)
            n == Len(Prio)
            s == SubSeq(Prio, k + 1, n)
<1>1. /\ n \in Nat /\ DOMAIN Prio = 1 .. n /\ Prio \in Seq(Eps)
      /\ \A i \in 1 .. n : Prio[i] \in Eps
      /\ \A i, j \in 1 .. n : Prio[i] = Prio[j] => i = j
      /\ \E i \in 1 .. n : Prio[i] = e
  BY ConstantFacts
<1>2. k \in 1 .. n /\ Prio[k] = e
  BY <1>1 DEF Rank
<1>. HIDE DEF k
<1>3. /\ Len(s) \in Nat /\ DOMAIN s = 1 .. Len(s)
      /\ \A i \in 1 .. Len(s) : s[i] \in Eps /\ s[i] # e
  <2>. DEFINE S == Eps \ {e}
  <2>1. k + 1 \in Int /\ n \in Int
    BY <1>1, <1>2
  <2>2. \A i \in k + 1 .. n : Prio[i] \in S
    BY <1>1, <1>2
  <2>. HIDE DEF S
  <2>3. s \in Seq(S)
    BY <2>1, <2>2, SubSeqProperties
  <2>. HIDE DEF s
  <2>4. Len(s) \in Nat /\ DOMAIN s = 1 .. Len(s) /\ \A i \in 1 .. Len(s) : s[i] \in S
    BY <2>3
  <2>. QED
    BY <2>4 DEF S
<1>4. Lower(e) = Reverse(s)
  BY DEF Lower, k
<1>. HIDE DEF s
<1>5. ASSUME NEW i \in 1 .. Len(s) PROVE (Len(s) - i) + 1 \in 1 .. Len(s)
  BY <1>3
<1>6. Lower(e) = [i \in 1 .. Len(s) |-> s[(Len(s) - i) + 1]]
  BY <1>4 DEF Reverse
<1>7. /\ DOMAIN Lower(e) = 1 .. Len(s)
      /\ \A i \in 1 .. Len(s) : Lower(e)[i] \in Eps /\ Lower(e)[i] # e
  BY <1>3, <1>5, <1>6
<1>8. Lower(e) \in Seq(Eps)
  BY <1>3, <1>6, <1>7
<1>. QED
  BY <1>7, <1>8 DEF Elems

\* Seeking credits: what is found is enough, or the free pool is empty afterwards.
LEMMA SeekBalances ==
  ASSUME NEW c, NEW r, Balanced(c, r), NEW e \in Eps, NEW seek \in Nat \ {0}
  PROVE  LET d == SeekCredits(c, e, seek) IN
         /\ Balanced(d, r)
         /\ \A f \in Eps : f # e => d.tx[f] <= c.tx[f]
         /\ e # Control => d.tx[e] >= c.tx[e] + seek \/ d.free = 0
         /\ c.free = 0 => d.free = 0
<1>. DEFINE t == TakeFrom(c, Lower(e), seek)
            m == Min({t.free, seek})
            d == SeekCredits(c, e, seek)
<1>1. c \in Credits /\ 0 <= c.free
  BY DEF Balanced
<1>2. c.tx \in [Eps -> Int] /\ c.free \in Int
  BY <1>1 DEF Credits
<1>3. CASE e = Control
  <2>1. d = c
    BY <1>3 DEF SeekCredits
  <2>2. \A f \in Eps : c.tx[f] <= c.tx[f]
    BY <1>2
  <2>. QED
    BY <1>3, <2>1, <2>2
<1>4. ASSUME NEW b, NEW n \in Nat, Balanced(b, r), NotMore(b, c), b.tx[e] = c.tx[e], n <= b.free,
             d = GiveCredits(b, e, n)
      PROVE  /\ Balanced(d, r) /\ d.tx[e] = c.tx[e] + n /\ d.free = b.free - n
             /\ \A f \in Eps : f # e => d.tx[f] <= c.tx[f]
  <2>1. b \in Credits
    BY <1>4 DEF Balanced
  <2>2. b.tx \in [Eps -> Int]
    BY <2>1 DEF Credits
  <2>. HIDE DEF d
  <2>3. d.tx = Changed(b.tx, e, b.tx[e] + n) /\ d.free = b.free - n
    BY <1>4, <2>1, GiveIs
  <2>4. Balanced(d, r)
    BY <1>4, GiveBalances
  <2>5. \A f \in Eps : b.tx[f] <= c.tx[f]
    BY <1>4 DEF NotMore
  <2>. QED
    BY <1>4, <2>2, <2>3, <2>4, <2>5 DEF Changed
<1>5. CASE e # Control /\ c.free >= 2 * seek
  <2>1. d = GiveCredits(c, e, 2 * seek)
    BY <1>5 DEF SeekCredits
  <2>2. NotMore(c, c) /\ c.tx[e] = c.tx[e] /\ 2 * seek \in Nat /\ 2 * seek <= c.free
    BY <1>2, <1>5 DEF NotMore
  <2>. HIDE DEF d
  <2>3. /\ Balanced(d, r) /\ d.tx[e] = c.tx[e] + 2 * seek
        /\ \A f \in Eps : f # e => d.tx[f] <= c.tx[f]
    BY <1>4, <2>1, <2>2
  <2>4. d.tx[e] >= c.tx[e] + seek
    BY <1>2, <2>3
  <2>5. c.free # 0
    BY <1>2, <1>5
  <2>. QED
    BY <2>3, <2>4, <2>5 DEF d
<1>6. CASE e # Control /\ ~(c.free >= 2 * seek)
  <2>1. d = GiveCredits(t, e, m)
    BY <1>6 DEF SeekCredits
  <2>2. Lower(e) \in Seq(Eps) /\ e \notin Elems(Lower(e)) /\ seek \in Nat
    BY LowerIs
  <2>3. /\ Balanced(t, r) /\ NotMore(t, c) /\ t.tx[e] = c.tx[e]
        /\ t.free <= c.free \/ t.free <= seek
    BY <2>2, TakeFromBalances
  <2>. HIDE DEF t
  <2>4. t.free \in Int /\ 0 <= t.free
    BY <2>3 DEF Balanced, Credits
  <2>5. m = IF t.free <= seek THEN t.free ELSE seek
    BY <2>4, MinTwo
  <2>. HIDE DEF m, d
  <2>6. m \in Nat /\ m <= t.free
    BY <2>4, <2>5
  <2>7. /\ Balanced(d, r) /\ d.tx[e] = c.tx[e] + m /\ d.free = t.free - m
        /\ \A f \in Eps : f # e => d.tx[f] <= c.tx[f]
    BY <1>4, <2>1, <2>3, <2>6
  <2>8. d.tx[e] >= c.tx[e] + seek \/ d.free = 0
    <3>1. CASE t.free <= seek
      BY <2>4, <2>5, <2>7, <3>1
    <3>2. CASE ~(t.free <= seek)
      BY <1>2, <2>5, <2>7, <3>2
    <3>. QED
      BY <3>1, <3>2
  <2>9. ASSUME c.free = 0 PROVE d.free = 0
    <3>1. t.free <= seek
      BY <2>3, <2>4, <2>9
    <3>. QED
      BY <2>4, <2>5, <2>7, <3>1
  <2>. QED
    BY <2>7, <2>8, <2>9 DEF d
<1>. QED
  BY <1>3, <1>5, <1>6

----------------------------------------------------------------------------
\* Packets on their way: those paid for that have not reached the target.
InAir(x) == pkt[x] = "hif" \/ \E t \in Threads : th[t].at = "issue" /\ th[t].pkt = x
Air == {x \in Packets : InAir(x)}
Flying(S, e) == SumFunctionOnSet(Cost, {x \in S : EpOf[x] = e})

\* UnderWay, as a sum over the packets in the air.
LEMMA UnderWayIs ==
  /\ \A e \in Eps : UnderWay(e) = Flying(Air, e)
  /\ \A e \in Eps : UnderWay(e)' = Flying(Air', e)
<1>1. ASSUME NEW e \in Eps PROVE UnderWay(e) = Flying(Air, e)
  <2>1. {x \in Packets : EpOf[x] = e /\ (pkt[x] = "hif" \/
                       \E t \in Threads : th[t].at = "issue" /\ th[t].pkt = x)}
          = {x \in Air : EpOf[x] = e}
    BY DEF Air, InAir
  <2>. QED
    BY <2>1 DEF UnderWay, Flying
<1>2. ASSUME NEW e \in Eps PROVE UnderWay(e)' = Flying(Air', e)
  <2>1. {x \in Packets : EpOf[x] = e /\ (pkt'[x] = "hif" \/
                       \E t \in Threads : th'[t].at = "issue" /\ th'[t].pkt = x)}
          = {x \in Air' : EpOf[x] = e}
    BY DEF Air, InAir
  <2>. QED
    BY <2>1 DEF UnderWay, Flying
<1>. QED
  BY <1>1, <1>2

\* The credits of some packets are a natural number.
LEMMA FlyingType ==
  ASSUME NEW S \in SUBSET Packets, NEW e \in Eps
  PROVE  Flying(S, e) \in Nat
<1>. DEFINE A == {x \in S : EpOf[x] = e}
<1>1. IsFiniteSet(A)
  BY ConstantFacts, FS_Subset
<1>2. NatOn(Cost, A)
  BY ConstantFacts DEF NatOn
<1>. HIDE DEF A
<1>3. SumFunctionOnSet(Cost, A) \in Nat
  BY <1>1, <1>2, SumNat
<1>. QED
  BY <1>3 DEF Flying, A

\* One more packet in the air.
LEMMA FlyingAdd ==
  ASSUME NEW S \in SUBSET Packets, NEW x \in Packets, x \notin S, NEW e \in Eps
  PROVE  Flying(S \cup {x}, e) = Flying(S, e) + (IF EpOf[x] = e THEN Cost[x] ELSE 0)
<1>. DEFINE A == {y \in S : EpOf[y] = e}
            B == {y \in S \cup {x} : EpOf[y] = e}
<1>1. IsFiniteSet(A)
  BY ConstantFacts, FS_Subset
<1>2. Flying(S, e) \in Nat
  BY FlyingType
<1>3. CASE EpOf[x] = e
  <2>1. x \notin A /\ B = A \cup {x}
    BY <1>3
  <2>2. IntOn(Cost, A \cup {x})
    BY ConstantFacts DEF IntOn
  <2>3. Flying(S \cup {x}, e) = SumFunctionOnSet(Cost, A \cup {x})
    BY <2>1 DEF Flying
  <2>4. Flying(S, e) = SumFunctionOnSet(Cost, A)
    BY DEF Flying
  <2>. HIDE DEF A, B
  <2>5. SumFunctionOnSet(Cost, A \cup {x}) = SumFunctionOnSet(Cost, A) + Cost[x]
    BY <1>1, <2>1, <2>2, SumInsert
  <2>. QED
    BY <1>3, <2>3, <2>4, <2>5
<1>4. CASE EpOf[x] # e
  <2>1. B = A
    BY <1>4
  <2>. QED
    BY <1>2, <1>4, <2>1 DEF Flying
<1>. QED
  BY <1>3, <1>4


\* The credits outside of the distribution, term by term.
LEMMA RestType ==
  ASSUME ThreadsOK, QueuesOK, CreditsOK
  PROVE  /\ Air \in SUBSET Packets
         /\ Rest \in [Eps -> Nat]
         /\ \A e \in Eps : Rest[e] = owed[e] + Flying(Air, e) + lost[e]
         /\ \A e \in Eps : Flying(Air, e) \in Nat /\ owed[e] \in Nat /\ lost[e] \in Nat
<1>1. Air \in SUBSET Packets
  BY DEF Air
<1>2. \A e \in Eps : UnderWay(e) = Flying(Air, e)
  BY UnderWayIs
<1>3. \A e \in Eps : Flying(Air, e) \in Nat
  BY <1>1, FlyingType
<1>4. \A e \in Eps : owed[e] \in Nat /\ lost[e] \in Nat
  BY DEF CreditsOK
<1>. QED
  BY <1>1, <1>2, <1>3, <1>4 DEF Rest

\* They stay when the packets in the air, the target and the losses do.
LEMMA RestSame ==
  ASSUME Air' = Air, owed' = owed, lost' = lost
  PROVE  Rest' = Rest
<1>1. \A e \in Eps : UnderWay(e)' = UnderWay(e)
  BY UnderWayIs
<1>. QED
  BY <1>1 DEF Rest

\* A packet that has been paid for adds its credits.
LEMMA RestPaid ==
  ASSUME ThreadsOK, QueuesOK, CreditsOK, NEW x \in Packets, x \notin Air, Air' = Air \cup {x},
         owed' = owed, lost' = lost
  PROVE  Rest' = Changed(Rest, EpOf[x], Rest[EpOf[x]] + Cost[x])
<1>1. /\ Air \in SUBSET Packets /\ Rest \in [Eps -> Nat]
      /\ \A e \in Eps : Rest[e] = owed[e] + Flying(Air, e) + lost[e]
      /\ \A e \in Eps : Flying(Air, e) \in Nat /\ owed[e] \in Nat /\ lost[e] \in Nat
  BY RestType
<1>2. EpOf[x] \in Eps /\ Cost[x] \in Nat
  BY ConstantFacts
<1>3. \A e \in Eps : UnderWay(e)' = Flying(Air', e)
  BY UnderWayIs
<1>4. ASSUME NEW e \in Eps
      PROVE  Flying(Air', e) = Flying(Air, e) + (IF EpOf[x] = e THEN Cost[x] ELSE 0)
  BY <1>1, FlyingAdd
<1>5. ASSUME NEW e \in Eps
      PROVE  Rest'[e] = Rest[e] + (IF EpOf[x] = e THEN Cost[x] ELSE 0)
  <2>1. Rest'[e] = owed[e] + Flying(Air', e) + lost[e]
    BY <1>3 DEF Rest
  <2>2. Flying(Air', e) = Flying(Air, e) + (IF EpOf[x] = e THEN Cost[x] ELSE 0)
    BY <1>4
  <2>3. /\ Rest[e] = owed[e] + Flying(Air, e) + lost[e]
        /\ Flying(Air, e) \in Nat /\ owed[e] \in Nat /\ lost[e] \in Nat
    BY <1>1
  <2>. QED
    BY <1>2, <2>1, <2>2, <2>3
<1>6. DOMAIN Rest' = Eps /\ Rest' = [e \in Eps |-> Rest'[e]]
  BY DEF Rest
<1>7. ASSUME NEW e \in Eps
      PROVE  Rest'[e] = Changed(Rest, EpOf[x], Rest[EpOf[x]] + Cost[x])[e]
  BY <1>1, <1>2, <1>5 DEF Changed
<1>. QED
  BY <1>1, <1>6, <1>7 DEF Changed

\* A packet that has arrived or failed takes its credits along: the rest is the same.
LEMMA RestArrived ==
  ASSUME ThreadsOK, QueuesOK, CreditsOK, NEW x \in Packets, x \in Air, Air' = Air \ {x},
         \/ owed' = Changed(owed, EpOf[x], owed[EpOf[x]] + Cost[x]) /\ lost' = lost
         \/ lost' = Changed(lost, EpOf[x], lost[EpOf[x]] + Cost[x]) /\ owed' = owed
  PROVE  /\ Rest' = Rest
         /\ owed' \in [Eps -> Nat] /\ lost' \in [Eps -> Nat]
<1>1. /\ Air \in SUBSET Packets /\ Rest \in [Eps -> Nat]
      /\ \A e \in Eps : Rest[e] = owed[e] + Flying(Air, e) + lost[e]
      /\ \A e \in Eps : Flying(Air, e) \in Nat /\ owed[e] \in Nat /\ lost[e] \in Nat
  BY RestType
<1>2. EpOf[x] \in Eps /\ Cost[x] \in Nat
  BY ConstantFacts
<1>3. \A e \in Eps : UnderWay(e)' = Flying(Air', e)
  BY UnderWayIs
<1>4. Air' \in SUBSET Packets /\ x \notin Air' /\ Air = Air' \cup {x}
  BY <1>1
<1>5. ASSUME NEW e \in Eps
      PROVE  /\ Flying(Air, e) = Flying(Air', e) + (IF EpOf[x] = e THEN Cost[x] ELSE 0)
             /\ Flying(Air', e) \in Nat
  <2>. DEFINE S == Air'
  <2>1. S \in SUBSET Packets /\ x \notin S /\ Air = S \cup {x}
    BY <1>4
  <2>. HIDE DEF S
  <2>2. /\ Flying(S \cup {x}, e) = Flying(S, e) + (IF EpOf[x] = e THEN Cost[x] ELSE 0)
        /\ Flying(S, e) \in Nat
    BY <2>1, FlyingAdd, FlyingType
  <2>. QED
    BY <2>1, <2>2 DEF S
<1>6. owed \in [Eps -> Nat] /\ lost \in [Eps -> Nat]
  BY DEF CreditsOK
<1>7. ASSUME NEW e \in Eps
      PROVE  owed'[e] + lost'[e] = owed[e] + lost[e] + (IF EpOf[x] = e THEN Cost[x] ELSE 0)
  BY <1>1, <1>2, <1>6 DEF Changed
<1>8. owed' \in [Eps -> Nat] /\ lost' \in [Eps -> Nat]
  BY <1>2, <1>6 DEF Changed
<1>9. ASSUME NEW e \in Eps PROVE Rest'[e] = Rest[e]
  <2>1. Rest'[e] = owed'[e] + Flying(Air', e) + lost'[e]
    BY <1>3 DEF Rest
  <2>2. owed'[e] \in Nat /\ lost'[e] \in Nat
    BY <1>8
  <2>3. /\ Flying(Air, e) = Flying(Air', e) + (IF EpOf[x] = e THEN Cost[x] ELSE 0)
        /\ Flying(Air', e) \in Nat
    BY <1>5
  <2>4. Rest[e] = owed[e] + Flying(Air, e) + lost[e] /\ owed[e] \in Nat /\ lost[e] \in Nat
    BY <1>1
  <2>5. owed'[e] + lost'[e] = owed[e] + lost[e] + (IF EpOf[x] = e THEN Cost[x] ELSE 0)
    BY <1>7
  <2>. QED
    BY <1>2, <2>1, <2>2, <2>3, <2>4, <2>5
<1>10. Rest' = [e \in Eps |-> Rest'[e]]
  BY DEF Rest
<1>. QED
  BY <1>1, <1>8, <1>9, <1>10

\* Paying moves credits out of the distribution.
LEMMA PaidBalances ==
  ASSUME NEW c, NEW r, NEW e \in Eps, Balanced(c, r), NEW n \in Nat, n <= c.tx[e]
  PROVE  Balanced([c EXCEPT !.tx[e] = @ - n], Changed(r, e, r[e] + n))
<1>. DEFINE d == [c EXCEPT !.tx[e] = @ - n]
            s == Changed(r, e, r[e] + n)
            v == c.tx[e] - n
<1>1. /\ c \in Credits /\ r \in [Eps -> Int] /\ 0 <= c.free /\ Worth(c, r) = Total
      /\ \A f \in Eps : Fair(c, r, f)
  BY DEF Balanced
<1>2. c.tx \in [Eps -> Int] /\ c.asg \in [Eps -> Int] /\ c.free \in Int
  BY <1>1 DEF Credits
<1>3. c.tx[e] \in Int /\ c.asg[e] \in Int /\ r[e] \in Int /\ v \in Int /\ r[e] + n \in Int
  BY <1>1, <1>2
<1>4. d.tx = Changed(c.tx, e, v) /\ d.asg = c.asg /\ d.free = c.free /\ d \in Credits
  <2>1. c = [tx |-> c.tx, asg |-> c.asg, free |-> c.free]
    BY <1>1 DEF Credits
  <2>2. d = [tx |-> Changed(c.tx, e, c.tx[e] - n), asg |-> c.asg, free |-> c.free]
    BY <1>1, <2>1 DEF Credits, Changed
  <2>3. Changed(c.tx, e, c.tx[e] - n) \in [Eps -> Int]
    BY <1>2, <1>3 DEF Changed
  <2>. HIDE DEF d
  <2>. QED
    BY <1>2, <2>2, <2>3, CreditsAre
<1>. HIDE DEF d
<1>5. d.tx[e] = v /\ \A f \in Eps : f # e => d.tx[f] = c.tx[f]
  BY <1>2, <1>3, <1>4 DEF Changed
<1>6. s \in [Eps -> Int] /\ s[e] = r[e] + n /\ \A f \in Eps : f # e => s[f] = r[f]
  BY <1>1, <1>3 DEF Changed
<1>7. Worth(d, s) = Worth(c, r) + (v - c.tx[e]) + ((r[e] + n) - r[e]) + (c.free - c.free)
  <2>. HIDE DEF v
  <2>. QED
    BY <1>1, <1>2, <1>3, <1>4, WorthMove, SMTT(30)
<1>. HIDE DEF s
<1>8. Worth(d, s) = Total
  <2>1. Total \in Int
    BY ConstantFacts
  <2>. QED
    BY <1>1, <1>2, <1>3, <1>7, <2>1
<1>9. ASSUME NEW f \in Eps PROVE Fair(d, s, f)
  <2>1. CASE f = e
    BY <1>1, <1>3, <1>4, <1>5, <1>6, <2>1 DEF Fair
  <2>2. CASE f # e
    BY <1>1, <1>4, <1>5, <1>6, <2>2 DEF Fair
  <2>. QED
    BY <2>1, <2>2
<1>10. Balanced(d, s)
  BY <1>1, <1>4, <1>6, <1>8, <1>9 DEF Balanced
<1>. QED
  BY <1>10 DEF d, s

----------------------------------------------------------------------------
\* One thread t goes on as r.
GoesOn(t, r) == th' = [th EXCEPT ![t] = r]

\* A step of one thread keeps the shape of all.
LEMMA ThreadStep ==
  ASSUME ThreadsOK, NEW t \in Threads, NEW r \in Frames, Shape(t, r), GoesOn(t, r)
  PROVE  /\ ThreadsOK' /\ th'[t] = r
         /\ \A u \in Threads : u # t => th'[u] = th[u]
<1>1. th' \in [Threads -> Frames] /\ th'[t] = r /\ \A u \in Threads : u # t => th'[u] = th[u]
  BY DEF ThreadsOK, GoesOn
<1>2. ASSUME NEW u \in Threads PROVE Shape(u, th'[u])
  <2>1. CASE u = t
    BY <1>1, <2>1
  <2>2. CASE u # t
    BY <1>1, <2>2 DEF ThreadsOK
  <2>. QED
    BY <2>1, <2>2
<1>3. ThreadsOK'
  <2>1. \A u \in Threads : Shape(u, th[u])'
    BY <1>2 DEF Shape
  <2>. QED
    BY <1>1, <2>1 DEF ThreadsOK
<1>. QED
  BY <1>1, <1>3

\* What thread t had in hand, y, is put down for x.
Handed(y, x) ==
  /\ \A z \in Packets : z # x /\ z # y => (pkt'[z] = "taken" <=> pkt[z] = "taken")
  /\ x \in Packets => pkt'[x] = "taken" /\ (x = y \/ pkt[x] # "taken")
  /\ y \in Packets /\ y # x => pkt'[y] # "taken"

\* Handing packets over keeps one owner for each.
LEMMA OwnersStep ==
  ASSUME ThreadsOK, OwnersOK, NEW t \in Threads, NEW r \in Frames, GoesOn(t, r),
         Handed(th[t].pkt, r.pkt)
  PROVE  OwnersOK'
<1>. DEFINE y == th[t].pkt
            x == r.pkt
<1>1. th'[t] = r /\ \A u \in Threads : u # t => th'[u] = th[u]
  BY DEF ThreadsOK, GoesOn
<1>2. /\ \A z \in Packets : z # x /\ z # y => (pkt'[z] = "taken" <=> pkt[z] = "taken")
      /\ x \in Packets => pkt'[x] = "taken" /\ (x = y \/ pkt[x] # "taken")
      /\ y \in Packets /\ y # x => pkt'[y] # "taken"
  BY DEF Handed
<1>3. /\ \A z \in Packets : pkt[z] = "taken" => \E u \in Threads : th[u].pkt = z
      /\ \A u \in Threads : th[u].pkt \in Packets => pkt[th[u].pkt] = "taken"
      /\ \A u, w \in Threads : th[u].pkt \in Packets /\ th[u].pkt = th[w].pkt => u = w
  BY DEF OwnersOK
<1>4. ASSUME NEW z \in Packets, pkt'[z] = "taken" PROVE \E u \in Threads : th'[u].pkt = z
  <2>1. CASE z = x
    BY <1>1, <2>1
  <2>2. CASE z # x
    <3>1. z # y /\ pkt[z] = "taken"
      BY <1>2, <1>4, <2>2
    <3>2. PICK u \in Threads : th[u].pkt = z
      BY <1>3, <3>1
    <3>. QED
      BY <1>1, <3>1, <3>2
  <2>. QED
    BY <2>1, <2>2
<1>5. ASSUME NEW u \in Threads, u # t, th[u].pkt \in Packets
      PROVE  th[u].pkt # x /\ th[u].pkt # y /\ pkt'[th[u].pkt] = "taken"
  <2>1. pkt[th[u].pkt] = "taken" /\ th[u].pkt # y
    BY <1>3, <1>5
  <2>2. th[u].pkt # x
    BY <1>2, <1>5, <2>1
  <2>. QED
    BY <1>2, <1>5, <2>1, <2>2
<1>6. ASSUME NEW u \in Threads, th'[u].pkt \in Packets PROVE pkt'[th'[u].pkt] = "taken"
  <2>1. CASE u = t
    BY <1>1, <1>2, <1>6, <2>1
  <2>2. CASE u # t
    BY <1>1, <1>5, <1>6, <2>2
  <2>. QED
    BY <2>1, <2>2
<1>7. ASSUME NEW u \in Threads, NEW w \in Threads, th'[u].pkt \in Packets,
             th'[u].pkt = th'[w].pkt
      PROVE  u = w
  <2>1. CASE u = t /\ w # t
    BY <1>1, <1>5, <1>7, <2>1
  <2>2. CASE u # t /\ w = t
    BY <1>1, <1>5, <1>7, <2>2
  <2>3. CASE u # t /\ w # t
    BY <1>1, <1>3, <1>7, <2>3
  <2>. QED
    BY <2>1, <2>2, <2>3
<1>. QED
  BY <1>4, <1>6, <1>7 DEF OwnersOK

\* Owners are as before when the threads and the taken packets are.
LEMMA OwnersSame ==
  ASSUME OwnersOK, th' = th, \A z \in Packets : pkt'[z] = "taken" <=> pkt[z] = "taken"
  PROVE  OwnersOK'
  BY DEF OwnersOK

\* Threads that do not issue leave the packets in the air.
LEMMA AirSame ==
  ASSUME ThreadsOK, NEW t \in Threads, NEW r \in Frames, GoesOn(t, r),
         th[t].at # "issue", r.at # "issue",
         \A z \in Packets : pkt'[z] = "hif" <=> pkt[z] = "hif"
  PROVE  Air' = Air
<1>1. th'[t] = r /\ \A u \in Threads : u # t => th'[u] = th[u]
  BY DEF ThreadsOK, GoesOn
<1>2. ASSUME NEW z \in Packets PROVE InAir(z)' <=> InAir(z)
  BY <1>1 DEF InAir
<1>. QED
  BY <1>2 DEF Air

\* What was covered is covered, as long as the thread that steps still covers it.
LEMMA CoverStep ==
  ASSUME ThreadsOK, NEW t \in Threads, NEW r, GoesOn(t, r), NEW e \in Eps,
         Covered(e), Covers(th[t], e) => Covers(r, e)
  PROVE  Covered(e)'
<1>1. th'[t] = r /\ \A u \in Threads : u # t => th'[u] = th[u]
  BY DEF ThreadsOK, GoesOn
<1>2. PICK u \in Threads : Covers(th[u], e)
  BY DEF Covered
<1>3. Covers(th'[u], e)
  BY <1>1, <1>2
<1>4. Covers(th[u], e)'
  BY <1>3 DEF Covers
<1>. QED
  BY <1>4 DEF Covered

\* An endpoint that waited still waits when it finds no more than before.
Tighter(e) == /\ q'[e] = q[e] /\ cr'.tx[e] <= cr.tx[e]
              /\ acts' = 0 => acts = 0
              /\ acts' = 0 /\ cr.free = 0 => cr'.free = 0

\* A queue that waits for a reason goes on waiting for one, unless a thread will look.
LEMMA WaitsStep ==
  ASSUME WaitsOK, CreditsOK, CreditsOK', stop' = "no" => stop = "no",
         \A e \in Eps : Covered(e)' \/ q'[e] = << >> \/ Waits(e)' \/ (~Covered(e) /\ Tighter(e)),
         QueuesOK
  PROVE  WaitsOK'
<1>. SUFFICES ASSUME stop' = "no", NEW e \in Eps, q'[e] # << >>, ~Covered(e)' PROVE Waits(e)'
  BY DEF WaitsOK
<1>1. CASE ~Covered(e) /\ Tighter(e)
  <2>1. q[e] # << >> /\ stop = "no"
    BY <1>1 DEF Tighter
  <2>2. Waits(e)
    BY <1>1, <2>1 DEF WaitsOK
  <2>3. q[e] \in Seq(Packets) /\ Head(q[e]) \in Packets
    BY <2>1 DEF QueuesOK
  <2>4. Cost[Head(q[e])] \in Int
    BY <2>3, ConstantFacts
  <2>5. cr.tx[e] \in Int
    BY DEF CreditsOK, Balanced, Credits
  <2>6. cr'.tx[e] \in Int
    BY DEF CreditsOK, Balanced, Credits
  <2>7. cr'.tx[e] < Cost[Head(q'[e])]
    BY <1>1, <2>2, <2>4, <2>5, <2>6 DEF Tighter, Waits
  <2>8. e # Control /\ acts' = 0 => cr'.free = 0
    BY <1>1, <2>2 DEF Tighter, Waits
  <2>. QED
    BY <2>7, <2>8 DEF Waits
<1>. QED
  BY <1>1

----------------------------------------------------------------------------

\* The credits after seeking what the head packet lacks.
LEMMA SoughtIs ==
  ASSUME CreditsOK, NEW e \in Eps, NEW x \in Packets
  PROVE  LET d == Sought(e, x) IN
         /\ Balanced(d, Rest)
         /\ \A f \in Eps : f # e => d.tx[f] <= cr.tx[f]
         /\ e # Control => d.tx[e] >= Cost[x] \/ d.free = 0
         /\ cr.free = 0 => d.free = 0
<1>. DEFINE d == Sought(e, x)
            seek == Cost[x] - cr.tx[e]
<1>1. Balanced(cr, Rest) /\ cr \in Credits
  BY DEF CreditsOK, Balanced
<1>2. cr.tx \in [Eps -> Int] /\ Cost[x] \in Nat
  BY <1>1, ConstantFacts DEF Credits
<1>3. CASE cr.tx[e] < Cost[x]
  <2>1. d = SeekCredits(cr, e, seek)
    BY <1>3 DEF Sought
  <2>2. seek \in Nat \ {0} /\ cr.tx[e] + seek = Cost[x]
    BY <1>2, <1>3
  <2>. HIDE DEF d, seek
  <2>3. /\ Balanced(d, Rest)
        /\ \A f \in Eps : f # e => d.tx[f] <= cr.tx[f]
        /\ e # Control => d.tx[e] >= cr.tx[e] + seek \/ d.free = 0
        /\ cr.free = 0 => d.free = 0
    BY <1>1, <2>1, <2>2, SeekBalances
  <2>. QED
    BY <2>2, <2>3 DEF d
<1>4. CASE ~(cr.tx[e] < Cost[x])
  <2>1. d = cr
    BY <1>4 DEF Sought
  <2>2. cr.tx[e] >= Cost[x] /\ \A f \in Eps : cr.tx[f] <= cr.tx[f]
    BY <1>2, <1>4
  <2>. QED
    BY <1>1, <2>1, <2>2
<1>. QED
  BY <1>3, <1>4

\* The caller's packet y, if any, at the end of the queue of e.
Mine(e, y) == IF y = None THEN q[e] ELSE Append(q[e], y)
Joined(y) == IF y = None THEN pkt ELSE [pkt EXCEPT ![y] = "queued"]
InHand(y) == IF y = None THEN {} ELSE {y}

\* The queue once the caller's packet has joined it.
LEMMA MineIs ==
  ASSUME QueuesOK, NEW e \in Eps, NEW y \in Packets \cup {None},
         y \in Packets => EpOf[y] = e /\ pkt[y] = "taken"
  PROVE  /\ Mine(e, y) \in Seq(Packets) /\ NoRepeats(Mine(e, y))
         /\ Elems(Mine(e, y)) = Elems(q[e]) \cup InHand(y)
         /\ Mine(e, y) = << >> => y = None /\ q[e] = << >>
         /\ Joined(y) \in [Packets -> Places]
         /\ \A z \in Packets : Joined(y)[z] = IF z = y THEN "queued" ELSE pkt[z]
<1>1. /\ pkt \in [Packets -> Places] /\ q[e] \in Seq(Packets) /\ NoRepeats(q[e])
      /\ None \notin Packets
  BY ConstantFacts DEF QueuesOK
<1>2. CASE y = None
  <2>1. Mine(e, y) = q[e] /\ Joined(y) = pkt /\ InHand(y) = {}
    BY <1>2 DEF Mine, Joined, InHand
  <2>. QED
    BY <1>1, <1>2, <2>1
<1>3. CASE y # None
  <2>1. y \in Packets /\ EpOf[y] = e /\ pkt[y] = "taken"
    BY <1>3
  <2>2. y \notin Elems(q[e])
    BY <2>1 DEF QueuesOK
  <2>3. Mine(e, y) = Append(q[e], y) /\ InHand(y) = {y}
    BY <1>3 DEF Mine, InHand
  <2>4. /\ Append(q[e], y) \in Seq(Packets) /\ NoRepeats(Append(q[e], y))
        /\ Elems(Append(q[e], y)) = Elems(q[e]) \cup {y}
    BY <1>1, <2>1, <2>2, AppendElems
  <2>5. Mine(e, y) # << >>
    BY <1>1, <2>1, <2>3
  <2>6. /\ Joined(y) \in [Packets -> Places]
        /\ \A z \in Packets : Joined(y)[z] = IF z = y THEN "queued" ELSE pkt[z]
    BY <1>1, <1>3, <2>1 DEF Joined, Places
  <2>. QED
    BY <2>3, <2>4, <2>5, <2>6
<1>. QED
  BY <1>2, <1>3

\* The queue of e becomes s and the marks follow it; nothing is handed to the I/O thread or
\* taken from it.
LEMMA QueueStep ==
  ASSUME QueuesOK, NEW e \in Eps, NEW s \in Seq(Packets), NoRepeats(s),
         \A x \in Elems(s) : EpOf[x] = e,
         q' = [q EXCEPT ![e] = s], hif' = hif, pkt' \in [Packets -> Places],
         \A z \in Packets : EpOf[z] = e => (pkt'[z] = "queued" <=> z \in Elems(s)),
         \A z \in Packets : EpOf[z] # e => (pkt'[z] = "queued" <=> pkt[z] = "queued"),
         \A z \in Packets : pkt'[z] = "hif" <=> pkt[z] = "hif"
  PROVE  QueuesOK'
<1>1. q \in [Eps -> Seq(Packets)]
  BY DEF QueuesOK
<1>2. /\ q' \in [Eps -> Seq(Packets)] /\ q'[e] = s
      /\ \A f \in Eps : f # e => q'[f] = q[f]
  BY <1>1
<1>3. \A f \in Eps : NoRepeats(q'[f])
  BY <1>2 DEF QueuesOK
<1>4. \A f \in Eps : \A x \in Elems(q'[f]) : EpOf[x] = f
  BY <1>2 DEF QueuesOK
<1>5. ASSUME NEW x \in Packets PROVE pkt'[x] = "queued" <=> x \in Elems(q'[EpOf[x]])
  <2>1. EpOf[x] \in Eps
    BY ConstantFacts
  <2>2. CASE EpOf[x] = e
    BY <1>2, <2>2
  <2>3. CASE EpOf[x] # e
    BY <1>2, <2>1, <2>3 DEF QueuesOK
  <2>. QED
    BY <2>2, <2>3
<1>6. /\ hif' \in Seq(Packets) /\ NoRepeats(hif')
      /\ \A x \in Packets : pkt'[x] = "hif" <=> x \in Elems(hif')
  BY DEF QueuesOK
<1>. QED
  BY <1>2, <1>3, <1>4, <1>5, <1>6 DEF QueuesOK

----------------------------------------------------------------------------

\* HTCTrySend keeps the invariant.
LEMMA TryStep ==
  ASSUME HtcInv, NEW t \in Threads, Try(t)
  PROVE  HtcInv'
<1>. DEFINE e == th[t].ep
            y == th[t].pkt
            mine == Mine(e, y)
            x == Head(mine)
            done == [th[t] EXCEPT !.pkt = None,
                                  !.at = IF Len(mine) >= MaxDepth THEN "full" ELSE "avail"]
            sent == [th[t] EXCEPT !.at = "issue", !.pkt = x]
<1>1. ThreadsOK /\ OwnersOK /\ QueuesOK /\ CreditsOK /\ WaitsOK /\ FlagsOK
  BY DEF HtcInv
<1>2. /\ hif' = hif /\ owed' = owed /\ lost' = lost /\ active' = active /\ stop' = stop
      /\ ctlFull' = ctlFull /\ netStopped' = netStopped /\ connected' = connected
      /\ fails' = fails /\ acts' = acts /\ events' = events
  BY Zenon DEF Try, flow, bounds
<1>3. /\ th[t] \in Frames /\ Shape(t, th[t]) /\ th[t].at = "try"
  BY <1>1, Zenon DEF ThreadsOK, Try
<1>4. /\ e \in Eps /\ y \in Packets \cup {None}
      /\ y \in Packets => EpOf[y] = e /\ pkt[y] = "taken"
  BY <1>1, <1>3 DEF Frames, Shape, OwnersOK
<1>5. \/ /\ mine = << >> /\ GoesOn(t, done) /\ pkt' = pkt /\ q' = q /\ cr' = cr
      \/ /\ mine # << >> /\ q' = [q EXCEPT ![e] = mine] /\ pkt' = Joined(y)
         /\ cr' = Sought(e, x) /\ cr'.tx[e] < Cost[x] /\ GoesOn(t, done)
      \/ /\ mine # << >> /\ Sought(e, x).tx[e] >= Cost[x]
         /\ cr' = [Sought(e, x) EXCEPT !.tx[e] = @ - Cost[x]]
         /\ q' = [q EXCEPT ![e] = Tail(mine)]
         /\ pkt' = [Joined(y) EXCEPT ![x] = "taken"]
         /\ GoesOn(t, sent)
  BY <1>1, Zenon DEF Try, Mine, Joined, GoesOn, ThreadsOK
<1>6. FlagsOK'
  BY <1>1, <1>2 DEF FlagsOK
<1>. HIDE DEF mine
<1>7. /\ done \in Frames /\ done.at \in {"full", "avail"} /\ done.ep = e /\ done.pkt = None
      /\ done.walk = th[t].walk
  BY <1>3 DEF Frames, Ats
<1>8. /\ mine \in Seq(Packets) /\ NoRepeats(mine)
      /\ Elems(mine) = Elems(q[e]) \cup InHand(y)
      /\ mine = << >> => y = None /\ q[e] = << >>
      /\ Joined(y) \in [Packets -> Places]
      /\ \A z \in Packets : Joined(y)[z] = IF z = y THEN "queued" ELSE pkt[z]
  <2>. HIDE DEF e, y
  <2>. QED
    BY <1>1, <1>4, MineIs DEF mine
<1>. HIDE DEF done, e, y
<1>9. Shape(t, done)
  BY <1>3, <1>4, <1>7 DEF Shape
<1>10. ASSUME GoesOn(t, done) PROVE ThreadsOK'
  BY <1>1, <1>7, <1>9, <1>10, ThreadStep
<1>11. ASSUME mine # << >>
       PROVE  /\ x \in Packets /\ x \in Elems(mine) /\ EpOf[x] = e
              /\ x = y \/ pkt[x] = "queued"
  <2>1. x \in Packets /\ x \in Elems(mine)
    BY <1>8, <1>11, TailElems
  <2>2. CASE x \in Elems(q[e])
    BY <1>1, <1>4, <2>1, <2>2 DEF QueuesOK
  <2>3. CASE x \notin Elems(q[e])
    BY <1>4, <1>8, <2>1, <2>3 DEF InHand
  <2>. QED
    BY <2>1, <2>2, <2>3
<1>12. \A f \in Eps : f # e /\ Covers(th[t], f) => f \in Elems(th[t].walk)
  BY DEF Covers, e
<1>13. ASSUME GoesOn(t, done), NEW f \in Eps, f # e, Covered(f) PROVE Covered(f)'
  <2>1. Covers(th[t], f) => Covers(done, f)
    BY <1>7, <1>12, <1>13 DEF Covers
  <2>. QED
    BY <1>1, <1>13, <2>1, CoverStep
<1>14. CASE mine = << >> /\ GoesOn(t, done) /\ pkt' = pkt /\ q' = q /\ cr' = cr
  <2>1. y = None /\ q[e] = << >> /\ None \notin Packets
    BY <1>8, <1>14, ConstantFacts
  <2>2. Handed(th[t].pkt, done.pkt)
    BY <1>7, <1>14, <2>1 DEF Handed, y
  <2>3. OwnersOK'
    BY <1>1, <1>7, <1>14, <2>2, OwnersStep
  <2>4. QueuesOK'
    BY <1>1, <1>2, <1>14 DEF QueuesOK
  <2>5. Air' = Air
    <3>1. /\ th[t].at # "issue" /\ done.at # "issue"
          /\ \A z \in Packets : pkt'[z] = "hif" <=> pkt[z] = "hif"
      BY <1>3, <1>7, <1>14
    <3>. QED
      BY <1>1, <1>7, <1>14, <3>1, AirSame
  <2>6. CreditsOK'
    <3>1. Rest' = Rest
      BY <1>2, <2>5, RestSame
    <3>. QED
      BY <1>1, <1>2, <1>14, <3>1 DEF CreditsOK
  <2>7. WaitsOK'
    <3>1. \A f \in Eps : cr.tx[f] <= cr.tx[f]
      BY <1>1 DEF CreditsOK, Balanced, Credits
    <3>2. ASSUME NEW f \in Eps
          PROVE  Covered(f)' \/ q'[f] = << >> \/ (~Covered(f) /\ Tighter(f))
      BY <1>2, <1>13, <1>14, <2>1, <3>1 DEF Tighter
    <3>3. stop' = "no" => stop = "no"
      BY <1>2
    <3>4. \A f \in Eps : Covered(f)' \/ q'[f] = << >> \/ Waits(f)' \/ (~Covered(f) /\ Tighter(f))
      BY <3>2
    <3>. QED
      BY <1>1, <2>6, <3>3, <3>4, WaitsStep
  <2>. QED
    BY <1>6, <1>10, <1>14, <2>3, <2>4, <2>6, <2>7 DEF HtcInv
<1>15. CASE /\ mine # << >> /\ q' = [q EXCEPT ![e] = mine] /\ pkt' = Joined(y)
            /\ cr' = Sought(e, x) /\ cr'.tx[e] < Cost[x] /\ GoesOn(t, done)
  <2>1. x \in Packets /\ EpOf[x] = e
    BY <1>11, <1>15
  <2>2. /\ Balanced(cr', Rest)
        /\ \A f \in Eps : f # e => cr'.tx[f] <= cr.tx[f]
        /\ e # Control => cr'.tx[e] >= Cost[x] \/ cr'.free = 0
        /\ cr.free = 0 => cr'.free = 0
    BY <1>1, <1>4, <1>15, <2>1, SoughtIs
  <2>3. Handed(th[t].pkt, done.pkt)
    <3>1. None \notin Packets
      BY ConstantFacts
    <3>. QED
      BY <1>7, <1>8, <1>15, <3>1 DEF Handed, y
  <2>4. OwnersOK'
    BY <1>1, <1>7, <1>15, <2>3, OwnersStep
  <2>5. \A z \in Packets : pkt'[z] = "hif" <=> pkt[z] = "hif"
    BY <1>4, <1>8, <1>15
  <2>6. QueuesOK'
    <3>1. \A z \in Elems(mine) : EpOf[z] = e
      BY <1>1, <1>4, <1>8, ConstantFacts DEF QueuesOK, InHand
    <3>2. ASSUME NEW z \in Packets, EpOf[z] = e PROVE pkt'[z] = "queued" <=> z \in Elems(mine)
      <4>1. pkt[z] = "queued" <=> z \in Elems(q[e])
        BY <1>1, <3>2 DEF QueuesOK
      <4>2. z \in InHand(y) <=> z = y
        BY <3>2, ConstantFacts DEF InHand
      <4>. QED
        BY <1>8, <1>15, <4>1, <4>2
    <3>3. ASSUME NEW z \in Packets, EpOf[z] # e PROVE pkt'[z] = "queued" <=> pkt[z] = "queued"
      BY <1>4, <1>8, <1>15, <3>3
    <3>4. pkt' \in [Packets -> Places]
      BY <1>8, <1>15
    <3>5. q' = [q EXCEPT ![e] = mine] /\ hif' = hif /\ mine \in Seq(Packets) /\ NoRepeats(mine)
      BY <1>2, <1>8, <1>15
    <3>. QED
      BY <1>1, <1>4, <2>5, <3>1, <3>2, <3>3, <3>4, <3>5, QueueStep
  <2>7. Air' = Air
    <3>1. th[t].at # "issue" /\ done.at # "issue"
      BY <1>3, <1>7
    <3>. QED
      BY <1>1, <1>7, <1>15, <2>5, <3>1, AirSame
  <2>8. CreditsOK'
    <3>1. Rest' = Rest
      BY <1>2, <2>7, RestSame
    <3>. QED
      BY <1>1, <1>2, <2>2, <3>1 DEF CreditsOK
  <2>9. WaitsOK'
    <3>1. q \in [Eps -> Seq(Packets)]
      BY <1>1 DEF QueuesOK
    <3>2. q'[e] = mine /\ \A f \in Eps : f # e => q'[f] = q[f]
      BY <1>4, <1>15, <3>1
    <3>3. ASSUME NEW f \in Eps, f = e PROVE Waits(f)'
      <4>1. cr'.tx \in [Eps -> Int] /\ Cost[x] \in Int
        <5>1. cr' \in Credits
          BY <2>2 DEF Balanced
        <5>2. cr'.tx \in [Eps -> Int]
          BY <5>1 DEF Credits
        <5>. QED
          BY <2>1, <5>2, ConstantFacts, SMTT(30)
      <4>2. e # Control => cr'.free = 0
        BY <1>4, <1>15, <2>2, <4>1
      <4>3. cr'.tx[e] < Cost[Head(q'[e])]
        BY <1>15, <3>2
      <4>. QED
        BY <3>3, <4>2, <4>3 DEF Waits
    <3>4. ASSUME NEW f \in Eps, f # e
          PROVE  Covered(f)' \/ (~Covered(f) /\ Tighter(f))
      BY <1>2, <1>13, <1>15, <2>2, <3>2, <3>4 DEF Tighter
    <3>5. stop' = "no" => stop = "no"
      BY <1>2
    <3>6. \A f \in Eps : Covered(f)' \/ q'[f] = << >> \/ Waits(f)' \/ (~Covered(f) /\ Tighter(f))
      BY <3>3, <3>4
    <3>. QED
      BY <1>1, <2>8, <3>5, <3>6, WaitsStep
  <2>. QED
    BY <1>6, <1>10, <1>15, <2>4, <2>6, <2>8, <2>9 DEF HtcInv
<1>16. CASE /\ mine # << >> /\ Sought(e, x).tx[e] >= Cost[x]
            /\ cr' = [Sought(e, x) EXCEPT !.tx[e] = @ - Cost[x]]
            /\ q' = [q EXCEPT ![e] = Tail(mine)]
            /\ pkt' = [Joined(y) EXCEPT ![x] = "taken"]
            /\ GoesOn(t, sent)
  <2>. DEFINE d == Sought(e, x)
  <2>1. /\ x \in Packets /\ x \in Elems(mine) /\ EpOf[x] = e /\ Head(mine) = x
        /\ x = y \/ pkt[x] = "queued"
    BY <1>11, <1>16
  <2>2. /\ Tail(mine) \in Seq(Packets) /\ NoRepeats(Tail(mine))
        /\ Elems(Tail(mine)) = Elems(mine) \ {x}
    BY <1>8, <1>16, TailElems
  <2>3. /\ Balanced(d, Rest)
        /\ \A f \in Eps : f # e => d.tx[f] <= cr.tx[f]
        /\ cr.free = 0 => d.free = 0
    BY <1>1, <1>4, <2>1, SoughtIs
  <2>4. Cost[x] \in Nat /\ None \notin Packets
    BY <2>1, ConstantFacts
  <2>5. d \in Credits /\ d.tx \in [Eps -> Int] /\ Cost[x] <= d.tx[e]
    BY <1>4, <1>16, <2>3, <2>4 DEF Balanced, Credits
  <2>6. /\ sent \in Frames /\ sent.at = "issue" /\ sent.pkt = x /\ sent.ep = e
        /\ sent.walk = th[t].walk
    BY <1>3, <2>1 DEF Frames, Ats, e
  <2>. HIDE DEF x, sent, d
  <2>7. Shape(t, sent)
    BY <1>3, <2>1, <2>6 DEF Shape
  <2>8. ThreadsOK' /\ th'[t] = sent /\ \A u \in Threads : u # t => th'[u] = th[u]
    BY <1>1, <1>16, <2>6, <2>7, ThreadStep
  <2>9. /\ pkt' \in [Packets -> Places] /\ pkt'[x] = "taken"
        /\ \A z \in Packets : z # x => pkt'[z] = IF z = y THEN "queued" ELSE pkt[z]
    BY <1>8, <1>16, <2>1 DEF Places
  <2>10. x = y \/ pkt[x] # "taken"
    BY <2>1
  <2>11. Handed(th[t].pkt, sent.pkt)
    BY <2>6, <2>9, <2>10 DEF Handed, y
  <2>12. OwnersOK'
    BY <1>1, <1>16, <2>6, <2>11, OwnersStep
  <2>13. \A z \in Packets : pkt'[z] = "hif" <=> pkt[z] = "hif"
    BY <1>4, <2>1, <2>9
  <2>14. QueuesOK'
    <3>. DEFINE s == Tail(mine)
    <3>1. \A z \in Elems(s) : EpOf[z] = e
      BY <1>1, <1>4, <1>8, <2>2, ConstantFacts DEF QueuesOK, InHand
    <3>2. ASSUME NEW z \in Packets, EpOf[z] = e PROVE pkt'[z] = "queued" <=> z \in Elems(s)
      <4>1. pkt[z] = "queued" <=> z \in Elems(q[e])
        BY <1>1, <3>2 DEF QueuesOK
      <4>2. z \in InHand(y) <=> z = y
        BY <3>2, <2>4 DEF InHand
      <4>. QED
        BY <1>8, <2>2, <2>9, <4>1, <4>2
    <3>3. ASSUME NEW z \in Packets, EpOf[z] # e PROVE pkt'[z] = "queued" <=> pkt[z] = "queued"
      BY <1>4, <2>1, <2>9, <3>3
    <3>4. /\ q' = [q EXCEPT ![e] = s] /\ hif' = hif /\ s \in Seq(Packets) /\ NoRepeats(s)
          /\ pkt' \in [Packets -> Places]
      BY <1>2, <1>16, <2>2, <2>9
    <3>. HIDE DEF s
    <3>. QED
      BY <1>1, <1>4, <2>13, <3>1, <3>2, <3>3, <3>4, QueueStep
  <2>15. x \notin Air
    <3>1. pkt[x] # "hif"
      BY <1>4, <2>1
    <3>2. ASSUME NEW u \in Threads, th[u].at = "issue", th[u].pkt = x PROVE FALSE
      <4>1. pkt[x] = "taken"
        BY <1>1, <2>1, <3>2 DEF OwnersOK
      <4>2. x = y
        BY <2>1, <4>1
      <4>3. u = t
        BY <1>1, <2>1, <3>2, <4>2 DEF OwnersOK, y
      <4>. QED
        BY <1>3, <3>2, <4>3
    <3>. QED
      BY <3>1, <3>2 DEF Air, InAir
  <2>16. Air' = Air \cup {x}
    <3>1. ASSUME NEW z \in Packets PROVE InAir(z)' <=> InAir(z) \/ z = x
      <4>1. CASE z = x
        BY <2>6, <2>8, <4>1 DEF InAir
      <4>2. CASE z # x
        <5>1. ASSUME NEW u \in Threads, th'[u].at = "issue", th'[u].pkt = z
              PROVE  th[u].at = "issue" /\ th[u].pkt = z
          BY <2>6, <2>8, <4>2, <5>1
        <5>2. ASSUME NEW u \in Threads, th[u].at = "issue", th[u].pkt = z
              PROVE  th'[u].at = "issue" /\ th'[u].pkt = z
          BY <1>3, <2>8, <5>2
        <5>. QED
          BY <2>13, <4>2, <5>1, <5>2 DEF InAir
      <4>. QED
        BY <4>1, <4>2
    <3>. QED
      BY <2>1, <3>1 DEF Air
  <2>17. CreditsOK'
    <3>1. Rest' = Changed(Rest, EpOf[x], Rest[EpOf[x]] + Cost[x])
      BY <1>1, <1>2, <2>1, <2>15, <2>16, RestPaid
    <3>2. cr' = [d EXCEPT !.tx[e] = @ - Cost[x]]
      BY <1>16 DEF d
    <3>3. Balanced(cr', Changed(Rest, e, Rest[e] + Cost[x]))
      BY <1>4, <2>3, <2>4, <2>5, <3>2, PaidBalances
    <3>4. Balanced(cr', Rest')
      BY <2>1, <3>1, <3>3
    <3>. QED
      BY <1>1, <1>2, <3>4 DEF CreditsOK
  <2>18. WaitsOK'
    <3>1. q \in [Eps -> Seq(Packets)]
      BY <1>1 DEF QueuesOK
    <3>2. \A f \in Eps : f # e => q'[f] = q[f]
      BY <1>4, <1>16, <3>1
    <3>3. ASSUME NEW f \in Eps, f = e PROVE Covered(f)'
      <4>1. Covers(th'[t], f)
        BY <2>6, <2>8, <3>3 DEF Covers
      <4>2. Covers(th[t], f)'
        BY <4>1 DEF Covers
      <4>. QED
        BY <4>2 DEF Covered
    <3>4. ASSUME NEW f \in Eps, f # e PROVE cr'.tx[f] = d.tx[f] /\ cr'.free = d.free
      <4>1. cr' = [d EXCEPT !.tx[e] = d.tx[e] - Cost[x]]
        BY <1>16 DEF d
      <4>2. d = [tx |-> d.tx, asg |-> d.asg, free |-> d.free]
        BY <2>5 DEF Credits
      <4>3. cr' = [tx |-> Changed(d.tx, e, d.tx[e] - Cost[x]), asg |-> d.asg, free |-> d.free]
        BY <2>5, <4>1, <4>2 DEF Credits, Changed
      <4>4. Changed(d.tx, e, d.tx[e] - Cost[x])[f] = d.tx[f]
        BY <2>5, <3>4 DEF Changed
      <4>. QED
        BY <4>3, <4>4
    <3>5. ASSUME NEW f \in Eps, f # e
          PROVE  Covered(f)' \/ (~Covered(f) /\ Tighter(f))
      <4>1. ASSUME Covered(f) PROVE Covered(f)'
        <5>1. Covers(th[t], f) => Covers(sent, f)
          BY <1>12, <2>6, <3>5 DEF Covers
        <5>. QED
          BY <1>1, <1>16, <4>1, <5>1, CoverStep
      <4>2. Tighter(f)
        BY <1>2, <2>3, <3>2, <3>4, <3>5 DEF Tighter
      <4>. QED
        BY <4>1, <4>2
    <3>6. stop' = "no" => stop = "no"
      BY <1>2
    <3>7. \A f \in Eps : Covered(f)' \/ q'[f] = << >> \/ Waits(f)' \/ (~Covered(f) /\ Tighter(f))
      BY <3>3, <3>5
    <3>. QED
      BY <1>1, <2>17, <3>6, <3>7, WaitsStep
  <2>. QED
    BY <1>6, <2>8, <2>12, <2>14, <2>17, <2>18 DEF HtcInv
<1>. QED
  BY <1>5, <1>14, <1>15, <1>16

----------------------------------------------------------------------------

\* The queues are as before when they and the marks that tell of them are.
LEMMA QueuesSame ==
  ASSUME QueuesOK, q' = q, hif' = hif, pkt' \in [Packets -> Places],
         \A z \in Packets : pkt'[z] = "queued" <=> pkt[z] = "queued",
         \A z \in Packets : pkt'[z] = "hif" <=> pkt[z] = "hif"
  PROVE  QueuesOK'
  BY DEF QueuesOK

\* Credits are as before when all their holders are.
LEMMA CreditsSame ==
  ASSUME CreditsOK, Air' = Air, cr' = cr, owed' = owed, lost' = lost
  PROVE  CreditsOK'
<1>1. Rest' = Rest
  BY RestSame
<1>. QED
  BY <1>1 DEF CreditsOK

\* A step after which at least the same endpoints are covered.
LEMMA WaitsSame ==
  ASSUME WaitsOK, QueuesOK, CreditsOK, CreditsOK', stop' = "no" => stop = "no",
         \A e \in Eps : Covered(e) => Covered(e)',
         q' = q, cr' = cr, acts' = acts
  PROVE  WaitsOK'
<1>1. \A e \in Eps : cr.tx[e] <= cr.tx[e]
  BY DEF CreditsOK, Balanced, Credits
<1>2. \A e \in Eps : Covered(e)' \/ q'[e] = << >> \/ Waits(e)' \/ (~Covered(e) /\ Tighter(e))
  BY <1>1 DEF Tighter
<1>. QED
  BY <1>2, WaitsStep

\* A thread goes on as r with nothing but the places "free" and "taken" changing.
LEMMA QuietStep ==
  ASSUME HtcInv, NEW t \in Threads, NEW r \in Frames, Shape(t, r), GoesOn(t, r),
         th[t].at # "issue", r.at # "issue",
         \A e \in Eps : Covers(th[t], e) => Covers(r, e),
         Handed(th[t].pkt, r.pkt), FlagsOK',
         q' = q, hif' = hif, cr' = cr, owed' = owed, lost' = lost, acts' = acts,
         stop' = stop, pkt' \in [Packets -> Places],
         \A z \in Packets : pkt'[z] = "queued" <=> pkt[z] = "queued",
         \A z \in Packets : pkt'[z] = "hif" <=> pkt[z] = "hif"
  PROVE  HtcInv'
<1>1. ThreadsOK /\ OwnersOK /\ QueuesOK /\ CreditsOK /\ WaitsOK
  BY DEF HtcInv
<1>2. ThreadsOK'
  BY <1>1, ThreadStep
<1>3. OwnersOK'
  BY <1>1, OwnersStep
<1>4. QueuesOK'
  BY <1>1, QueuesSame
<1>5. Air' = Air
  BY <1>1, AirSame
<1>6. CreditsOK'
  BY <1>1, <1>5, CreditsSame
<1>7. \A e \in Eps : Covered(e) => Covered(e)'
  BY <1>1, CoverStep
<1>8. stop' = "no" => stop = "no"
  OBVIOUS
<1>9. WaitsOK'
  BY <1>1, <1>6, <1>7, <1>8, WaitsSame
<1>. QED
  BY <1>2, <1>3, <1>4, <1>6, <1>9 DEF HtcInv

\* An idle thread.
LEMMA IdleIs ==
  /\ Idle \in Frames /\ Idle.at = "idle" /\ Idle.pkt = None /\ Idle.ep = None /\ Idle.walk = << >>
  /\ \A t : Shape(t, Idle)
<1>1. << >> \in Seq(Eps)
  OBVIOUS
<1>. QED
  BY <1>1 DEF Idle, Frames, Ats, Shape

\* ar6000_tx_queue_full and ar6000_tx_queue_avail keep the invariant.
LEMMA CallbackStep ==
  ASSUME HtcInv, NEW t \in Threads, Callback(t)
  PROVE  HtcInv'
<1>1. ThreadsOK /\ FlagsOK /\ QueuesOK
  BY DEF HtcInv
<1>2. /\ pkt' = pkt /\ q' = q /\ hif' = hif /\ cr' = cr /\ owed' = owed /\ lost' = lost
      /\ active' = active /\ connected' = connected /\ stop' = stop
      /\ fails' = fails /\ acts' = acts /\ events' = events
  BY DEF Callback, queues, credits, bounds
<1>3. /\ th[t] \in Frames /\ Shape(t, th[t]) /\ th[t].at \in {"full", "avail"}
      /\ GoesOn(t, After(t))
  BY <1>1 DEF ThreadsOK, Callback, GoesOn
<1>4. th[t].pkt = None /\ th[t].walk \in Seq(Eps)
  BY <1>3 DEF Shape, Frames
<1>5. /\ After(t) \in Frames /\ After(t).at \in {"idle", "walk"} /\ After(t).pkt = None
      /\ After(t).walk = th[t].walk /\ Shape(t, After(t))
  <2>1. CASE th[t].walk = << >>
    BY <2>1, IdleIs DEF After
  <2>2. CASE th[t].walk # << >>
    <3>. DEFINE r == [th[t] EXCEPT !.at = "walk", !.ep = None]
    <3>1. After(t) = r
      BY <2>2 DEF After
    <3>2. /\ r \in Frames /\ r.at = "walk" /\ r.pkt = th[t].pkt /\ r.walk = th[t].walk
      BY <1>3 DEF Frames, Ats
    <3>. HIDE DEF r
    <3>3. Shape(t, r)
      BY <1>3, <1>4, <2>2, <3>2 DEF Shape
    <3>. QED
      BY <1>4, <3>1, <3>2, <3>3
  <2>. QED
    BY <2>1, <2>2
<1>. DEFINE r == After(t)
<1>6. GoesOn(t, r) /\ r \in Frames /\ Shape(t, r) /\ th[t].at # "issue" /\ r.at # "issue"
  BY <1>3, <1>5
<1>7. \A e \in Eps : Covers(th[t], e) => Covers(r, e)
  BY <1>3, <1>5 DEF Covers
<1>8. r.pkt = None
  BY <1>5
<1>. HIDE DEF r
<1>9. Handed(th[t].pkt, r.pkt)
  BY <1>2, <1>4, <1>8, ConstantFacts DEF Handed
<1>10. FlagsOK'
  <2>1. ctlFull' \in BOOLEAN /\ netStopped' \in BOOLEAN
    BY <1>1, Zenon DEF FlagsOK, Callback
  <2>. QED
    BY <1>1, <1>2, <2>1, Zenon DEF FlagsOK
<1>11. /\ pkt' \in [Packets -> Places]
       /\ \A z \in Packets : pkt'[z] = "queued" <=> pkt[z] = "queued"
       /\ \A z \in Packets : pkt'[z] = "hif" <=> pkt[z] = "hif"
  BY <1>1, <1>2 DEF QueuesOK
<1>. QED
  BY <1>2, <1>6, <1>7, <1>9, <1>10, <1>11, QuietStep

\* A packet that is free is taken by a thread that was idle.
LEMMA TakenStep ==
  ASSUME HtcInv, NEW t \in Threads, th[t].at = "idle", NEW x \in Packets, pkt[x] = "free",
         NEW at \in {"check", "try"},
         GoesOn(t, [Idle EXCEPT !.at = at, !.ep = EpOf[x], !.pkt = x]),
         pkt' = [pkt EXCEPT ![x] = "taken"],
         q' = q, hif' = hif, UNCHANGED credits, UNCHANGED flow, stop' = stop, UNCHANGED bounds
  PROVE  HtcInv'
<1>. DEFINE r == [Idle EXCEPT !.at = at, !.ep = EpOf[x], !.pkt = x]
<1>1. ThreadsOK /\ FlagsOK /\ QueuesOK
  BY DEF HtcInv
<1>2. /\ cr' = cr /\ owed' = owed /\ lost' = lost
      /\ active' = active /\ ctlFull' = ctlFull /\ netStopped' = netStopped
      /\ connected' = connected /\ fails' = fails /\ acts' = acts /\ events' = events
  BY DEF credits, bounds, flow
<1>3. th[t] = Idle
  BY <1>1 DEF ThreadsOK, Shape
<1>4. EpOf[x] \in Eps /\ None \notin Packets
  BY ConstantFacts
<1>5. /\ r \in Frames /\ r.at = at /\ r.ep = EpOf[x] /\ r.pkt = x /\ r.walk = << >>
  <2>1. << >> \in Seq(Eps)
    OBVIOUS
  <2>. QED
    BY <1>4, <2>1 DEF Idle, Frames, Ats
<1>6. GoesOn(t, r)
  OBVIOUS
<1>. HIDE DEF r
<1>7. Shape(t, r) /\ th[t].at # "issue" /\ r.at # "issue"
  BY <1>4, <1>5 DEF Shape
<1>8. \A e \in Eps : ~Covers(Idle, e)
  BY DEF Covers, Idle, Elems
<1>9. \A e \in Eps : Covers(th[t], e) => Covers(r, e)
  BY <1>3, <1>8
<1>10. /\ pkt' \in [Packets -> Places] /\ pkt'[x] = "taken"
       /\ \A z \in Packets : z # x => pkt'[z] = pkt[z]
  BY <1>1 DEF QueuesOK, Places
<1>11. /\ \A z \in Packets : pkt'[z] = "queued" <=> pkt[z] = "queued"
       /\ \A z \in Packets : pkt'[z] = "hif" <=> pkt[z] = "hif"
  BY <1>10
<1>12. Handed(th[t].pkt, r.pkt)
  BY <1>3, <1>4, <1>5, <1>10, IdleIs DEF Handed
<1>13. FlagsOK'
  BY <1>1, <1>2, Zenon DEF FlagsOK
<1>. QED
  BY <1>2, <1>5, <1>6, <1>7, <1>9, <1>10, <1>11, <1>12, <1>13, QuietStep

\* ar6000_control_tx keeps the invariant.
LEMMA ControlTxStep ==
  ASSUME HtcInv, NEW t \in Procs, NEW x \in Packets, ControlTx(t, x)
  PROVE  HtcInv'
<1>1. /\ t \in Threads /\ th[t].at = "idle" /\ pkt[x] = "free"
      /\ GoesOn(t, [Idle EXCEPT !.at = "check", !.ep = EpOf[x], !.pkt = x])
      /\ pkt' = [pkt EXCEPT ![x] = "taken"] /\ q' = q /\ hif' = hif /\ stop' = stop
  BY DEF ControlTx, GoesOn, Threads
<1>2. UNCHANGED credits /\ UNCHANGED flow /\ UNCHANGED bounds
  BY DEF ControlTx
<1>. QED
  BY <1>1, <1>2, TakenStep

\* ar6000_data_tx keeps the invariant.
LEMMA DataTxStep ==
  ASSUME HtcInv, NEW x \in Packets, DataTx(x)
  PROVE  HtcInv'
<1>. DEFINE t == "net"
<1>1. /\ t \in Threads /\ th[t].at = "idle" /\ pkt[x] = "free"
      /\ GoesOn(t, [Idle EXCEPT !.at = "try", !.ep = EpOf[x], !.pkt = x])
      /\ pkt' = [pkt EXCEPT ![x] = "taken"] /\ q' = q /\ hif' = hif /\ stop' = stop
  BY DEF DataTx, GoesOn, Threads, NetIdle
<1>2. UNCHANGED credits /\ UNCHANGED flow /\ UNCHANGED bounds
  BY DEF DataTx
<1>. QED
  BY <1>1, <1>2, TakenStep

\* HTCSendPkt, for a command, keeps the invariant.
LEMMA CheckStep ==
  ASSUME HtcInv, NEW t \in Threads, Check(t)
  PROVE  HtcInv'
<1>. DEFINE x == th[t].pkt
<1>1. ThreadsOK /\ OwnersOK /\ FlagsOK /\ QueuesOK
  BY DEF HtcInv
<1>2. /\ q' = q /\ hif' = hif /\ cr' = cr /\ owed' = owed /\ lost' = lost
      /\ active' = active /\ netStopped' = netStopped /\ connected' = connected
      /\ stop' = stop /\ fails' = fails /\ acts' = acts /\ events' = events
  BY DEF Check, credits, bounds
<1>3. th[t] \in Frames /\ Shape(t, th[t]) /\ th[t].at = "check"
  BY <1>1 DEF ThreadsOK, Check
<1>4. /\ x \in Packets /\ th[t].ep = EpOf[x] /\ pkt[x] = "taken" /\ th[t].walk = << >>
      /\ EpOf[x] \in Eps /\ None \notin Packets
  BY <1>1, <1>3, ConstantFacts DEF Shape, OwnersOK
<1>5. \A e \in Eps : ~Covers(th[t], e)
  BY <1>3, <1>4 DEF Covers, Elems
<1>6. pkt \in [Packets -> Places]
  BY <1>1 DEF QueuesOK
<1>7. CASE stop = "no"
  <2>. DEFINE r == [th[t] EXCEPT !.at = "try"]
  <2>1. GoesOn(t, r) /\ pkt' = pkt /\ ctlFull' = ctlFull
    BY <1>7 DEF Check, GoesOn
  <2>2. r \in Frames /\ r.at = "try" /\ r.ep = th[t].ep /\ r.pkt = x /\ r.walk = << >>
    BY <1>3, <1>4 DEF Frames, Ats
  <2>. HIDE DEF r
  <2>3. Shape(t, r) /\ th[t].at # "issue" /\ r.at # "issue"
    BY <1>3, <1>4, <2>2 DEF Shape
  <2>4. Handed(th[t].pkt, r.pkt)
    BY <1>4, <2>1, <2>2 DEF Handed
  <2>5. FlagsOK'
    BY <1>1, <1>2, <2>1, Zenon DEF FlagsOK
  <2>6. /\ pkt' \in [Packets -> Places]
        /\ \A z \in Packets : pkt'[z] = "queued" <=> pkt[z] = "queued"
        /\ \A z \in Packets : pkt'[z] = "hif" <=> pkt[z] = "hif"
    BY <1>6, <2>1
  <2>7. \A e \in Eps : Covers(th[t], e) => Covers(r, e)
    BY <1>5
  <2>. QED
    BY <1>2, <2>1, <2>2, <2>3, <2>4, <2>5, <2>6, <2>7, QuietStep
<1>8. CASE stop # "no"
  <2>1. GoesOn(t, Idle) /\ pkt' = [pkt EXCEPT ![x] = "free"] /\ ctlFull' = FALSE
    BY <1>8, Zenon DEF Check, GoesOn
  <2>2. pkt' = [pkt EXCEPT ![x] = "free"]
    BY <2>1
  <2>. HIDE DEF x
  <2>3. /\ pkt' \in [Packets -> Places] /\ pkt'[x] = "free"
        /\ \A z \in Packets : z # x => pkt'[z] = pkt[z]
    BY <1>4, <1>6, <2>2 DEF Places
  <2>4. /\ \A z \in Packets : pkt'[z] = "queued" <=> pkt[z] = "queued"
        /\ \A z \in Packets : pkt'[z] = "hif" <=> pkt[z] = "hif"
    BY <1>4, <2>3
  <2>5. Handed(th[t].pkt, Idle.pkt)
    BY <1>4, <2>3, IdleIs DEF Handed, x
  <2>6. FlagsOK'
    <3>1. ctlFull' \in BOOLEAN
      BY <2>1, Zenon
    <3>. QED
      BY <1>1, <1>2, <3>1, Zenon DEF FlagsOK
  <2>7. /\ Idle \in Frames /\ Shape(t, Idle) /\ Idle.at # "issue" /\ th[t].at # "issue"
        /\ GoesOn(t, Idle)
    BY <1>3, <2>1, IdleIs
  <2>8. \A e \in Eps : Covers(th[t], e) => Covers(Idle, e)
    BY <1>5
  <2>. QED
    BY <1>2, <2>3, <2>4, <2>5, <2>6, <2>7, <2>8, QuietStep
<1>. QED
  BY <1>7, <1>8

\* HTCIssueSend keeps the invariant, with memory for the request and without.
LEMMA IssueStep ==
  ASSUME HtcInv, NEW t \in Threads, Issue(t)
  PROVE  HtcInv'
<1>. DEFINE x == th[t].pkt
            r == [th[t] EXCEPT !.at = "try", !.pkt = None]
<1>1. ThreadsOK /\ OwnersOK /\ FlagsOK /\ QueuesOK /\ CreditsOK /\ WaitsOK
  BY DEF HtcInv
<1>2. /\ q' = q /\ cr' = cr /\ owed' = owed /\ active' = active
      /\ netStopped' = netStopped /\ connected' = connected
      /\ stop' = stop /\ acts' = acts /\ events' = events
  BY DEF Issue
<1>3. th[t] \in Frames /\ Shape(t, th[t]) /\ th[t].at = "issue" /\ GoesOn(t, r)
  BY <1>1 DEF ThreadsOK, Issue, GoesOn
<1>4. /\ x \in Packets /\ th[t].ep = EpOf[x] /\ pkt[x] = "taken"
      /\ EpOf[x] \in Eps /\ None \notin Packets
  BY <1>1, <1>3, ConstantFacts DEF Shape, OwnersOK
<1>5. \/ /\ hif' = Append(hif, x) /\ pkt' = [pkt EXCEPT ![x] = "hif"]
         /\ lost' = lost /\ fails' = fails /\ ctlFull' = ctlFull
      \/ /\ Trouble /\ fails' = fails + 1 /\ pkt' = [pkt EXCEPT ![x] = "free"]
         /\ lost' = [lost EXCEPT ![EpOf[x]] = @ + Cost[x]]
         /\ ctlFull' = (ctlFull /\ EpOf[x] # Control)
         /\ hif' = hif
  BY Zenon DEF Issue
<1>6. r \in Frames /\ r.at = "try" /\ r.ep = th[t].ep /\ r.pkt = None /\ r.walk = th[t].walk
  BY <1>3 DEF Frames, Ats
<1>7. pkt \in [Packets -> Places]
  BY <1>1 DEF QueuesOK
<1>. HIDE DEF x, r
<1>8. Shape(t, r)
  BY <1>3, <1>4, <1>6 DEF Shape
<1>9. ThreadsOK' /\ th'[t] = r /\ \A u \in Threads : u # t => th'[u] = th[u]
  BY <1>1, <1>3, <1>6, <1>8, ThreadStep
<1>10. \A e \in Eps : Covers(th[t], e) => Covers(r, e)
  BY <1>6 DEF Covers
<1>11. \A e \in Eps : Covered(e) => Covered(e)'
  BY <1>1, <1>3, <1>10, CoverStep
<1>12. ASSUME pkt'[x] # "taken", \A z \in Packets : z # x => pkt'[z] = pkt[z]
       PROVE  OwnersOK'
  <2>1. Handed(th[t].pkt, r.pkt)
    BY <1>4, <1>6, <1>12 DEF Handed, x
  <2>. QED
    BY <1>1, <1>3, <1>6, <2>1, OwnersStep
<1>13. ASSUME NEW u \in Threads, u # t PROVE th[u].pkt # x
  BY <1>1, <1>4, <1>13 DEF OwnersOK, x
<1>14. stop' = "no" => stop = "no"
  BY <1>2
<1>15. CASE /\ hif' = Append(hif, x) /\ pkt' = [pkt EXCEPT ![x] = "hif"]
            /\ lost' = lost /\ fails' = fails /\ ctlFull' = ctlFull
  <2>1. /\ pkt' \in [Packets -> Places] /\ pkt'[x] = "hif"
        /\ \A z \in Packets : z # x => pkt'[z] = pkt[z]
    BY <1>4, <1>7, <1>15 DEF Places
  <2>2. OwnersOK'
    BY <1>12, <2>1
  <2>3. QueuesOK'
    <3>1. x \notin Elems(hif) /\ hif \in Seq(Packets) /\ NoRepeats(hif)
      BY <1>1, <1>4 DEF QueuesOK
    <3>2. /\ hif' \in Seq(Packets) /\ NoRepeats(hif') /\ Elems(hif') = Elems(hif) \cup {x}
      BY <1>4, <1>15, <3>1, AppendElems
    <3>3. \A z \in Packets : pkt'[z] = "queued" <=> z \in Elems(q'[EpOf[z]])
      BY <1>1, <1>2, <1>4, <2>1 DEF QueuesOK
    <3>4. \A z \in Packets : pkt'[z] = "hif" <=> z \in Elems(hif')
      BY <1>1, <2>1, <3>2 DEF QueuesOK
    <3>5. /\ q' \in [Eps -> Seq(Packets)] /\ \A e \in Eps : NoRepeats(q'[e])
          /\ \A e \in Eps : \A z \in Elems(q'[e]) : EpOf[z] = e
      BY <1>1, <1>2 DEF QueuesOK
    <3>. QED
      BY <2>1, <3>2, <3>3, <3>4, <3>5 DEF QueuesOK
  <2>4. Air' = Air
    <3>1. ASSUME NEW z \in Packets PROVE InAir(z)' <=> InAir(z)
      <4>1. CASE z = x
        BY <1>3, <2>1, <4>1 DEF InAir, x
      <4>2. CASE z # x
        <5>1. ASSUME NEW u \in Threads, th'[u].at = "issue", th'[u].pkt = z
              PROVE  th[u].at = "issue" /\ th[u].pkt = z
          BY <1>6, <1>9, <5>1
        <5>2. ASSUME NEW u \in Threads, th[u].at = "issue", th[u].pkt = z
              PROVE  th'[u].at = "issue" /\ th'[u].pkt = z
          BY <1>9, <4>2, <5>2 DEF x
        <5>. QED
          BY <2>1, <4>2, <5>1, <5>2 DEF InAir
      <4>. QED
        BY <4>1, <4>2
    <3>. QED
      BY <3>1 DEF Air
  <2>5. CreditsOK'
    BY <1>1, <1>2, <1>15, <2>4, CreditsSame
  <2>6. WaitsOK'
    BY <1>1, <1>2, <1>11, <1>14, <2>5, WaitsSame
  <2>7. FlagsOK'
    BY <1>1, <1>2, <1>15, Zenon DEF FlagsOK
  <2>. QED
    BY <1>9, <2>2, <2>3, <2>5, <2>6, <2>7 DEF HtcInv
<1>16. CASE /\ Trouble /\ fails' = fails + 1 /\ pkt' = [pkt EXCEPT ![x] = "free"]
            /\ lost' = [lost EXCEPT ![EpOf[x]] = @ + Cost[x]]
            /\ ctlFull' = (ctlFull /\ EpOf[x] # Control)
            /\ hif' = hif
  <2>1. /\ pkt' \in [Packets -> Places] /\ pkt'[x] = "free"
        /\ \A z \in Packets : z # x => pkt'[z] = pkt[z]
    <3>1. pkt' = [pkt EXCEPT ![x] = "free"]
      BY <1>16
    <3>. QED
      BY <1>4, <1>7, <3>1 DEF Places
  <2>2. OwnersOK'
    BY <1>12, <2>1
  <2>3. QueuesOK'
    <3>1. /\ \A z \in Packets : pkt'[z] = "queued" <=> pkt[z] = "queued"
          /\ \A z \in Packets : pkt'[z] = "hif" <=> pkt[z] = "hif"
      BY <1>4, <2>1
    <3>2. hif' = hif
      BY <1>16
    <3>. QED
      BY <1>1, <1>2, <2>1, <3>1, <3>2, QueuesSame
  <2>4. x \in Air /\ Air' = Air \ {x}
    <3>1. x \in Air
      BY <1>3, <1>4 DEF Air, InAir, x
    <3>2. ASSUME NEW z \in Packets PROVE InAir(z)' <=> InAir(z) /\ z # x
      <4>1. CASE z = x
        <5>1. ASSUME NEW u \in Threads, th'[u].at = "issue", th'[u].pkt = z PROVE FALSE
          BY <1>6, <1>9, <1>13, <4>1, <5>1
        <5>. QED
          BY <2>1, <4>1, <5>1 DEF InAir
      <4>2. CASE z # x
        <5>1. ASSUME NEW u \in Threads, th'[u].at = "issue", th'[u].pkt = z
              PROVE  th[u].at = "issue" /\ th[u].pkt = z
          BY <1>6, <1>9, <5>1
        <5>2. ASSUME NEW u \in Threads, th[u].at = "issue", th[u].pkt = z
              PROVE  th'[u].at = "issue" /\ th'[u].pkt = z
          BY <1>9, <4>2, <5>2 DEF x
        <5>. QED
          BY <2>1, <4>2, <5>1, <5>2 DEF InAir
      <4>. QED
        BY <4>1, <4>2
    <3>. QED
      BY <3>1, <3>2 DEF Air
  <2>5. CreditsOK'
    <3>1. lost' = Changed(lost, EpOf[x], lost[EpOf[x]] + Cost[x])
      BY <1>16 DEF Changed
    <3>2. Rest' = Rest /\ owed' \in [Eps -> Nat] /\ lost' \in [Eps -> Nat]
      BY <1>1, <1>2, <1>4, <2>4, <3>1, RestArrived
    <3>. QED
      BY <1>1, <1>2, <3>2 DEF CreditsOK
  <2>6. WaitsOK'
    BY <1>1, <1>2, <1>11, <1>14, <2>5, WaitsSame
  <2>7. FlagsOK'
    <3>1. ctlFull' \in BOOLEAN
      BY <1>1, <1>16, Zenon DEF FlagsOK
    <3>2. fails' \in 0 .. MaxTroubles
      <4>1. Trouble /\ fails' = fails + 1
        BY <1>16
      <4>2. /\ fails \in 0 .. MaxTroubles /\ acts \in 0 .. MaxTroubles
            /\ events \in 0 .. MaxTroubles
        BY <1>1, Zenon DEF FlagsOK
      <4>. QED
        BY <4>1, <4>2, HtcAssumption DEF Trouble
    <3>. QED
      BY <1>1, <1>2, <3>1, <3>2, Zenon DEF FlagsOK
  <2>. QED
    BY <1>9, <2>2, <2>3, <2>5, <2>6, <2>7 DEF HtcInv
<1>. QED
  BY <1>5, <1>15, <1>16

\* Threads that stay cover what they covered.
LEMMA CoveredSame ==
  ASSUME th' = th
  PROVE  \A e \in Eps : Covered(e) => Covered(e)'
  BY DEF Covered, Covers

\* The completion of a packet keeps the invariant.
LEMMA IoDoneStep ==
  ASSUME HtcInv, IoDone
  PROVE  HtcInv'
<1>. DEFINE x == Head(hif)
<1>1. ThreadsOK /\ OwnersOK /\ FlagsOK /\ QueuesOK /\ CreditsOK /\ WaitsOK
  BY DEF HtcInv
<1>2. /\ q' = q /\ cr' = cr /\ active' = active /\ th' = th
      /\ netStopped' = netStopped /\ connected' = connected
      /\ stop' = stop /\ acts' = acts /\ events' = events
  BY DEF IoDone
<1>3. /\ hif # << >> /\ hif' = Tail(hif) /\ pkt' = [pkt EXCEPT ![x] = "free"]
      /\ ctlFull' = (ctlFull /\ EpOf[x] # Control)
  BY Zenon DEF IoDone
<1>4. \/ owed' = [owed EXCEPT ![EpOf[x]] = @ + Cost[x]] /\ lost' = lost /\ fails' = fails
      \/ /\ Trouble /\ fails' = fails + 1
         /\ lost' = [lost EXCEPT ![EpOf[x]] = @ + Cost[x]] /\ owed' = owed
  BY Zenon DEF IoDone
<1>5. /\ x \in Packets /\ x \in Elems(hif)
      /\ Tail(hif) \in Seq(Packets) /\ NoRepeats(Tail(hif))
      /\ Elems(Tail(hif)) = Elems(hif) \ {x}
  <2>1. hif \in Seq(Packets) /\ NoRepeats(hif) /\ hif # << >>
    BY <1>1, <1>3, Zenon DEF QueuesOK
  <2>. QED
    BY <2>1, TailElems
<1>6. hif' = Tail(hif) /\ pkt' = [pkt EXCEPT ![x] = "free"]
  BY <1>3
<1>. HIDE DEF x
<1>7. pkt[x] = "hif" /\ pkt \in [Packets -> Places]
  BY <1>1, <1>5 DEF QueuesOK
<1>8. /\ pkt' \in [Packets -> Places] /\ pkt'[x] = "free"
      /\ \A z \in Packets : z # x => pkt'[z] = pkt[z]
  BY <1>5, <1>6, <1>7 DEF Places
<1>9. ThreadsOK'
  BY <1>1, <1>2 DEF ThreadsOK, Shape
<1>10. OwnersOK'
  <2>1. \A z \in Packets : pkt'[z] = "taken" <=> pkt[z] = "taken"
    BY <1>7, <1>8
  <2>. QED
    BY <1>1, <1>2, <2>1, OwnersSame
<1>11. QueuesOK'
  <2>1. \A z \in Packets : pkt'[z] = "queued" <=> z \in Elems(q'[EpOf[z]])
    BY <1>1, <1>2, <1>7, <1>8 DEF QueuesOK
  <2>2. \A z \in Packets : pkt'[z] = "hif" <=> z \in Elems(hif')
    BY <1>1, <1>5, <1>6, <1>8 DEF QueuesOK
  <2>3. /\ q' \in [Eps -> Seq(Packets)] /\ \A e \in Eps : NoRepeats(q'[e])
        /\ \A e \in Eps : \A z \in Elems(q'[e]) : EpOf[z] = e
    BY <1>1, <1>2 DEF QueuesOK
  <2>. QED
    BY <1>5, <1>6, <1>8, <2>1, <2>2, <2>3 DEF QueuesOK
<1>12. x \in Air /\ Air' = Air \ {x}
  <2>1. x \in Air
    BY <1>5, <1>7 DEF Air, InAir
  <2>2. \A u \in Threads : th[u].pkt # x
    BY <1>1, <1>5, <1>7 DEF OwnersOK
  <2>3. ASSUME NEW z \in Packets PROVE InAir(z)' <=> InAir(z) /\ z # x
    BY <1>2, <1>8, <2>2 DEF InAir
  <2>. QED
    BY <2>1, <2>3 DEF Air
<1>13. CreditsOK'
  <2>1. \/ owed' = Changed(owed, EpOf[x], owed[EpOf[x]] + Cost[x]) /\ lost' = lost
        \/ lost' = Changed(lost, EpOf[x], lost[EpOf[x]] + Cost[x]) /\ owed' = owed
    BY <1>4 DEF Changed
  <2>2. Rest' = Rest /\ owed' \in [Eps -> Nat] /\ lost' \in [Eps -> Nat]
    BY <1>1, <1>5, <1>12, <2>1, RestArrived
  <2>. QED
    BY <1>1, <1>2, <2>2 DEF CreditsOK
<1>14. WaitsOK'
  <2>1. stop' = "no" => stop = "no"
    BY <1>2
  <2>2. \A e \in Eps : Covered(e) => Covered(e)'
    BY <1>2, CoveredSame
  <2>. QED
    BY <1>1, <1>2, <1>13, <2>1, <2>2, WaitsSame
<1>15. FlagsOK'
  <2>1. ctlFull' \in BOOLEAN
    BY <1>1, <1>3, Zenon DEF FlagsOK
  <2>2. fails' \in 0 .. MaxTroubles
    <3>1. fails' = fails \/ (Trouble /\ fails' = fails + 1)
      BY <1>4
    <3>2. /\ fails \in 0 .. MaxTroubles /\ acts \in 0 .. MaxTroubles
          /\ events \in 0 .. MaxTroubles
      BY <1>1, Zenon DEF FlagsOK
    <3>. QED
      BY <3>1, <3>2, HtcAssumption DEF Trouble
  <2>. QED
    BY <1>1, <1>2, <2>1, <2>2, Zenon DEF FlagsOK
<1>. QED
  BY <1>9, <1>10, <1>11, <1>13, <1>14, <1>15 DEF HtcInv

\* Reports are bounded by a number.
LEMMA MaxOwed ==
  ASSUME CreditsOK
  PROVE  Max(Range(owed)) \in Int
<1>1. owed \in [Eps -> Nat] /\ lost \in [Eps -> Nat] /\ Balanced(cr, Rest)
  BY DEF CreditsOK
<1>2. Range(owed) \subseteq Nat /\ Range(owed) # {}
  BY <1>1, ConstantFacts DEF Range
<1>3. IsFiniteSet(Eps) /\ NatOn(owed, Eps)
  BY <1>1, ConstantFacts DEF NatOn
<1>. DEFINE n == SumFunctionOnSet(owed, Eps)
<1>4. n \in Nat /\ \A e \in Eps : owed[e] <= n
  BY <1>3, SumNat
<1>. HIDE DEF n
<1>5. \A k \in Range(owed) : k <= n
  BY <1>1, <1>4 DEF Range
<1>6. Max(Range(owed)) \in Range(owed)
  BY <1>2, <1>4, <1>5, NatMax
<1>. QED
  BY <1>2, <1>6

\* HTCProcessCreditRpt keeps the invariant: all endpoints are covered by the walk.
LEMMA ReportStep ==
  ASSUME HtcInv, NEW rpt \in Reports, Report(rpt)
  PROVE  HtcInv'
<1>. DEFINE t == "irq"
            r == [Idle EXCEPT !.at = "walk", !.walk = Prio]
<1>1. ThreadsOK /\ OwnersOK /\ FlagsOK /\ QueuesOK /\ CreditsOK /\ WaitsOK
  BY DEF HtcInv
<1>2. /\ pkt' = pkt /\ q' = q /\ hif' = hif /\ lost' = lost /\ active' = active
      /\ ctlFull' = ctlFull /\ netStopped' = netStopped /\ connected' = connected
      /\ stop' = stop /\ fails' = fails /\ acts' = acts /\ events' = events
      /\ cr' = SendComplete(rpt) /\ owed' = [e \in Eps |-> owed[e] - rpt[e]]
  BY DEF Report, queues, flow, bounds
<1>3. Prio \in Seq(Eps) /\ Prio # << >> /\ t \in Threads
  BY ConstantFacts DEF Threads
<1>4. th[t] = Idle
  BY <1>1, <1>3 DEF ThreadsOK, Shape, Report, IrqReady
<1>5. GoesOn(t, r)
  BY <1>3 DEF Report, Walk, GoesOn
<1>6. /\ r \in Frames /\ r.at = "walk" /\ r.pkt = None /\ r.walk = Prio
  BY <1>3 DEF Idle, Frames, Ats
<1>. HIDE DEF r
<1>7. Shape(t, r)
  BY <1>3, <1>6 DEF Shape
<1>8. ThreadsOK' /\ th'[t] = r
  BY <1>1, <1>3, <1>5, <1>6, <1>7, ThreadStep
<1>9. OwnersOK'
  <2>1. Handed(th[t].pkt, r.pkt)
    BY <1>2, <1>4, <1>6, IdleIs, ConstantFacts DEF Handed
  <2>. QED
    BY <1>1, <1>3, <1>5, <1>6, <2>1, OwnersStep
<1>10. QueuesOK'
  BY <1>1, <1>2 DEF QueuesOK
<1>11. Air' = Air
  <2>1. th[t].at # "issue" /\ r.at # "issue"
    BY <1>4, <1>6, IdleIs
  <2>2. \A z \in Packets : pkt'[z] = "hif" <=> pkt[z] = "hif"
    BY <1>2
  <2>. QED
    BY <1>1, <1>3, <1>5, <1>6, <2>1, <2>2, AirSame
<1>12. rpt \in [Eps -> Nat] /\ \A e \in Eps : rpt[e] <= owed[e]
  <2>. DEFINE m == Max(Range(owed))
  <2>1. m \in Int
    BY <1>1, MaxOwed
  <2>2. rpt \in [Eps -> 0 .. m] /\ \A e \in Eps : rpt[e] <= owed[e]
    BY DEF Reports
  <2>. HIDE DEF m
  <2>. QED
    BY <2>1, <2>2
<1>13. CreditsOK'
  <2>1. /\ Rest \in [Eps -> Nat]
        /\ \A e \in Eps : Rest[e] = owed[e] + Flying(Air, e) + lost[e]
        /\ \A e \in Eps : Flying(Air, e) \in Nat /\ owed[e] \in Nat /\ lost[e] \in Nat
    BY <1>1, RestType
  <2>2. \A e \in Eps : rpt[e] <= Rest[e]
    BY <1>12, <2>1
  <2>3. Balanced(SendComplete(rpt), [e \in Eps |-> Rest[e] - rpt[e]])
    BY <1>1, <1>12, <2>2, SendCompleteBalances DEF CreditsOK
  <2>4. Rest' = [e \in Eps |-> Rest[e] - rpt[e]]
    <3>1. \A e \in Eps : UnderWay(e)' = Flying(Air', e)
      BY UnderWayIs
    <3>2. ASSUME NEW e \in Eps
          PROVE  owed'[e] + UnderWay(e)' + lost'[e] = Rest[e] - rpt[e]
      <4>1. /\ Rest[e] = owed[e] + Flying(Air, e) + lost[e]
            /\ Flying(Air, e) \in Nat /\ owed[e] \in Nat /\ lost[e] \in Nat /\ rpt[e] \in Nat
        BY <1>12, <2>1
      <4>2. UnderWay(e)' = Flying(Air, e) /\ owed'[e] = owed[e] - rpt[e] /\ lost'[e] = lost[e]
        BY <1>2, <1>11, <3>1
      <4>. QED
        BY <4>1, <4>2
    <3>. QED
      BY <3>2 DEF Rest
  <2>5. owed' \in [Eps -> Nat]
    BY <1>2, <1>12, <2>1
  <2>6. Balanced(cr', Rest')
    BY <1>2, <2>3, <2>4
  <2>. QED
    BY <1>1, <1>2, <2>5, <2>6 DEF CreditsOK
<1>14. WaitsOK'
  <2>1. ASSUME NEW e \in Eps PROVE Covered(e)'
    <3>1. e \in Elems(Prio)
      BY ConstantFacts DEF Elems
    <3>2. Covers(th'[t], e)
      BY <1>6, <1>8, <3>1 DEF Covers
    <3>3. Covers(th[t], e)'
      BY <3>2 DEF Covers
    <3>. QED
      BY <1>3, <3>3 DEF Covered
  <2>. QED
    BY <2>1 DEF WaitsOK
<1>15. FlagsOK'
  BY <1>1, <1>2, Zenon DEF FlagsOK
<1>. QED
  BY <1>8, <1>9, <1>10, <1>13, <1>14, <1>15 DEF HtcInv

\* HTCCheckEndpointTxQueues keeps the invariant: it passes an endpoint by when its queue is
\* empty.
LEMMA WalkOnStep ==
  ASSUME HtcInv, WalkOn
  PROVE  HtcInv'
<1>. DEFINE t == "irq"
            w == th[t].walk
            e == Head(w)
            rest == Tail(w)
            r == IF q[e] # << >> THEN [Idle EXCEPT !.at = "try", !.ep = e, !.walk = rest]
                 ELSE IF rest # << >> THEN [Idle EXCEPT !.at = "walk", !.walk = rest]
                 ELSE Idle
<1>1. ThreadsOK /\ OwnersOK /\ FlagsOK /\ QueuesOK /\ CreditsOK /\ WaitsOK
  BY DEF HtcInv
<1>2. /\ pkt' = pkt /\ q' = q /\ hif' = hif /\ cr' = cr /\ owed' = owed /\ lost' = lost
      /\ active' = active
      /\ ctlFull' = ctlFull /\ netStopped' = netStopped /\ connected' = connected
      /\ stop' = stop /\ fails' = fails /\ acts' = acts /\ events' = events
  BY DEF WalkOn, queues, credits, flow, bounds
<1>3. t \in Threads
  BY DEF Threads
<1>4. th[t] \in Frames /\ Shape(t, th[t]) /\ th[t].at = "walk"
  BY <1>1, <1>3 DEF ThreadsOK, WalkOn
<1>5. th[t].pkt = None /\ w \in Seq(Eps) /\ w # << >>
  BY <1>4 DEF Frames, Shape
<1>6. GoesOn(t, r)
  BY DEF WalkOn, GoesOn
<1>7. e \in Eps /\ rest \in Seq(Eps)
  BY <1>5
<1>8. Elems(w) \subseteq {e} \cup Elems(rest)
  <2>. HIDE DEF w
  <2>1. ASSUME NEW i \in 1 .. Len(w), i # 1 PROVE w[i] \in Elems(Tail(w))
    <3>1. i - 1 \in DOMAIN Tail(w) /\ Tail(w)[i - 1] = w[i]
      BY <1>5, <2>1
    <3>. QED
      BY <3>1 DEF Elems
  <2>. QED
    BY <1>5, <2>1 DEF Elems
<1>. HIDE DEF e, rest, w
<1>9. /\ r \in Frames /\ r.at \in {"idle", "walk", "try"} /\ r.pkt = None
      /\ Shape(t, r)
      /\ q[e] # << >> => r.at = "try" /\ r.ep = e
      /\ r.walk = rest
  <2>1. CASE q[e] # << >>
    <3>. DEFINE s == [Idle EXCEPT !.at = "try", !.ep = e, !.walk = rest]
    <3>1. r = s
      BY <2>1
    <3>2. s \in Frames /\ s.at = "try" /\ s.ep = e /\ s.pkt = None /\ s.walk = rest
      BY <1>7 DEF Idle, Frames, Ats
    <3>. HIDE DEF s
    <3>3. Shape(t, s)
      BY <1>7, <3>2, ConstantFacts DEF Shape
    <3>. HIDE DEF r
    <3>. QED
      BY <3>1, <3>2, <3>3
  <2>2. CASE q[e] = << >> /\ rest # << >>
    <3>. DEFINE s == [Idle EXCEPT !.at = "walk", !.walk = rest]
    <3>1. r = s
      BY <2>2
    <3>2. s \in Frames /\ s.at = "walk" /\ s.pkt = None /\ s.walk = rest
      BY <1>7 DEF Idle, Frames, Ats
    <3>. HIDE DEF s
    <3>3. Shape(t, s)
      BY <2>2, <3>2 DEF Shape
    <3>. HIDE DEF r
    <3>. QED
      BY <2>2, <3>1, <3>2, <3>3
  <2>3. CASE q[e] = << >> /\ rest = << >>
    <3>1. r = Idle
      BY <2>3
    <3>. HIDE DEF r
    <3>. QED
      BY <2>3, <3>1, IdleIs
  <2>. QED
    BY <2>1, <2>2, <2>3
<1>. HIDE DEF r
<1>10. ThreadsOK' /\ th'[t] = r
  BY <1>1, <1>3, <1>6, <1>9, ThreadStep
<1>11. OwnersOK'
  <2>1. Handed(th[t].pkt, r.pkt)
    BY <1>2, <1>5, <1>9, ConstantFacts DEF Handed
  <2>. QED
    BY <1>1, <1>3, <1>6, <1>9, <2>1, OwnersStep
<1>12. QueuesOK'
  BY <1>1, <1>2 DEF QueuesOK
<1>13. CreditsOK'
  <2>1. \A z \in Packets : pkt'[z] = "hif" <=> pkt[z] = "hif"
    BY <1>2
  <2>2. th[t].at # "issue" /\ r.at # "issue"
    BY <1>4, <1>9
  <2>3. Air' = Air
    BY <1>1, <1>3, <1>6, <1>9, <2>1, <2>2, AirSame
  <2>. QED
    BY <1>1, <1>2, <2>3, CreditsSame
<1>14. WaitsOK'
  <2>1. ASSUME NEW f \in Eps, Covered(f)
        PROVE  Covered(f)' \/ q'[f] = << >>
    <3>1. CASE f = e /\ q[e] = << >>
      BY <1>2, <3>1
    <3>2. CASE ~(f = e /\ q[e] = << >>)
      <4>1. Covers(th[t], f) => Covers(r, f)
        BY <1>4, <1>8, <1>9, <3>2 DEF Covers, w
      <4>. QED
        BY <1>1, <1>3, <1>6, <2>1, <4>1, CoverStep
    <3>. QED
      BY <3>1, <3>2
  <2>2. \A f \in Eps : cr.tx[f] <= cr.tx[f]
    BY <1>1 DEF CreditsOK, Balanced, Credits
  <2>3. \A f \in Eps : Covered(f)' \/ q'[f] = << >> \/ Waits(f)' \/ (~Covered(f) /\ Tighter(f))
    BY <1>2, <2>1, <2>2 DEF Tighter
  <2>4. stop' = "no" => stop = "no"
    BY <1>2
  <2>. QED
    BY <1>1, <1>13, <2>3, <2>4, WaitsStep
<1>15. FlagsOK'
  BY <1>1, <1>2, Zenon DEF FlagsOK
<1>. QED
  BY <1>10, <1>11, <1>12, <1>13, <1>14, <1>15 DEF HtcInv

\* HTCIndicateActivityChange keeps the invariant.
LEMMA ActivityChangeStep ==
  ASSUME HtcInv, NEW e \in Data, ActivityChange(e)
  PROVE  HtcInv'
<1>. DEFINE on == IF e \in active THEN active \ {e} ELSE active \cup {e}
<1>1. ThreadsOK /\ OwnersOK /\ FlagsOK /\ QueuesOK /\ CreditsOK /\ WaitsOK
  BY DEF HtcInv
<1>2. /\ pkt' = pkt /\ q' = q /\ hif' = hif /\ owed' = owed /\ lost' = lost /\ th' = th
      /\ ctlFull' = ctlFull /\ netStopped' = netStopped /\ connected' = connected
      /\ stop' = stop /\ fails' = fails /\ events' = events
      /\ Trouble /\ acts' = acts + 1 /\ active' = on /\ cr' = RedistributeCredits(on)
  BY DEF ActivityChange, queues, flow
<1>3. ThreadsOK' /\ OwnersOK' /\ QueuesOK'
  BY <1>1, <1>2 DEF ThreadsOK, Shape, OwnersOK, QueuesOK
<1>4. acts' \in 0 .. MaxTroubles /\ acts' # 0
  <2>1. /\ fails \in 0 .. MaxTroubles /\ acts \in 0 .. MaxTroubles
        /\ events \in 0 .. MaxTroubles
    BY <1>1, Zenon DEF FlagsOK
  <2>. QED
    BY <1>2, <2>1, HtcAssumption DEF Trouble
<1>5. active' \in SUBSET Eps /\ Control \in active'
  <2>1. active \in SUBSET Eps /\ Control \in active /\ e \in Eps /\ e # Control
    BY <1>1, Zenon DEF FlagsOK, Data
  <2>. QED
    BY <1>2, <2>1
<1>6. FlagsOK'
  BY <1>1, <1>2, <1>4, <1>5, Zenon DEF FlagsOK
<1>. HIDE DEF on
<1>7. Balanced(cr', Rest) /\ NotMore(cr', cr)
  BY <1>1, <1>2, RedistributeBalances DEF CreditsOK
<1>8. CreditsOK'
  <2>1. Air' = Air
    BY <1>2 DEF Air, InAir
  <2>2. Rest' = Rest
    BY <1>2, <2>1, RestSame
  <2>. QED
    BY <1>1, <1>2, <1>7, <2>2 DEF CreditsOK
<1>9. WaitsOK'
  <2>. SUFFICES ASSUME stop' = "no", NEW f \in Eps, q'[f] # << >>, ~Covered(f)'
                PROVE  Waits(f)'
    BY DEF WaitsOK
  <2>1. stop = "no" /\ q[f] # << >> /\ ~Covered(f)
    BY <1>2, CoveredSame
  <2>2. cr.tx[f] < Cost[Head(q[f])]
    BY <1>1, <2>1 DEF WaitsOK, Waits
  <2>3. q[f] \in Seq(Packets) /\ Head(q[f]) \in Packets
    BY <1>1, <2>1 DEF QueuesOK
  <2>4. Cost[Head(q[f])] \in Int
    BY <2>3, ConstantFacts
  <2>5. cr.tx[f] \in Int
    BY <1>1 DEF CreditsOK, Balanced, Credits
  <2>6. cr'.tx[f] \in Int
    BY <1>7 DEF Balanced, Credits
  <2>7. cr'.tx[f] <= cr.tx[f]
    BY <1>7 DEF NotMore
  <2>8. cr'.tx[f] < Cost[Head(q'[f])]
    BY <1>2, <2>2, <2>4, <2>5, <2>6, <2>7
  <2>. QED
    BY <1>4, <2>8 DEF Waits
<1>. QED
  BY <1>3, <1>6, <1>8, <1>9 DEF HtcInv

\* HTCFlushEndpointTX keeps the invariant.
LEMMA FlushStep ==
  ASSUME HtcInv, NEW es \in SUBSET Eps, Flush(es), hif' = hif, UNCHANGED credits, th' = th,
         acts' = acts, FlagsOK', stop' = "no" => stop = "no"
  PROVE  HtcInv'
<1>1. ThreadsOK /\ OwnersOK /\ QueuesOK /\ CreditsOK /\ WaitsOK
  BY DEF HtcInv
<1>2. cr' = cr /\ owed' = owed /\ lost' = lost
  BY DEF credits
<1>3. /\ q' = [e \in Eps |-> IF e \in es THEN << >> ELSE q[e]]
      /\ pkt' = [x \in Packets |->
                   IF pkt[x] = "queued" /\ EpOf[x] \in es THEN "free" ELSE pkt[x]]
  BY DEF Flush
<1>4. ThreadsOK'
  BY <1>1 DEF ThreadsOK, Shape
<1>5. pkt \in [Packets -> Places] /\ q \in [Eps -> Seq(Packets)]
  BY <1>1 DEF QueuesOK
<1>6. /\ pkt' \in [Packets -> Places]
      /\ \A z \in Packets : pkt'[z] = "taken" <=> pkt[z] = "taken"
      /\ \A z \in Packets : pkt'[z] = "hif" <=> pkt[z] = "hif"
      /\ \A z \in Packets : pkt'[z] = "queued" <=> pkt[z] = "queued" /\ EpOf[z] \notin es
  BY <1>3, <1>5 DEF Places
<1>7. OwnersOK'
  BY <1>1, <1>6, OwnersSame
<1>8. << >> \in Seq(Packets) /\ NoRepeats(<< >>) /\ Elems(<< >>) = {}
  BY DEF NoRepeats, Elems
<1>9. QueuesOK'
  <2>1. q' \in [Eps -> Seq(Packets)]
    BY <1>3, <1>5, <1>8
  <2>2. \A e \in Eps : q'[e] = IF e \in es THEN << >> ELSE q[e]
    BY <1>3
  <2>3. \A e \in Eps : NoRepeats(q'[e])
    BY <1>1, <1>8, <2>2 DEF QueuesOK
  <2>4. \A e \in Eps : \A z \in Elems(q'[e]) : EpOf[z] = e
    BY <1>1, <1>8, <2>2 DEF QueuesOK
  <2>5. ASSUME NEW z \in Packets PROVE pkt'[z] = "queued" <=> z \in Elems(q'[EpOf[z]])
    <3>1. EpOf[z] \in Eps
      BY ConstantFacts
    <3>2. pkt[z] = "queued" <=> z \in Elems(q[EpOf[z]])
      BY <1>1 DEF QueuesOK
    <3>. QED
      BY <1>6, <1>8, <2>2, <3>1, <3>2
  <2>6. /\ hif' \in Seq(Packets) /\ NoRepeats(hif')
        /\ \A z \in Packets : pkt'[z] = "hif" <=> z \in Elems(hif')
    BY <1>1, <1>6 DEF QueuesOK
  <2>. QED
    BY <1>6, <2>1, <2>3, <2>4, <2>5, <2>6 DEF QueuesOK
<1>10. CreditsOK'
  <2>1. Air' = Air
    BY <1>6 DEF Air, InAir
  <2>. QED
    BY <1>1, <1>2, <2>1, CreditsSame
<1>11. WaitsOK'
  <2>1. \A e \in Eps : cr.tx[e] <= cr.tx[e]
    BY <1>1 DEF CreditsOK, Balanced, Credits
  <2>2. \A e \in Eps : Covered(e) => Covered(e)'
    BY CoveredSame
  <2>3. \A e \in Eps : q'[e] = << >> \/ q'[e] = q[e]
    BY <1>3
  <2>4. \A e \in Eps : Covered(e)' \/ q'[e] = << >> \/ Waits(e)' \/ (~Covered(e) /\ Tighter(e))
    BY <1>2, <2>1, <2>2, <2>3 DEF Tighter
  <2>. QED
    BY <1>1, <1>10, <2>4, WaitsStep
<1>. QED
  BY <1>4, <1>7, <1>9, <1>10, <1>11 DEF HtcInv

\* ar6000_disconnect_event keeps the invariant.
LEMMA DisconnectStep ==
  ASSUME HtcInv, Disconnect
  PROVE  HtcInv'
<1>1. FlagsOK
  BY DEF HtcInv
<1>2. /\ hif' = hif /\ th' = th /\ active' = active /\ ctlFull' = ctlFull /\ stop' = stop
      /\ fails' = fails /\ acts' = acts
      /\ Trouble /\ events' = events + 1 /\ connected' = FALSE /\ netStopped' = TRUE
      /\ Flush(Data) /\ UNCHANGED credits
  BY DEF Disconnect, credits
<1>3. events' \in 0 .. MaxTroubles
  <2>1. /\ fails \in 0 .. MaxTroubles /\ acts \in 0 .. MaxTroubles
        /\ events \in 0 .. MaxTroubles
    BY <1>1, Zenon DEF FlagsOK
  <2>. QED
    BY <1>2, <2>1, HtcAssumption DEF Trouble
<1>4. FlagsOK'
  BY <1>1, <1>2, <1>3, Zenon DEF FlagsOK
<1>5. Data \in SUBSET Eps
  BY DEF Data
<1>6. stop' = "no" => stop = "no"
  BY <1>2
<1>. QED
  BY <1>2, <1>4, <1>5, <1>6, FlushStep, Zenon

\* ar6000_connect_event keeps the invariant.
LEMMA ConnectStep ==
  ASSUME HtcInv, Connect
  PROVE  HtcInv'
<1>1. FlagsOK
  BY DEF HtcInv
<1>2. /\ hif' = hif /\ th' = th /\ active' = active /\ ctlFull' = ctlFull /\ stop' = stop
      /\ fails' = fails /\ acts' = acts /\ events' = events
      /\ connected' = TRUE /\ netStopped' = FALSE
      /\ Flush(Data) /\ UNCHANGED credits
  BY DEF Connect, credits, bounds
<1>3. FlagsOK'
  BY <1>1, <1>2, Zenon DEF FlagsOK
<1>4. Data \in SUBSET Eps
  BY DEF Data
<1>5. stop' = "no" => stop = "no"
  BY <1>2
<1>. QED
  BY <1>2, <1>3, <1>4, <1>5, FlushStep, Zenon

\* The flush of HTCStop keeps the invariant.
LEMMA StopFlushStep ==
  ASSUME HtcInv, StopFlush
  PROVE  HtcInv'
<1>1. FlagsOK
  BY DEF HtcInv
<1>2. /\ hif' = hif /\ th' = th /\ active' = active
      /\ netStopped' = netStopped /\ connected' = connected
      /\ fails' = fails /\ acts' = acts /\ events' = events
      /\ stop' = "done" /\ Flush(Eps) /\ UNCHANGED credits
  BY DEF StopFlush, credits, bounds
<1>3. ctlFull' = (ctlFull /\ q[Control] = << >>)
  BY Zenon DEF StopFlush
<1>4. ctlFull' \in BOOLEAN
  BY <1>3, Zenon
<1>5. stop' \in {"no", "flag", "masked", "done"}
  BY <1>2
<1>6. FlagsOK'
  BY <1>1, <1>2, <1>4, <1>5, Zenon DEF FlagsOK
<1>7. stop' = "no" => stop = "no"
  BY <1>2
<1>. QED
  BY <1>2, <1>6, <1>7, FlushStep, Zenon

\* A step that moves nothing.
LEMMA StillStep ==
  ASSUME HtcInv, UNCHANGED <<queues, credits, th, flow, bounds>>, FlagsOK',
         stop' = "no" => stop = "no"
  PROVE  HtcInv'
<1>1. ThreadsOK /\ OwnersOK /\ QueuesOK /\ CreditsOK /\ WaitsOK
  BY DEF HtcInv
<1>2. /\ pkt' = pkt /\ q' = q /\ hif' = hif /\ cr' = cr /\ owed' = owed /\ lost' = lost
      /\ th' = th /\ acts' = acts
  BY DEF queues, credits, bounds
<1>3. ThreadsOK' /\ OwnersOK' /\ QueuesOK'
  BY <1>1, <1>2 DEF ThreadsOK, Shape, OwnersOK, QueuesOK
<1>4. CreditsOK'
  <2>1. Air' = Air
    BY <1>2 DEF Air, InAir
  <2>. QED
    BY <1>1, <1>2, <2>1, CreditsSame
<1>5. WaitsOK'
  <2>1. \A e \in Eps : cr.tx[e] <= cr.tx[e]
    BY <1>1 DEF CreditsOK, Balanced, Credits
  <2>2. \A e \in Eps : Covered(e) => Covered(e)'
    BY <1>2, CoveredSame
  <2>3. \A e \in Eps : Covered(e)' \/ q'[e] = << >> \/ Waits(e)' \/ (~Covered(e) /\ Tighter(e))
    BY <1>2, <2>1, <2>2 DEF Tighter
  <2>. QED
    BY <1>1, <1>4, <2>3, WaitsStep
<1>. QED
  BY <1>3, <1>4, <1>5 DEF HtcInv

\* HTCStop keeps the invariant.
LEMMA StopStep ==
  ASSUME HtcInv, Stop
  PROVE  HtcInv'
<1>1. ASSUME UNCHANGED <<queues, credits, th, flow, bounds>>, stop' \in {"flag", "masked"}
      PROVE  HtcInv'
  <2>1. FlagsOK
    BY DEF HtcInv
  <2>2. /\ active' = active /\ ctlFull' = ctlFull /\ netStopped' = netStopped
        /\ connected' = connected /\ fails' = fails /\ acts' = acts /\ events' = events
    BY <1>1 DEF credits, flow, bounds
  <2>3. stop' \in {"no", "flag", "masked", "done"} /\ (stop' = "no" => stop = "no")
    BY <1>1
  <2>4. FlagsOK'
    BY <2>1, <2>2, <2>3, Zenon DEF FlagsOK
  <2>. QED
    BY <1>1, <2>3, <2>4, StillStep, Zenon
<1>2. CASE StopFlag
  BY <1>1, <1>2 DEF StopFlag
<1>3. CASE StopMask
  BY <1>1, <1>3 DEF StopMask
<1>4. CASE StopFlush
  BY <1>4, StopFlushStep
<1>. QED
  BY <1>2, <1>3, <1>4 DEF Stop

\* A stuttering step.
LEMMA StutterStep ==
  ASSUME HtcInv, UNCHANGED vars
  PROVE  HtcInv'
<1>1. UNCHANGED <<queues, credits, th, flow, bounds>> /\ stop' = stop
  BY DEF vars, queues, credits, flow, bounds
<1>2. FlagsOK
  BY DEF HtcInv
<1>3. /\ active' = active /\ ctlFull' = ctlFull /\ netStopped' = netStopped
      /\ connected' = connected /\ fails' = fails /\ acts' = acts /\ events' = events
  BY <1>1 DEF credits, flow, bounds
<1>4. FlagsOK'
  BY <1>1, <1>2, <1>3, Zenon DEF FlagsOK
<1>. QED
  BY <1>1, <1>4, StillStep, Zenon

\* Every step keeps the invariant.
LEMMA NextKeeps ==
  ASSUME HtcInv, [Next]_vars
  PROVE  HtcInv'
<1>1. ASSUME NEW t \in Threads, Thread(t) PROVE HtcInv'
  BY <1>1, TryStep, IssueStep, CallbackStep, CheckStep DEF Thread
<1>2. ASSUME NEW t \in Procs, NEW x \in Packets, ControlTx(t, x) PROVE HtcInv'
  BY <1>2, ControlTxStep
<1>3. ASSUME NEW x \in Packets, DataTx(x) PROVE HtcInv'
  BY <1>3, DataTxStep
<1>4. CASE IoDone
  BY <1>4, IoDoneStep
<1>5. CASE SomeReport
  BY <1>5, ReportStep DEF SomeReport
<1>6. CASE WalkOn
  BY <1>6, WalkOnStep
<1>7. ASSUME NEW e \in Data, ActivityChange(e) PROVE HtcInv'
  BY <1>7, ActivityChangeStep
<1>8. CASE Disconnect
  BY <1>8, DisconnectStep
<1>9. CASE Connect
  BY <1>9, ConnectStep
<1>10. CASE Stop
  BY <1>10, StopStep
<1>11. CASE UNCHANGED vars
  BY <1>11, StutterStep
<1>. QED
  BY <1>1, <1>2, <1>3, <1>4, <1>5, <1>6, <1>7, <1>8, <1>9, <1>10, <1>11 DEF Next

\* HTC starts with the credits of one message at the control endpoint, the others free.
LEMMA InitInv ==
  ASSUME Init
  PROVE  HtcInv
<1>1. /\ pkt = [x \in Packets |-> "free"] /\ q = [e \in Eps |-> << >>] /\ hif = << >>
      /\ cr = [tx |-> [e \in Eps |-> IF e = Control THEN PerMax ELSE 0],
               asg |-> [e \in Eps |-> IF e = Control THEN PerMax ELSE 0],
               free |-> Total - PerMax]
      /\ owed = [e \in Eps |-> 0] /\ lost = [e \in Eps |-> 0] /\ active = {Control}
      /\ th = [t \in Threads |-> Idle]
  BY DEF Init
<1>2. << >> \in Seq(Packets) /\ NoRepeats(<< >>) /\ Elems(<< >>) = {}
  BY DEF NoRepeats, Elems
<1>3. ThreadsOK
  BY <1>1, IdleIs DEF ThreadsOK
<1>4. OwnersOK
  BY <1>1, IdleIs, ConstantFacts DEF OwnersOK
<1>5. QueuesOK
  <2>1. \A x \in Packets : EpOf[x] \in Eps
    BY ConstantFacts
  <2>2. "free" \in Places /\ "free" # "queued" /\ "free" # "hif"
    BY DEF Places
  <2>. QED
    BY <1>1, <1>2, <2>1, <2>2 DEF QueuesOK
<1>6. /\ Control \in Eps /\ IsFiniteSet(Eps) /\ PerMax \in Nat /\ Total \in Nat
      /\ PerMax < Total
  BY ConstantFacts
<1>. DEFINE f == [e \in Eps |-> IF e = Control THEN PerMax ELSE 0]
            z == [e \in Eps |-> 0]
<1>7. Rest = z
  <2>1. Air = {}
    BY <1>1, IdleIs DEF Air, InAir
  <2>2. ASSUME NEW e \in Eps PROVE owed[e] + UnderWay(e) + lost[e] = 0
    <3>1. UnderWay(e) = Flying({}, e)
      BY <2>1, UnderWayIs
    <3>2. {x \in {} : EpOf[x] = e} = {}
      OBVIOUS
    <3>3. Flying({}, e) = 0
      BY <3>2, SumEmpty DEF Flying
    <3>. QED
      BY <1>1, <3>1, <3>3
  <2>. QED
    BY <2>2 DEF Rest
<1>8. SumFunctionOnSet(z, Eps) = 0
  <2>1. \A e \in Eps : z[e] = 0
    OBVIOUS
  <2>. HIDE DEF z
  <2>. QED
    BY <1>6, <2>1, SumZero
<1>9. SumFunctionOnSet(f, Eps) = PerMax
  <2>1. z \in [Eps -> Int] /\ z[Control] = 0 /\ PerMax \in Int
    BY <1>6
  <2>2. f = Changed(z, Control, PerMax)
    BY DEF Changed
  <2>. HIDE DEF f, z
  <2>3. SumFunctionOnSet(Changed(z, Control, PerMax), Eps)
          = SumFunctionOnSet(z, Eps) + (PerMax - z[Control])
    BY <1>6, <2>1, SumExcept, Zenon
  <2>. QED
    BY <1>6, <1>8, <2>1, <2>2, <2>3
<1>10. Balanced(cr, Rest)
  <2>1. cr.tx = f /\ cr.asg = f /\ cr.free = Total - PerMax
    BY <1>1
  <2>2. f \in [Eps -> Int] /\ z \in [Eps -> Int]
    BY <1>6
  <2>3. cr \in Credits
    <3>1. Total - PerMax \in Int
      BY <1>6
    <3>2. cr = [tx |-> f, asg |-> f, free |-> Total - PerMax]
      BY <1>1
    <3>. HIDE DEF f
    <3>. QED
      BY <2>2, <3>1, <3>2 DEF Credits
  <2>4. \A e \in Eps : Fair(cr, z, e)
    BY <1>6, <2>1 DEF Fair
  <2>. HIDE DEF f, z
  <2>5. Worth(cr, z) = Total
    BY <1>6, <1>8, <1>9, <2>1 DEF Worth
  <2>6. 0 <= cr.free
    BY <1>6, <2>1
  <2>. QED
    BY <1>7, <2>2, <2>3, <2>4, <2>5, <2>6 DEF Balanced
<1>11. CreditsOK
  BY <1>1, <1>10 DEF CreditsOK
<1>12. WaitsOK
  BY <1>1 DEF WaitsOK
<1>13. FlagsOK
  <2>1. 0 \in 0 .. MaxTroubles
    BY HtcAssumption
  <2>. QED
    BY <1>6, <2>1 DEF Init, FlagsOK
<1>. QED
  BY <1>3, <1>4, <1>5, <1>11, <1>12, <1>13 DEF HtcInv

\* Threads, owners, queues, credits and waiting packets are as HtcInv says in every state of
\* the transmission, for any endpoints, packets, costs, processes and credits.
THEOREM HtcInvariant == Spec => []HtcInv
<1>. QED
  BY InitInv, NextKeeps, PTL DEF Spec

\* No credit count exceeds the total: they are parts of one sum.
LEMMA CreditBounds ==
  ASSUME CreditsOK
  PROVE  /\ cr.tx \in [Eps -> 0 .. Total] /\ cr.asg \in [Eps -> 0 .. Total]
         /\ cr.free \in 0 .. Total
         /\ owed \in [Eps -> 0 .. Total] /\ lost \in [Eps -> 0 .. Total]
<1>. DEFINE s == SumFunctionOnSet(cr.tx, Eps)
            r == SumFunctionOnSet(Rest, Eps)
            h == [e \in Eps |-> cr.tx[e] + Rest[e]]
            n == SumFunctionOnSet(h, Eps)
<1>1. /\ owed \in [Eps -> Nat] /\ lost \in [Eps -> Nat]
      /\ cr.tx \in [Eps -> Int] /\ cr.asg \in [Eps -> Int] /\ cr.free \in Int
      /\ Rest \in [Eps -> Int] /\ 0 <= cr.free /\ cr.free + s + r = Total
      /\ \A e \in Eps : Fair(cr, Rest, e)
  BY DEF CreditsOK, Balanced, Credits, Worth
<1>2. IsFiniteSet(Eps) /\ Total \in Nat
  BY ConstantFacts
<1>3. ASSUME NEW e \in Eps
      PROVE  /\ cr.tx[e] \in Nat /\ cr.asg[e] \in Nat /\ Rest[e] \in Nat
             /\ cr.asg[e] <= cr.tx[e] + Rest[e]
  <2>1. Fair(cr, Rest, e) /\ cr.tx[e] \in Int /\ cr.asg[e] \in Int /\ Rest[e] \in Int
    BY <1>1
  <2>. QED
    BY <2>1 DEF Fair
<1>4. NatOn(cr.tx, Eps) /\ NatOn(Rest, Eps) /\ IntOn(cr.tx, Eps) /\ IntOn(Rest, Eps)
  BY <1>3 DEF NatOn, IntOn
<1>5. NatOn(h, Eps) /\ AddsTo(cr.tx, Rest, h, Eps)
  BY <1>3 DEF NatOn, AddsTo
<1>6. \A e \in Eps : h[e] = cr.tx[e] + Rest[e]
  OBVIOUS
<1>. HIDE DEF h
<1>7. n = s + r
  <2>1. SumFunctionOnSet(h, Eps) = SumFunctionOnSet(cr.tx, Eps) + SumFunctionOnSet(Rest, Eps)
    BY <1>2, <1>4, <1>5, SumPlus
  <2>. QED
    BY <2>1
<1>8. n \in Nat /\ s \in Nat /\ r \in Nat /\ \A e \in Eps : h[e] <= n
  BY <1>2, <1>4, <1>5, SumNat
<1>. HIDE DEF n, s, r
<1>9. n <= Total /\ cr.free \in 0 .. Total
  BY <1>1, <1>2, <1>7, <1>8
<1>10. ASSUME NEW e \in Eps
       PROVE  /\ cr.tx[e] \in 0 .. Total /\ cr.asg[e] \in 0 .. Total
              /\ owed[e] \in 0 .. Total /\ lost[e] \in 0 .. Total
  <2>1. h[e] <= n /\ h[e] = cr.tx[e] + Rest[e]
    BY <1>6, <1>8
  <2>2. /\ cr.tx[e] \in Nat /\ cr.asg[e] \in Nat /\ Rest[e] \in Nat
        /\ cr.asg[e] <= cr.tx[e] + Rest[e]
    BY <1>3
  <2>3. Rest[e] = owed[e] + UnderWay(e) + lost[e]
    BY DEF Rest
  <2>4. owed[e] \in Nat /\ lost[e] \in Nat
    BY <1>1
  <2>5. UnderWay(e) \in Nat
    <3>1. Air \in SUBSET Packets
      BY DEF Air
    <3>2. UnderWay(e) = Flying(Air, e)
      BY UnderWayIs
    <3>. QED
      BY <3>1, <3>2, FlyingType
  <2>. QED
    BY <1>2, <1>8, <1>9, <2>1, <2>2, <2>3, <2>4, <2>5
<1>. QED
  BY <1>1, <1>9, <1>10

\* Two names for the elements of a sequence.
LEMMA ElemsAreRange ==
  ASSUME NEW S, NEW s \in Seq(S)
  PROVE  Range(s) = Elems(s) /\ (NoRepeats(s) => IsInjective(s))
  BY DEF Range, Elems, NoRepeats, IsInjective

\* The invariant gives TypeOK.
LEMMA TypesFollow ==
  ASSUME HtcInv
  PROVE  TypeOK
<1>1. ThreadsOK /\ OwnersOK /\ FlagsOK /\ QueuesOK /\ CreditsOK
  BY DEF HtcInv
<1>2. pkt \in [Packets -> {"free", "queued", "taken", "hif"}]
  BY <1>1 DEF QueuesOK, Places
<1>3. ASSUME NEW e \in Eps
      PROVE  IsInjective(q[e]) /\ \A i \in DOMAIN q[e] : EpOf[q[e][i]] = e
  <2>1. q[e] \in Seq(Packets) /\ NoRepeats(q[e]) /\ \A x \in Elems(q[e]) : EpOf[x] = e
    BY <1>1 DEF QueuesOK
  <2>2. IsInjective(q[e])
    BY <2>1, ElemsAreRange
  <2>3. \A i \in DOMAIN q[e] : q[e][i] \in Elems(q[e])
    BY DEF Elems
  <2>. QED
    BY <2>1, <2>2, <2>3
<1>4. /\ cr.tx \in [Eps -> 0 .. Total] /\ cr.asg \in [Eps -> 0 .. Total]
      /\ cr.free \in 0 .. Total
      /\ owed \in [Eps -> 0 .. Total] /\ lost \in [Eps -> 0 .. Total]
  BY <1>1, CreditBounds
<1>5. active \subseteq Eps /\ Control \in active
  BY <1>1, Zenon DEF FlagsOK
<1>6. ASSUME NEW t \in Threads
      PROVE  /\ th[t].at \in {"idle", "check", "try", "issue", "full", "avail", "walk"}
             /\ th[t].ep \in Eps \cup {None} /\ th[t].pkt \in Packets \cup {None}
  <2>1. th[t] \in Frames
    BY <1>1 DEF ThreadsOK
  <2>. QED
    BY <2>1 DEF Frames, Ats
<1>7. {ctlFull, netStopped, connected} \subseteq BOOLEAN
  BY <1>1, Zenon DEF FlagsOK
<1>8. stop \in {"no", "flag", "masked", "done"}
  BY <1>1, Zenon DEF FlagsOK
<1>9. {fails, acts, events} \subseteq 0 .. MaxTroubles
  <2>1. /\ fails \in 0 .. MaxTroubles /\ acts \in 0 .. MaxTroubles
        /\ events \in 0 .. MaxTroubles
    BY <1>1, Zenon DEF FlagsOK
  <2>. QED
    BY <2>1
<1>10. ASSUME NEW x \in Packets
       PROVE  /\ pkt[x] = "queued" <=> x \in Range(q[EpOf[x]])
              /\ pkt[x] = "hif" <=> x \in Range(hif)
  <2>1. EpOf[x] \in Eps
    BY ConstantFacts
  <2>2. q[EpOf[x]] \in Seq(Packets) /\ hif \in Seq(Packets)
    BY <1>1, <2>1 DEF QueuesOK
  <2>3. Range(q[EpOf[x]]) = Elems(q[EpOf[x]]) /\ Range(hif) = Elems(hif)
    BY <2>2, ElemsAreRange
  <2>. QED
    BY <1>1, <2>3 DEF QueuesOK
<1>11. ASSUME NEW x \in Packets
       PROVE  Cardinality({t \in Threads : th[t].pkt = x}) = IF pkt[x] = "taken" THEN 1 ELSE 0
  <2>. DEFINE A == {t \in Threads : th[t].pkt = x}
  <2>1. CASE pkt[x] = "taken"
    <3>1. PICK t \in Threads : th[t].pkt = x
      BY <1>1, <2>1 DEF OwnersOK
    <3>2. A = {t}
      BY <1>1, <3>1 DEF OwnersOK
    <3>. HIDE DEF A
    <3>3. Cardinality(A) = 1
      BY <3>2, FS_Singleton
    <3>. QED
      BY <2>1, <3>3 DEF A
  <2>2. CASE pkt[x] # "taken"
    <3>1. A = {}
      BY <1>1, <2>2 DEF OwnersOK
    <3>. HIDE DEF A
    <3>2. Cardinality(A) = 0
      BY <3>1, FS_EmptySet
    <3>. QED
      BY <2>2, <3>2 DEF A
  <2>. QED
    BY <2>1, <2>2
<1>12. \A x \in Packets :
         /\ pkt[x] = "queued" <=> x \in Range(q[EpOf[x]])
         /\ pkt[x] = "hif" <=> x \in Range(hif)
         /\ Cardinality({t \in Threads : th[t].pkt = x}) = IF pkt[x] = "taken" THEN 1 ELSE 0
  BY <1>10, <1>11
<1>. QED
  BY <1>2, <1>3, <1>4, <1>5, <1>6, <1>7, <1>8, <1>9, <1>12, Zenon DEF TypeOK

\* Every packet is in one place, once, however senders, the walk over the queues, errors and
\* flushes interleave: HTCTrySend, HTCIssueSend and HTCFlushEndpointTX never own the same one.
THEOREM TypesAndPlaces == Spec => []TypeOK
<1>. QED
  BY HtcInvariant, TypesFollow, PTL

\* The invariant gives CreditsConserved.
LEMMA ConservationFollows ==
  ASSUME HtcInv
  PROVE  CreditsConserved
<1>. DEFINE s == SumFunctionOnSet(cr.tx, Eps)
            r == SumFunctionOnSet(Rest, Eps)
            h == [e \in Eps |-> Held(e)]
            n == SumFunctionOnSet(h, Eps)
<1>1. CreditsOK
  BY DEF HtcInv
<1>2. /\ owed \in [Eps -> Nat] /\ lost \in [Eps -> Nat]
      /\ cr.tx \in [Eps -> Int] /\ cr.asg \in [Eps -> Int] /\ cr.free \in Int
      /\ Rest \in [Eps -> Int] /\ cr.free + s + r = Total
      /\ \A e \in Eps : Fair(cr, Rest, e)
  BY <1>1 DEF CreditsOK, Balanced, Credits, Worth
<1>3. IsFiniteSet(Eps)
  BY ConstantFacts
<1>4. ASSUME NEW e \in Eps
      PROVE  Held(e) = cr.tx[e] + Rest[e]
  <2>1. Rest[e] = owed[e] + UnderWay(e) + lost[e]
    BY DEF Rest
  <2>2. UnderWay(e) \in Nat
    <3>1. Air \in SUBSET Packets
      BY DEF Air
    <3>2. UnderWay(e) = Flying(Air, e)
      BY UnderWayIs
    <3>. QED
      BY <3>1, <3>2, FlyingType
  <2>3. owed[e] \in Nat /\ lost[e] \in Nat /\ cr.tx[e] \in Int
    BY <1>2
  <2>. QED
    BY <2>1, <2>2, <2>3 DEF Held
<1>5. IntOn(cr.tx, Eps) /\ IntOn(Rest, Eps)
  BY <1>2 DEF IntOn
<1>6. AddsTo(cr.tx, Rest, h, Eps)
  BY <1>4 DEF AddsTo
<1>. HIDE DEF h
<1>7. n = s + r
  <2>1. SumFunctionOnSet(h, Eps) = SumFunctionOnSet(cr.tx, Eps) + SumFunctionOnSet(Rest, Eps)
    BY <1>3, <1>5, <1>6, SumPlus
  <2>. QED
    BY <2>1
<1>8. s \in Int /\ r \in Int
  BY <1>3, <1>5, SumType
<1>9. cr.free + n = Total
  <2>. HIDE DEF n, s, r
  <2>. QED
    BY <1>2, <1>7, <1>8
<1>10. cr.free + SumFunctionOnSet([e \in Eps |-> Held(e)], Eps) = Total
  BY <1>9 DEF h
<1>11. \A e \in Eps : cr.tx[e] <= cr.asg[e] /\ cr.asg[e] <= Held(e)
  BY <1>2, <1>4 DEF Fair
<1>. QED
  BY <1>10, <1>11, Zenon DEF CreditsConserved

\* credit_dist.c neither makes nor loses a credit: free credits, credits at hand, under way,
\* at the target and lost with failed requests add up to the total in every state.
THEOREM CreditsKept == Spec => []CreditsConserved
<1>. QED
  BY HtcInvariant, ConservationFollows, PTL

\* The invariant gives NotStranded.
LEMMA NoneStranded ==
  ASSUME HtcInv
  PROVE  NotStranded
<1>1. ThreadsOK /\ WaitsOK
  BY DEF HtcInv
<1>. SUFFICES ASSUME Quiet, stop = "no", NEW e \in Eps, q[e] # << >>
              PROVE  Waits(e)
  BY DEF NotStranded, Waits
<1>2. \A t \in Threads : th[t] = Idle
  BY <1>1 DEF Quiet, ThreadsOK, Shape
<1>3. Elems(<< >>) = {}
  BY DEF Elems
<1>4. ~Covered(e)
  BY <1>2, <1>3, IdleIs DEF Covered, Covers
<1>. QED
  BY <1>1, <1>4 DEF WaitsOK

\* When no thread is at work, a packet HTCTrySend has left in its queue lacks credits, and a
\* data endpoint has found the free pool empty: no interleaving of the walk over the queues
\* with senders leaves a packet behind that could be sent.
THEOREM NothingStranded == Spec => []NotStranded
<1>. QED
  BY HtcInvariant, NoneStranded, PTL
=============================================================================
