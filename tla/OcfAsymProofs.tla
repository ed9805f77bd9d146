---------------------------- MODULE OcfAsymProofs ----------------------------
(***************************************************************************)
(* Theorems about OcfAsym for any sets of operations, threads and devices:  *)
(* its type invariant, that an operation has one owner and is never lost,   *)
(* that a slot in cleanup still counts one, and that no crypto_proc sleeps  *)
(* on an operation it could submit.                                        *)
(*                                                                         *)
(* IInv is what they need to be inductive.  What is on a queue, on a ring   *)
(* or in a thread's hands is busy; a client that is ready has nothing       *)
(* under way; and crp_ret_kq never holds an operation whose client is       *)
(* called back at once, for such a client frees its operation as soon as    *)
(* it is done.                                                             *)
(***************************************************************************)
EXTENDS OcfAsym, OcfQueueProofs

HandsFull ==
  /\ \A k \in Kops : krp[k] = k
  /\ \A t \in Threads : Holds(t) => krp[t] \in busy
  /\ \A t \in Threads : pc[t] = "kreturn" => krp[t] \notin CbImm

PlacesBusy ==
  /\ Elems(krpQ) \subseteq busy /\ Elems(retKQ) \subseteq busy /\ OnRing \subseteq busy
  /\ Elems(retKQ) \cap CbImm = {}
  /\ \A d, e \in Devs : d # e => ring[d] \cap ring[e] = {}

ReadyClean == \A k \in Kops : pc[k] = "ready" => k \notin busy /\ ~done[k]

IInv == TypeOK /\ KopOneOwner /\ KopNeverLost /\ HandsFull /\ PlacesBusy /\ ReadyClean

-----------------------------------------------------------------------------
(* Threads and slots. *)

LEMMA ThreadKinds ==
  /\ Kops \subseteq Threads /\ Procs \subseteq Threads
  /\ Rets \subseteq Threads /\ Devs \subseteq Threads
  /\ \A t \in Procs \cup Rets \cup Devs : t \notin Kops
  /\ \A k \in Kops : k \notin Rets /\ k # None
BY KindsAssumption DEF Threads

LEMMA WakeUpMoves ==
  ASSUME TypeOK, NEW S
  PROVE  /\ WakeUp(S, pc) \in [Threads -> Labels]
         /\ \A t \in Threads : \/ WakeUp(S, pc)[t] = pc[t]
                               \/ pc[t] = "asleep" /\ WakeUp(S, pc)[t] = "wait"
BY DEF TypeOK, WakeUp, Labels

LEMMA BackLabels ==
  ASSUME NEW t \in Threads
  PROVE  Back(t) \in {"drain", "harvest", "kaccepted", "kend"}
BY Zenon DEF Back

(* cc_koperations is unsigned. *)
LEMMA CountsWrap ==
  ASSUME NEW n \in Nat
  PROVE  /\ Less(n) \in Nat /\ Less(n) < CountMod
         /\ More(n) \in Nat /\ More(n) < CountMod
<1>1. \A a \in Int, b \in Nat \ {0} : a % b \in 0 .. b - 1
  OBVIOUS
<1>2. CountMod \in Nat \ {0} /\ n - 1 \in Int /\ n + 1 \in Int
  BY AsymAssumption
<1>3. Less(n) \in 0 .. CountMod - 1 /\ More(n) \in 0 .. CountMod - 1
  BY <1>1, <1>2 DEF Less, More
<1> QED BY <1>2, <1>3

(* A slot as the framework leaves it. *)
GoodSlot(s) == s \in Slot /\ s.kops < CountMod

LEMMA GoodSlots ==
  ASSUME NEW s, GoodSlot(s)
  PROVE  /\ GoodSlot(Zeroed) /\ GoodSlot(Finis(s)) /\ GoodSlot(Remove(s))
         /\ GoodSlot([s EXCEPT !.kops = Less(@)]) /\ GoodSlot([s EXCEPT !.kops = More(@)])
         /\ GoodSlot(Uncounted(s))
         /\ \A d \in Devs : GoodSlot([s EXCEPT !.dev = d, !.algs = Algs])
<1>1. GoodSlot(Zeroed)
  BY AsymAssumption DEF GoodSlot, Slot, Zeroed
<1>2. s.kops \in Nat /\ s.sessions \in Nat
  BY DEF GoodSlot, Slot
<1>3. GoodSlot(Finis(s))
  BY <1>1, <1>2 DEF GoodSlot, Slot, Zeroed, Finis
<1>4. \A x : GoodSlot(x) => GoodSlot(Remove(x))
  BY <1>1 DEF Remove
<1>5. GoodSlot([s EXCEPT !.kops = Less(@)]) /\ GoodSlot([s EXCEPT !.kops = More(@)])
  BY <1>2, CountsWrap DEF GoodSlot, Slot
<1>6. GoodSlot(Uncounted(s))
  BY <1>4, <1>5 DEF Uncounted
<1>7. \A d \in Devs : GoodSlot([s EXCEPT !.dev = d, !.algs = Algs])
  BY DEF GoodSlot, Slot
<1> QED BY <1>1, <1>3, <1>4, <1>5, <1>6, <1>7

GoodTable(tab) == tab \in [Hids -> Slot] /\ \A h \in Hids : tab[h].kops < CountMod

LEMMA OneSlotChanges ==
  ASSUME TypeOK, NEW h, NEW s, h \in Hids => GoodSlot(s)
  PROVE  GoodTable([table EXCEPT ![h] = s])
BY DEF TypeOK, GoodSlot, GoodTable

LEMMA SlotsAreGood ==
  ASSUME TypeOK, NEW h \in Hids
  PROVE  GoodSlot(table[h])
BY DEF TypeOK, GoodSlot

-----------------------------------------------------------------------------
(* The initial states. *)

LEMMA StartLabels ==
  \A t \in Threads : Start(t) \in {"ready", "scan", "harvest", "idle"}
BY Zenon DEF Start, Threads

LEMMA InitIInv == Init => IInv
<1> SUFFICES ASSUME Init PROVE IInv
  OBVIOUS
<1>1. \A t \in Threads : pc[t] \in {"ready", "scan", "harvest", "idle"}
  BY StartLabels DEF Init
<1>2. \A t \in Threads : ~Holds(t) /\ pc[t] # "kreturn"
  BY <1>1 DEF Holds, HoldsPending, HoldsDone
<1>3. Elems(krpQ) = {} /\ Elems(retKQ) = {} /\ OnRing = {}
  BY DEF Init, Elems, OnRing
<1>4. TypeOK
  <2>1. pc \in [Threads -> Labels]
    BY StartLabels DEF Init, Labels
  <2>2. krp \in [Threads -> Kops \cup {None}]
    <3>1. \A t \in Threads : (IF t \in Kops THEN t ELSE None) \in Kops \cup {None}
      OBVIOUS
    <3>2. krp = [t \in Threads |-> IF t \in Kops THEN t ELSE None]
      BY DEF Init
    <3>3. [t \in Threads |-> IF t \in Kops THEN t ELSE None] \in [Threads -> Kops \cup {None}]
      BY <3>1
    <3> QED BY <3>2, <3>3, Zenon
  <2>3. table \in [Hids -> Slot] /\ \A h \in Hids : table[h].kops < CountMod
    BY AsymAssumption DEF Init, Zeroed, Slot
  <2>4. 0 \in Hids
    BY AsymAssumption DEF Hids
  <2>5. /\ krpQ \in Seq(Kops) /\ retKQ \in Seq(Kops)
        /\ allKQBlocked \in BOOLEAN /\ kqBlocked \subseteq Hids
        /\ ring \in [Devs -> SUBSET Kops] /\ needWake \subseteq Devs
        /\ hid \in [Kops -> Hids] /\ busy \subseteq Kops
        /\ status \in [Kops -> {"ok", "error", "nodev", "restart"}]
        /\ done \in [Kops -> BOOLEAN]
    <3>1. /\ krpQ = <<>> /\ retKQ = <<>> /\ allKQBlocked = FALSE
          /\ kqBlocked = {} /\ needWake = {} /\ busy = {}
          /\ ring = [d \in Devs |-> {}] /\ hid = [k \in Kops |-> 0]
          /\ status = [k \in Kops |-> "ok"] /\ done = [k \in Kops |-> FALSE]
      BY DEF Init
    <3>2. ring \in [Devs -> SUBSET Kops] /\ hid \in [Kops -> Hids]
      BY <2>4, <3>1
    <3>3. /\ status \in [Kops -> {"ok", "error", "nodev", "restart"}]
          /\ done \in [Kops -> BOOLEAN]
      BY <3>1
    <3>4. krpQ \in Seq(Kops) /\ retKQ \in Seq(Kops)
      BY <3>1, EmptySeq
    <3>5. allKQBlocked \in BOOLEAN
      BY <3>1, Zenon
    <3> QED BY <3>1, <3>2, <3>3, <3>4, <3>5
  <2> QED BY <2>1, <2>2, <2>3, <2>5 DEF TypeOK
<1>5. KopOneOwner
  BY <1>2, <1>3 DEF KopOneOwner, NoRepeats, Init
<1>6. KopNeverLost
  BY DEF KopNeverLost, Init
<1>7. HandsFull
  BY <1>2, ThreadKinds DEF HandsFull, Init
<1>8. PlacesBusy
  BY <1>3 DEF PlacesBusy, Init
<1>9. ReadyClean
  BY ThreadKinds DEF ReadyClean, Init
<1> QED BY <1>4, <1>5, <1>6, <1>7, <1>8, <1>9 DEF IInv

-----------------------------------------------------------------------------
(* What one thread's step leaves of the others: some may be woken.          *)

StepOf(t) ==
  \A u \in Threads \ {t} :
    /\ krp'[u] = krp[u]
    /\ pc'[u] = pc[u] \/ (pc[u] = "asleep" /\ pc'[u] = "wait")

LEMMA OthersStay ==
  ASSUME NEW t, StepOf(t), NEW u \in Threads \ {t}
  PROVE  /\ HoldsPending(u)' <=> HoldsPending(u)
         /\ HoldsDone(u)' <=> HoldsDone(u)
         /\ Holds(u)' <=> Holds(u)
         /\ krp'[u] = krp[u]
         /\ pc'[u] = "kreturn" <=> pc[u] = "kreturn"
         /\ pc'[u] = "ready" <=> pc[u] = "ready"
BY DEF StepOf, Holds, HoldsPending, HoldsDone

(* The operation in a thread's hands keeps its client. *)
Steady(t) ==
  /\ StepOf(t)
  /\ \A k \in Kops : krp'[k] = k
  /\ pc'[t] = "ready" => pc[t] = "ready"
  /\ pc'[t] = "kreturn" => krp'[t] \notin CbImm

Places == /\ KopOneOwner /\ KopNeverLost
          /\ HandsFull /\ PlacesBusy /\ ReadyClean

(* A step that moves no operation. *)
LEMMA NothingMoves ==
  ASSUME IInv, TypeOK', NoOops, NEW t \in Threads, Steady(t),
         UNCHANGED <<krpQ, retKQ, ring, done, busy>>,
         HoldsPending(t)' <=> HoldsPending(t),
         HoldsDone(t)' <=> HoldsDone(t),
         Holds(t) => krp'[t] = krp[t]
  PROVE  Places'
<1> USE DEF Steady
<1>1. Elems(krpQ)' = Elems(krpQ) /\ Elems(retKQ)' = Elems(retKQ) /\ OnRing' = OnRing
  BY DEF OnRing
<1>2. Holds(t)' <=> Holds(t)
  BY DEF Holds
<1>3. \A u \in Threads : /\ Holds(u)' <=> Holds(u)
                         /\ HoldsDone(u)' <=> HoldsDone(u)
                         /\ Holds(u) => krp'[u] = krp[u]
  BY OthersStay, <1>2
<1>4. \A u \in Threads \ {t} : /\ pc'[u] = "kreturn" <=> pc[u] = "kreturn"
                               /\ pc'[u] = "ready" <=> pc[u] = "ready"
                               /\ krp'[u] = krp[u]
  BY OthersStay
<1>5. KopOneOwner'
  BY <1>1, <1>3 DEF IInv, KopOneOwner, NoRepeats
<1>6. KopNeverLost'
  BY <1>1, <1>3 DEF IInv, KopNeverLost
<1>7. HandsFull'
  BY <1>3, <1>4 DEF IInv, HandsFull
<1>8. PlacesBusy'
  BY <1>1 DEF IInv, PlacesBusy
<1>9. ReadyClean'
  BY <1>4, ThreadKinds DEF IInv, ReadyClean
<1> QED BY <1>5, <1>6, <1>7, <1>8, <1>9 DEF Places

(* A thread gives the operation in its hands to a queue, to a driver or, by *)
(* the callback, back to its client; or it stops on a null pointer.         *)
LEMMA Gives ==
  ASSUME IInv, TypeOK', NoOops, NEW t \in Threads, Steady(t), UNCHANGED done,
         Holds(t), ~Holds(t)',
         \/ /\ UNCHANGED <<retKQ, ring, busy>> /\ HoldsPending(t)
            /\ Elems(krpQ)' = Elems(krpQ) \cup {krp[t]} /\ NoRepeats(krpQ)'
         \/ /\ UNCHANGED <<krpQ, ring, busy>> /\ HoldsDone(t) /\ krp[t] \notin CbImm
            /\ Elems(retKQ)' = Elems(retKQ) \cup {krp[t]} /\ NoRepeats(retKQ)'
         \/ /\ UNCHANGED <<krpQ, retKQ, busy>> /\ HoldsPending(t)
            /\ \E d \in Devs : ring' = [ring EXCEPT ![d] = @ \cup {krp[t]}]
         \/ UNCHANGED <<krpQ, retKQ, ring>> /\ busy' = busy \ {krp[t]}
         \/ UNCHANGED <<krpQ, retKQ, ring, busy>> /\ pc'[t] = "oops"
  PROVE  Places'
<1> DEFINE k == krp[t]
<1> USE DEF Steady
<1>1. \A u \in Threads \ {t} : /\ Holds(u)' <=> Holds(u)
                               /\ HoldsDone(u)' <=> HoldsDone(u)
                               /\ krp'[u] = krp[u]
                               /\ pc'[u] = "kreturn" <=> pc[u] = "kreturn"
                               /\ pc'[u] = "ready" <=> pc[u] = "ready"
  BY OthersStay
<1>2. /\ k \in busy /\ k \in Kops
      /\ k \notin Elems(krpQ) \cup Elems(retKQ) \cup OnRing
      /\ done[k] <=> HoldsDone(t)
      /\ \A u \in Threads \ {t} : Holds(u) => krp[u] # k
  BY DEF IInv, HandsFull, KopOneOwner, TypeOK
<1>3. HoldsDone(t) <=> ~HoldsPending(t)
  BY DEF Holds, HoldsPending, HoldsDone
<1>4. ReadyClean'
  BY <1>1, ThreadKinds DEF IInv, ReadyClean, TypeOK
<1>5. \/ busy' = busy \/ busy' = busy \ {k}
  OBVIOUS
<1>6. HandsFull'
  BY <1>1, <1>2, <1>5 DEF IInv, HandsFull
<1>7. CASE /\ UNCHANGED <<retKQ, ring, busy>> /\ HoldsPending(t)
           /\ Elems(krpQ)' = Elems(krpQ) \cup {k} /\ NoRepeats(krpQ)'
  <2>1. Elems(retKQ)' = Elems(retKQ) /\ OnRing' = OnRing
    BY <1>7 DEF OnRing
  <2>2. KopOneOwner'
    BY <1>1, <1>2, <1>3, <1>7, <2>1 DEF IInv, KopOneOwner, NoRepeats
  <2>3. KopNeverLost'
    BY <1>1, <1>2, <1>7, <2>1 DEF IInv, KopNeverLost
  <2>4. PlacesBusy'
    BY <1>2, <1>7, <2>1 DEF IInv, PlacesBusy
  <2> QED BY <1>4, <1>6, <2>2, <2>3, <2>4 DEF Places
<1>8. CASE /\ UNCHANGED <<krpQ, ring, busy>> /\ HoldsDone(t) /\ krp[t] \notin CbImm
           /\ Elems(retKQ)' = Elems(retKQ) \cup {k} /\ NoRepeats(retKQ)'
  <2>1. Elems(krpQ)' = Elems(krpQ) /\ OnRing' = OnRing
    BY <1>8 DEF OnRing
  <2>2. KopOneOwner'
    BY <1>1, <1>2, <1>3, <1>8, <2>1 DEF IInv, KopOneOwner, NoRepeats
  <2>3. KopNeverLost'
    BY <1>1, <1>2, <1>8, <2>1 DEF IInv, KopNeverLost
  <2>4. PlacesBusy'
    BY <1>2, <1>8, <2>1 DEF IInv, PlacesBusy
  <2> QED BY <1>4, <1>6, <2>2, <2>3, <2>4 DEF Places
<1>9. CASE /\ UNCHANGED <<krpQ, retKQ, busy>> /\ HoldsPending(t)
           /\ \E d \in Devs : ring' = [ring EXCEPT ![d] = @ \cup {k}]
  <2>1. PICK d \in Devs : ring' = [ring EXCEPT ![d] = @ \cup {k}]
    BY <1>9
  <2>2. ring'[d] = ring[d] \cup {k} /\ \A e \in Devs \ {d} : ring'[e] = ring[e]
    BY <2>1 DEF IInv, TypeOK
  <2>3. OnRing' = OnRing \cup {k}
    BY <2>2 DEF OnRing
  <2>4. Elems(krpQ)' = Elems(krpQ) /\ Elems(retKQ)' = Elems(retKQ)
    BY <1>9
  <2>5. KopOneOwner'
    BY <1>1, <1>2, <1>3, <1>9, <2>3, <2>4 DEF IInv, KopOneOwner, NoRepeats
  <2>6. KopNeverLost'
    BY <1>1, <1>2, <1>9, <2>3, <2>4 DEF IInv, KopNeverLost
  <2>7. PlacesBusy'
    <3>1. \A e \in Devs : k \notin ring[e]
      BY <1>2 DEF OnRing
    <3>2. \A e, f \in Devs : e # f => ring'[e] \cap ring'[f] = {}
      BY <3>1, <2>2 DEF IInv, PlacesBusy
    <3> QED BY <3>2, <1>2, <1>9, <2>3, <2>4 DEF IInv, PlacesBusy
  <2> QED BY <1>4, <1>6, <2>5, <2>6, <2>7 DEF Places
<1>10. CASE UNCHANGED <<krpQ, retKQ, ring>> /\ busy' = busy \ {k}
  <2>1. Elems(krpQ)' = Elems(krpQ) /\ Elems(retKQ)' = Elems(retKQ) /\ OnRing' = OnRing
    BY <1>10 DEF OnRing
  <2>2. KopOneOwner'
    BY <1>1, <1>2, <1>10, <2>1 DEF IInv, KopOneOwner, NoRepeats
  <2>3. KopNeverLost'
    BY <1>1, <1>2, <1>10, <2>1 DEF IInv, KopNeverLost
  <2>4. PlacesBusy'
    BY <1>2, <1>10, <2>1 DEF IInv, PlacesBusy
  <2> QED BY <1>4, <1>6, <2>2, <2>3, <2>4 DEF Places
<1>11. CASE UNCHANGED <<krpQ, retKQ, ring, busy>> /\ pc'[t] = "oops"
  <2>1. Elems(krpQ)' = Elems(krpQ) /\ Elems(retKQ)' = Elems(retKQ) /\ OnRing' = OnRing
    BY <1>11 DEF OnRing
  <2>2. KopOneOwner'
    BY <1>1, <1>2, <1>11, <2>1 DEF IInv, KopOneOwner, NoRepeats
  <2>3. KopNeverLost'
    BY <1>11 DEF KopNeverLost, NoOops
  <2>4. PlacesBusy'
    BY <1>11, <2>1 DEF IInv, PlacesBusy
  <2> QED BY <1>4, <1>6, <2>2, <2>3, <2>4 DEF Places
<1> QED BY <1>7, <1>8, <1>9, <1>10, <1>11

(* A thread takes an operation from a queue, from a driver or, when it is   *)
(* dispatched, from its client.                                            *)
LEMMA Takes ==
  ASSUME IInv, TypeOK', NoOops, NEW t \in Threads, Steady(t), UNCHANGED done,
         ~Holds(t), Holds(t)', NEW k \in Kops, krp'[t] = k,
         HoldsDone(t)' <=> done[k], pc'[t] # "kreturn", pc'[t] # "oops",
         \/ /\ UNCHANGED <<retKQ, ring, busy>> /\ k \in Elems(krpQ)
            /\ Elems(krpQ)' = Elems(krpQ) \ {k} /\ NoRepeats(krpQ)'
         \/ /\ UNCHANGED <<krpQ, ring, busy>> /\ k \in Elems(retKQ)
            /\ Elems(retKQ)' = Elems(retKQ) \ {k} /\ NoRepeats(retKQ)'
         \/ /\ UNCHANGED <<krpQ, retKQ, busy>>
            /\ \E d \in Devs : k \in ring[d] /\ ring' = [ring EXCEPT ![d] = @ \ {k}]
         \/ /\ UNCHANGED <<krpQ, retKQ, ring>>
            /\ k \notin busy /\ pc'[k] # "ready" /\ busy' = busy \cup {k}
  PROVE  Places'
<1> USE DEF Steady
<1>1. \A u \in Threads \ {t} : /\ Holds(u)' <=> Holds(u)
                               /\ HoldsDone(u)' <=> HoldsDone(u)
                               /\ krp'[u] = krp[u]
                               /\ pc'[u] = "kreturn" <=> pc[u] = "kreturn"
                               /\ pc'[u] = "ready" <=> pc[u] = "ready"
  BY OthersStay
<1>2. OnRing \subseteq busy /\ Elems(krpQ) \subseteq busy /\ Elems(retKQ) \subseteq busy
  BY DEF IInv, PlacesBusy
<1>3. busy' = busy \cup {k} \/ busy' = busy
  OBVIOUS
<1>4. k \in busy'
  BY <1>2 DEF OnRing
<1>5. \A u \in Threads \ {t} : Holds(u) => krp[u] # k
  BY DEF IInv, HandsFull, KopOneOwner, OnRing
<1>6. HandsFull'
  BY <1>1, <1>3, <1>4 DEF IInv, HandsFull
<1>7. ReadyClean'
  <2>1. ASSUME NEW j \in Kops, pc'[j] = "ready" PROVE j \notin busy' /\ ~done'[j]
    <3>1. pc[j] = "ready"
      BY <1>1, <2>1, ThreadKinds
    <3>2. j \notin busy /\ ~done[j]
      BY <3>1 DEF IInv, ReadyClean
    <3> QED BY <2>1, <3>2
  <2> QED BY <2>1 DEF ReadyClean
<1>8. CASE /\ UNCHANGED <<retKQ, ring, busy>> /\ k \in Elems(krpQ)
           /\ Elems(krpQ)' = Elems(krpQ) \ {k} /\ NoRepeats(krpQ)'
  <2>1. Elems(retKQ)' = Elems(retKQ) /\ OnRing' = OnRing
    BY <1>8 DEF OnRing
  <2>2. k \notin Elems(retKQ) /\ k \notin OnRing
    BY <1>8 DEF IInv, KopOneOwner
  <2>3. KopOneOwner'
    BY <1>1, <1>5, <1>8, <2>1, <2>2 DEF IInv, KopOneOwner, NoRepeats
  <2>4. KopNeverLost'
    BY <1>1, <1>8, <2>1 DEF IInv, KopNeverLost
  <2>5. PlacesBusy'
    BY <1>8, <2>1 DEF IInv, PlacesBusy
  <2> QED BY <1>6, <1>7, <2>3, <2>4, <2>5 DEF Places
<1>9. CASE /\ UNCHANGED <<krpQ, ring, busy>> /\ k \in Elems(retKQ)
           /\ Elems(retKQ)' = Elems(retKQ) \ {k} /\ NoRepeats(retKQ)'
  <2>1. Elems(krpQ)' = Elems(krpQ) /\ OnRing' = OnRing
    BY <1>9 DEF OnRing
  <2>2. k \notin Elems(krpQ) /\ k \notin OnRing
    BY <1>9 DEF IInv, KopOneOwner
  <2>3. KopOneOwner'
    BY <1>1, <1>5, <1>9, <2>1, <2>2 DEF IInv, KopOneOwner, NoRepeats
  <2>4. KopNeverLost'
    BY <1>1, <1>9, <2>1 DEF IInv, KopNeverLost
  <2>5. PlacesBusy'
    BY <1>9, <2>1 DEF IInv, PlacesBusy
  <2> QED BY <1>6, <1>7, <2>3, <2>4, <2>5 DEF Places
<1>10. CASE /\ UNCHANGED <<krpQ, retKQ, busy>>
            /\ \E d \in Devs : k \in ring[d] /\ ring' = [ring EXCEPT ![d] = @ \ {k}]
  <2>1. PICK d \in Devs : k \in ring[d] /\ ring' = [ring EXCEPT ![d] = @ \ {k}]
    BY <1>10
  <2>2. ring'[d] = ring[d] \ {k} /\ \A e \in Devs \ {d} : ring'[e] = ring[e]
    BY <2>1 DEF IInv, TypeOK
  <2>3. \A e \in Devs \ {d} : k \notin ring[e]
    BY <2>1 DEF IInv, PlacesBusy
  <2>4. OnRing' = OnRing \ {k} /\ k \in OnRing
    BY <2>1, <2>2, <2>3 DEF OnRing
  <2>5. Elems(krpQ)' = Elems(krpQ) /\ Elems(retKQ)' = Elems(retKQ)
    BY <1>10
  <2>6. k \notin Elems(krpQ) /\ k \notin Elems(retKQ)
    BY <2>4 DEF IInv, KopOneOwner
  <2>7. KopOneOwner'
    BY <1>1, <1>5, <1>10, <2>4, <2>5, <2>6 DEF IInv, KopOneOwner, NoRepeats
  <2>8. KopNeverLost'
    BY <1>1, <1>10, <2>4, <2>5 DEF IInv, KopNeverLost
  <2>9. PlacesBusy'
    BY <1>10, <2>2, <2>4, <2>5 DEF IInv, PlacesBusy
  <2> QED BY <1>6, <1>7, <2>7, <2>8, <2>9 DEF Places
<1>11. CASE /\ UNCHANGED <<krpQ, retKQ, ring>>
            /\ k \notin busy /\ pc'[k] # "ready" /\ busy' = busy \cup {k}
  <2>1. Elems(krpQ)' = Elems(krpQ) /\ Elems(retKQ)' = Elems(retKQ) /\ OnRing' = OnRing
    BY <1>11 DEF OnRing
  <2>2. k \notin Elems(krpQ) \cup Elems(retKQ) \cup OnRing
    BY <1>2, <1>11
  <2>3. KopOneOwner'
    BY <1>1, <1>5, <1>11, <2>1, <2>2 DEF IInv, KopOneOwner, NoRepeats
  <2>4. KopNeverLost'
    BY <1>1, <1>11, <2>1 DEF IInv, KopNeverLost
  <2>5. PlacesBusy'
    BY <1>11, <2>1 DEF IInv, PlacesBusy
  <2> QED BY <1>6, <1>7, <2>3, <2>4, <2>5 DEF Places
<1> QED BY <1>8, <1>9, <1>10, <1>11

-----------------------------------------------------------------------------
(* The steps that move no operation.                                       *)

USE DEF queueVars, driverVars, kopVars, threadVars

LEMMA InHand ==
  ASSUME IInv, NEW t \in Threads, Holds(t)
  PROVE  krp[t] \in Kops /\ krp[t] \in busy /\ hid[krp[t]] \in Hids
BY DEF IInv, TypeOK, HandsFull

LEMMA GotoMoves ==
  ASSUME TypeOK, NEW t \in Threads, NEW l \in Labels,
         Goto(t, l) \/ \E S : pc' = [WakeUp(S, pc) EXCEPT ![t] = l]
  PROVE  /\ pc' \in [Threads -> Labels] /\ pc'[t] = l
         /\ \A u \in Threads \ {t} :
              pc'[u] = pc[u] \/ (pc[u] = "asleep" /\ pc'[u] = "wait")
<1>1. CASE Goto(t, l)
  BY <1>1 DEF Goto, TypeOK
<1>2. CASE \E S : pc' = [WakeUp(S, pc) EXCEPT ![t] = l]
  BY <1>2, WakeUpMoves
<1> QED BY <1>1, <1>2

(* A thread moves on and nobody's hands change. *)
LEMMA SteadyGoto ==
  ASSUME IInv, NEW t \in Threads, NEW l \in Labels \ {"ready", "kreturn"},
         UNCHANGED krp,
         Goto(t, l) \/ \E S : pc' = [WakeUp(S, pc) EXCEPT ![t] = l]
  PROVE  /\ pc' \in [Threads -> Labels] /\ krp' \in [Threads -> Kops \cup {None}]
         /\ pc'[t] = l /\ Steady(t)
BY GotoMoves DEF IInv, TypeOK, HandsFull, Steady, StepOf

LEMMA DroppedMoves ==
  ASSUME IInv, NEW t \in Threads \ Kops, NEW l \in Labels \ {"ready", "kreturn"},
         krp' = Dropped(t), Goto(t, l)
  PROVE  /\ pc' \in [Threads -> Labels] /\ krp' \in [Threads -> Kops \cup {None}]
         /\ pc'[t] = l /\ Steady(t)
BY GotoMoves, ThreadKinds DEF IInv, TypeOK, HandsFull, Steady, StepOf, Dropped

LEMMA TakenMoves ==
  ASSUME IInv, NEW t \in Threads \ Kops, NEW l \in Labels \ {"ready", "kreturn"},
         NEW k \in Kops, krp' = [krp EXCEPT ![t] = k], Goto(t, l)
  PROVE  /\ pc' \in [Threads -> Labels] /\ krp' \in [Threads -> Kops \cup {None}]
         /\ pc'[t] = l /\ krp'[t] = k /\ Steady(t)
BY GotoMoves, ThreadKinds DEF IInv, TypeOK, HandsFull, Steady, StepOf

LEMMA AttachStep ==
  ASSUME IInv, NoOops, NEW d \in Devs, Attach(d)
  PROVE  IInv'
<1>1. d \in Threads
  BY ThreadKinds
<1>2. PICK h \in FirstUnused(table) :
        table' = [table EXCEPT ![h].dev = d, ![h].algs = Algs]
  BY DEF Attach
<1>3. h \in Hids
  BY DEF IInv, TypeOK, FirstUnused
<1>4. GoodTable(table')
  <2> DEFINE s == [table[h] EXCEPT !.dev = d, !.algs = Algs]
  <2>1. GoodSlot(s)
    BY <1>3, SlotsAreGood, GoodSlots DEF IInv
  <2>2. table' = [table EXCEPT ![h] = s]
    BY <1>2, <1>3 DEF IInv, TypeOK, Slot
  <2> HIDE DEF s
  <2> QED BY <2>1, <2>2, OneSlotChanges DEF IInv
<1>5. TypeOK'
  BY <1>4 DEF Attach, IInv, TypeOK, GoodTable
<1>6. Steady(d)
  BY <1>1, ThreadKinds DEF Attach, IInv, HandsFull, Steady, StepOf
<1>7. Places'
  BY <1>1, <1>5, <1>6, NothingMoves DEF Attach, Holds, HoldsPending, HoldsDone
<1> QED BY <1>5, <1>7 DEF IInv, Places

LEMMA DetachStep ==
  ASSUME IInv, NoOops, NEW d \in Devs, Detach(d)
  PROVE  IInv'
<1>1. d \in Threads
  BY ThreadKinds
<1>2. PICK h \in SlotsOf(d) : /\ table' = [table EXCEPT ![h] = Finis(@)]
                              /\ kqBlocked' = kqBlocked \ {h}
  BY DEF Detach
<1>3. h \in Hids
  BY DEF SlotsOf
<1>4. GoodTable(table')
  BY <1>2, <1>3, SlotsAreGood, GoodSlots, OneSlotChanges DEF IInv
<1>5. TypeOK'
  BY <1>2, <1>4 DEF Detach, IInv, TypeOK, GoodTable
<1>6. Steady(d)
  BY <1>1, ThreadKinds DEF Detach, IInv, HandsFull, Steady, StepOf
<1>7. Places'
  BY <1>1, <1>5, <1>6, NothingMoves DEF Detach, Holds, HoldsPending, HoldsDone
<1> QED BY <1>5, <1>7 DEF IInv, Places

LEMMA KInvokeStep ==
  ASSUME IInv, NoOops, NEW t \in Threads, NEW h \in Hids, KInvoke(t, h)
  PROVE  IInv'
<1>1. Holds(t)
  BY DEF KInvoke, Holds, HoldsPending
<1>2. krp[t] \in Kops
  BY <1>1, InHand
<1>3. GoodTable(table')
  <2> DEFINE s == [table[h] EXCEPT !.kops = More(@)]
  <2>1. GoodSlot(s)
    BY SlotsAreGood, GoodSlots DEF IInv
  <2>2. table' = [table EXCEPT ![h] = s]
    BY DEF KInvoke, IInv, TypeOK, Slot
  <2> HIDE DEF s
  <2> QED BY <2>1, <2>2, OneSlotChanges DEF IInv
<1>4. pc' \in [Threads -> Labels] /\ pc'[t] = "kprocess" /\ Steady(t)
  BY SteadyGoto DEF KInvoke, Labels
<1>5. TypeOK'
  BY <1>2, <1>3, <1>4 DEF KInvoke, IInv, TypeOK, GoodTable
<1>6. Places'
  BY <1>4, <1>5, NothingMoves DEF KInvoke, HoldsPending, HoldsDone
<1> QED BY <1>5, <1>6 DEF IInv, Places

LEMMA KInvokeFailsStep ==
  ASSUME IInv, NoOops, NEW t \in Threads, KInvokeFails(t)
  PROVE  IInv'
<1>1. Holds(t)
  BY DEF KInvokeFails, Holds, HoldsPending
<1>2. krp[t] \in Kops
  BY <1>1, InHand
<1>3. pc' \in [Threads -> Labels] /\ pc'[t] = "kdone" /\ Steady(t)
  BY SteadyGoto DEF KInvokeFails, Labels
<1>4. TypeOK'
  BY <1>2, <1>3 DEF KInvokeFails, IInv, TypeOK
<1>5. Places'
  BY <1>3, <1>4, NothingMoves DEF KInvokeFails, HoldsPending, HoldsDone
<1> QED BY <1>4, <1>5 DEF IInv, Places

LEMMA KAcceptedStep ==
  ASSUME IInv, NoOops, NEW t \in Threads, KAccepted(t)
  PROVE  IInv'
<1>1. pc' \in [Threads -> Labels] /\ pc'[t] = "kend" /\ Steady(t)
  BY SteadyGoto DEF KAccepted, Labels
<1>2. TypeOK'
  BY <1>1 DEF KAccepted, IInv, TypeOK
<1>3. Places'
  BY <1>1, <1>2, NothingMoves DEF KAccepted, Holds, HoldsPending, HoldsDone
<1> QED BY <1>2, <1>3 DEF IInv, Places

LEMMA KRestartedStep ==
  ASSUME IInv, NoOops, NEW t \in Threads, KRestarted(t)
  PROVE  IInv'
<1> DEFINE h == hid[krp[t]]
<1>1. Holds(t)
  BY DEF KRestarted, Holds, HoldsPending
<1>2. h \in Hids
  BY <1>1, InHand
<1>3. GoodTable(table')
  <2> DEFINE s == [table[h] EXCEPT !.kops = Less(@)]
  <2>1. GoodSlot(s)
    BY <1>2, SlotsAreGood, GoodSlots DEF IInv
  <2>2. table' = [table EXCEPT ![h] = s]
    BY <1>2 DEF KRestarted, IInv, TypeOK, Slot
  <2> HIDE DEF s, h
  <2> QED BY <2>1, <2>2, OneSlotChanges DEF IInv
<1>4. pc' \in [Threads -> Labels] /\ pc'[t] = "krequeue" /\ Steady(t)
  BY SteadyGoto DEF KRestarted, Labels
<1>5. TypeOK'
  BY <1>3, <1>4 DEF KRestarted, IInv, TypeOK, GoodTable
<1>6. Places'
  BY <1>4, <1>5, NothingMoves DEF KRestarted, HoldsPending, HoldsDone
<1> QED BY <1>5, <1>6 DEF IInv, Places

LEMMA KDispatchEndStep ==
  ASSUME IInv, NoOops, NEW k \in Kops, KDispatchEnd(k)
  PROVE  IInv'
<1>1. k \in Threads
  BY ThreadKinds
<1>2. pc' \in [Threads -> Labels] /\ pc'[k] = "kwait" /\ Steady(k)
  BY <1>1, SteadyGoto DEF KDispatchEnd, Labels
<1>3. TypeOK'
  BY <1>2 DEF KDispatchEnd, IInv, TypeOK
<1>4. Places'
  BY <1>1, <1>2, <1>3, NothingMoves DEF KDispatchEnd, Holds, HoldsPending, HoldsDone
<1> QED BY <1>3, <1>4 DEF IInv, Places

LEMMA KCountStep ==
  ASSUME IInv, NoOops, NEW t \in Threads, KCount(t)
  PROVE  IInv'
<1> DEFINE h == hid[krp[t]]
<1> DEFINE l == IF krp[t] \in CbImm THEN "kcallback" ELSE "kreturn"
<1>1. Holds(t)
  BY DEF KCount, Holds, HoldsDone
<1>2. h \in Hids
  BY <1>1, InHand
<1>3. GoodTable(table')
  BY <1>2, SlotsAreGood, GoodSlots, OneSlotChanges DEF KCount, IInv
<1>4. l \in Labels /\ l # "ready" /\ (l = "kreturn" => krp[t] \notin CbImm)
  BY DEF Labels
<1>5. Goto(t, l) /\ UNCHANGED krp
  BY DEF KCount
<1>6. kqBlocked' \subseteq kqBlocked
  BY DEF KCount
<1>7. l \in {"kcallback", "kreturn"}
  OBVIOUS
<1> HIDE DEF l
<1>8. /\ pc' \in [Threads -> Labels] /\ pc'[t] = l
      /\ \A u \in Threads \ {t} :
           pc'[u] = pc[u] \/ (pc[u] = "asleep" /\ pc'[u] = "wait")
  BY <1>4, <1>5, GotoMoves DEF IInv
<1>9. Steady(t)
  BY <1>4, <1>5, <1>8 DEF IInv, HandsFull, Steady, StepOf
<1>10. TypeOK'
  BY <1>3, <1>6, <1>8 DEF KCount, IInv, TypeOK, GoodTable
<1>11. Places'
  BY <1>7, <1>8, <1>9, <1>10, NothingMoves DEF KCount, HoldsPending, HoldsDone
<1> QED BY <1>10, <1>11 DEF IInv, Places

LEMMA ProcIdleStep ==
  ASSUME IInv, NoOops, NEW p \in Procs, ProcIdle(p)
  PROVE  IInv'
<1>1. p \in Threads
  BY ThreadKinds
<1>2. pc' \in [Threads -> Labels] /\ pc'[p] = "wait" /\ Steady(p)
  BY <1>1, SteadyGoto DEF ProcIdle, Labels
<1>3. allKQBlocked' \in BOOLEAN
  BY Zenon DEF ProcIdle
<1>4. TypeOK'
  BY <1>2, <1>3 DEF ProcIdle, IInv, TypeOK
<1>5. Places'
  BY <1>1, <1>2, <1>4, NothingMoves DEF ProcIdle, Holds, HoldsPending, HoldsDone
<1> QED BY <1>4, <1>5 DEF IInv, Places

LEMMA ProcWaitStep ==
  ASSUME IInv, NoOops, NEW p \in Procs, ProcWait(p)
  PROVE  IInv'
<1> DEFINE l == IF krpQ # <<>> /\ ~allKQBlocked THEN "scan" ELSE "asleep"
<1>1. p \in Threads
  BY ThreadKinds
<1>2. Goto(p, l) /\ l \in {"scan", "asleep"}
  BY DEF ProcWait
<1> HIDE DEF l
<1>3. pc' \in [Threads -> Labels] /\ pc'[p] = l /\ Steady(p)
  BY <1>1, <1>2, SteadyGoto DEF ProcWait, Labels
<1>4. TypeOK'
  BY <1>3 DEF ProcWait, IInv, TypeOK
<1>5. Places'
  BY <1>1, <1>2, <1>3, <1>4, NothingMoves DEF ProcWait, Holds, HoldsPending, HoldsDone
<1> QED BY <1>4, <1>5 DEF IInv, Places

LEMMA ProcEndStep ==
  ASSUME IInv, NoOops, NEW p \in Procs, ProcEnd(p)
  PROVE  IInv'
<1>1. p \in Threads \ Kops
  BY ThreadKinds
<1>2. /\ pc' \in [Threads -> Labels] /\ krp' \in [Threads -> Kops \cup {None}]
      /\ pc'[p] = "scan" /\ Steady(p)
  BY <1>1, DroppedMoves DEF ProcEnd, Labels
<1>3. TypeOK'
  BY <1>2 DEF ProcEnd, Released, IInv, TypeOK
<1>4. Places'
  BY <1>1, <1>2, <1>3, NothingMoves DEF ProcEnd, Holds, HoldsPending, HoldsDone
<1> QED BY <1>3, <1>4 DEF IInv, Places

LEMMA RetWaitStep ==
  ASSUME IInv, NoOops, NEW t \in Rets, RetWait(t)
  PROVE  IInv'
<1> DEFINE l == IF retKQ # <<>> THEN "harvest" ELSE "asleep"
<1>1. t \in Threads
  BY ThreadKinds
<1>2. Goto(t, l) /\ l \in {"harvest", "asleep"}
  BY DEF RetWait
<1> HIDE DEF l
<1>3. pc' \in [Threads -> Labels] /\ pc'[t] = l /\ Steady(t)
  BY <1>1, <1>2, SteadyGoto DEF RetWait, Labels
<1>4. TypeOK'
  BY <1>3 DEF RetWait, IInv, TypeOK
<1>5. Places'
  BY <1>1, <1>2, <1>3, <1>4, NothingMoves DEF RetWait, Holds, HoldsPending, HoldsDone
<1> QED BY <1>4, <1>5 DEF IInv, Places

LEMMA DrainedStep ==
  ASSUME IInv, NoOops, NEW d \in Devs, Drained(d)
  PROVE  IInv'
<1> DEFINE l == IF d \in needWake THEN "unblock" ELSE "idle"
<1>1. d \in Threads \ Kops
  BY ThreadKinds
<1>2. Goto(d, l) /\ l \in {"unblock", "idle"}
  BY DEF Drained
<1> HIDE DEF l
<1>3. /\ pc' \in [Threads -> Labels] /\ krp' \in [Threads -> Kops \cup {None}]
      /\ pc'[d] = l /\ Steady(d)
  BY <1>1, <1>2, DroppedMoves DEF Drained, Labels
<1>4. TypeOK'
  BY <1>3 DEF Drained, IInv, TypeOK
<1>5. Places'
  BY <1>1, <1>2, <1>3, <1>4, NothingMoves DEF Drained, Holds, HoldsPending, HoldsDone
<1> QED BY <1>4, <1>5 DEF IInv, Places

LEMMA UnblockStep ==
  ASSUME IInv, NoOops, NEW d \in Devs, Unblock(d)
  PROVE  IInv'
<1>1. d \in Threads
  BY ThreadKinds
<1>2. pc' \in [Threads -> Labels] /\ pc'[d] = "idle" /\ Steady(d)
  BY <1>1, SteadyGoto DEF Unblock, Labels
<1>3. TypeOK'
  BY <1>2 DEF Unblock, IInv, TypeOK
<1>4. Places'
  BY <1>1, <1>2, <1>3, NothingMoves DEF Unblock, Holds, HoldsPending, HoldsDone
<1> QED BY <1>3, <1>4 DEF IInv, Places

-----------------------------------------------------------------------------
(* The steps that move an operation.                                       *)

LEMMA KDispatchStep ==
  ASSUME IInv, NoOops, NEW k \in Kops, NEW c, KDispatch(k, c)
  PROVE  IInv'
<1>1. k \in Threads
  BY ThreadKinds
<1>2. pc' \in [Threads -> Labels] /\ pc'[k] = "kinvoke" /\ Steady(k)
  BY <1>1, SteadyGoto DEF KDispatch, Labels
<1>3. TypeOK'
  BY <1>2 DEF KDispatch, IInv, TypeOK
<1>4. k \notin busy /\ ~done[k] /\ krp'[k] = k
  BY DEF KDispatch, IInv, ReadyClean, HandsFull
<1>5. ~Holds(k) /\ Holds(k)' /\ ~HoldsDone(k)'
  BY <1>2 DEF KDispatch, Holds, HoldsPending, HoldsDone
<1>6. /\ UNCHANGED <<krpQ, retKQ, ring>> /\ UNCHANGED done
      /\ k \notin busy /\ pc'[k] # "ready" /\ busy' = busy \cup {k}
  BY <1>2, <1>4 DEF KDispatch
<1>7. Places'
  BY <1>1, <1>2, <1>3, <1>4, <1>5, <1>6, Takes
<1> QED BY <1>3, <1>7 DEF IInv, Places

LEMMA KWaitStep ==
  ASSUME IInv, NoOops, NEW k \in Kops, KWait(k)
  PROVE  IInv'
<1>1. k \in Threads
  BY ThreadKinds
<1>2. /\ pc' \in [Threads -> Labels] /\ pc'[k] = "ready" /\ pc[k] = "kwait"
      /\ \A u \in Threads \ {k} : pc'[u] = pc[u] /\ krp[u] # k
      /\ UNCHANGED <<krpQ, retKQ, ring, busy, krp>>
      /\ done' = [done EXCEPT ![k] = FALSE]
  BY <1>1 DEF KWait, Goto, Labels, IInv, TypeOK
<1>3. TypeOK'
  <2>1. 0 \in Hids
    BY AsymAssumption DEF Hids
  <2> QED BY <1>2, <2>1 DEF KWait, IInv, TypeOK
<1>4. k \notin busy
  <2>1. CASE k \notin CbImm
    BY <2>1 DEF KWait, Finished
  <2>2. CASE k \in CbImm
    <3>1. done[k]
      BY <2>2 DEF KWait, Finished
    <3>2. k \notin Elems(krpQ) \cup Elems(retKQ) \cup OnRing
      BY <3>1, <2>2 DEF IInv, KopOneOwner, PlacesBusy
    <3>3. \A t \in Threads : ~(Holds(t) /\ krp[t] = k)
      BY <1>2 DEF Holds, HoldsPending, HoldsDone
    <3> QED BY <3>2, <3>3 DEF IInv, KopNeverLost
  <2> QED BY <2>1, <2>2
<1>5. Elems(krpQ)' = Elems(krpQ) /\ Elems(retKQ)' = Elems(retKQ) /\ OnRing' = OnRing
  BY <1>2 DEF OnRing
<1>6. \A u \in Threads : /\ Holds(u)' <=> Holds(u)
                         /\ HoldsDone(u)' <=> HoldsDone(u)
                         /\ Holds(u) => krp[u] # k
                         /\ pc'[u] = "kreturn" <=> pc[u] = "kreturn"
  BY <1>2 DEF Holds, HoldsPending, HoldsDone
<1>7. \A j \in Kops \ {k} : done'[j] = done[j] /\ (pc'[j] = "ready" <=> pc[j] = "ready")
  BY <1>2, ThreadKinds DEF IInv, TypeOK
<1>8. k \notin Elems(krpQ) \cup Elems(retKQ) \cup OnRing
  BY <1>4 DEF IInv, PlacesBusy
<1>9. Elems(krpQ) \cup Elems(retKQ) \cup OnRing \subseteq Kops
  BY DEF IInv, PlacesBusy, TypeOK
<1>10. KopOneOwner'
  <2>1. \A u \in Threads : Holds(u) => krp[u] \in Kops \ {k}
    BY <1>6, InHand
  <2> QED BY <1>2, <1>5, <1>6, <1>7, <1>8, <1>9, <2>1
          DEF IInv, KopOneOwner, NoRepeats
<1>11. KopNeverLost'
  BY <1>2, <1>5, <1>6 DEF IInv, KopNeverLost
<1>12. HandsFull'
  BY <1>2, <1>6 DEF IInv, HandsFull
<1>13. PlacesBusy'
  BY <1>2, <1>5 DEF IInv, PlacesBusy
<1>14. ReadyClean'
  BY <1>2, <1>4, <1>7 DEF IInv, ReadyClean, TypeOK
<1> QED BY <1>3, <1>10, <1>11, <1>12, <1>13, <1>14 DEF IInv

LEMMA KProcessStep ==
  ASSUME IInv, NoOops, NEW t \in Threads, KProcess(t)
  PROVE  IInv'
<1> DEFINE k == krp[t]
           d == table[hid[k]].dev
<1>1. HoldsPending(t) /\ Holds(t)
  BY DEF KProcess, Holds, HoldsPending
<1>2. k \in Kops /\ hid[k] \in Hids
  BY <1>1, InHand
<1>3. d \in Devs \cup {None}
  BY <1>2, SMTT(30) DEF IInv, TypeOK, Slot
<1>4. /\ UNCHANGED <<queueVars, retKQ, table, hid, crid, done, busy>>
      /\ UNCHANGED krp
  BY SMTT(30) DEF KProcess
<1>5. \/ /\ d = None /\ Goto(t, "oops") /\ UNCHANGED <<driverVars, status>>
      \/ /\ d # None /\ ring' = [ring EXCEPT ![d] = @ \cup {k}]
         /\ Goto(t, "kaccepted") /\ UNCHANGED <<needWake, status>>
      \/ /\ d # None /\ needWake' = needWake \cup {d} /\ Goto(t, "krestart")
         /\ UNCHANGED <<ring, status>>
      \/ /\ status' = [status EXCEPT ![k] = "error"]
         /\ Goto(t, "kdone") /\ UNCHANGED driverVars
  BY DEF KProcess
<1> HIDE DEF k, d
<1>6. CASE d = None /\ Goto(t, "oops") /\ UNCHANGED <<driverVars, status>>
  <2>1. pc' \in [Threads -> Labels] /\ pc'[t] = "oops" /\ Steady(t)
    BY <1>4, <1>6, SteadyGoto DEF Labels
  <2>2. TypeOK'
    BY <1>4, <1>6, <2>1 DEF IInv, TypeOK
  <2>3. ~Holds(t)'
    BY <2>1 DEF Holds, HoldsPending, HoldsDone
  <2>4. Places'
    BY <1>1, <1>4, <1>6, <2>1, <2>2, <2>3, Gives
  <2> QED BY <2>2, <2>4 DEF IInv, Places
<1>7. CASE /\ d # None /\ ring' = [ring EXCEPT ![d] = @ \cup {k}]
           /\ Goto(t, "kaccepted") /\ UNCHANGED <<needWake, status>>
  <2>1. pc' \in [Threads -> Labels] /\ pc'[t] = "kaccepted" /\ Steady(t)
    BY <1>4, <1>7, SteadyGoto DEF Labels
  <2>2. d \in Devs
    BY <1>3, <1>7
  <2>3. TypeOK'
    BY <1>2, <1>4, <1>7, <2>1, <2>2 DEF IInv, TypeOK
  <2>4. ~Holds(t)'
    BY <2>1 DEF Holds, HoldsPending, HoldsDone
  <2>5. /\ UNCHANGED <<krpQ, retKQ, busy>> /\ HoldsPending(t)
        /\ \E e \in Devs : ring' = [ring EXCEPT ![e] = @ \cup {krp[t]}]
    BY <1>1, <1>4, <1>7, <2>2 DEF k
  <2>6. Places'
    BY <1>1, <1>4, <2>1, <2>3, <2>4, <2>5, Gives
  <2> QED BY <2>3, <2>6 DEF IInv, Places
<1>8. CASE /\ d # None /\ needWake' = needWake \cup {d} /\ Goto(t, "krestart")
           /\ UNCHANGED <<ring, status>>
  <2>1. pc' \in [Threads -> Labels] /\ pc'[t] = "krestart" /\ Steady(t)
    BY <1>4, <1>8, SteadyGoto DEF Labels
  <2>2. TypeOK'
    BY <1>3, <1>4, <1>8, <2>1 DEF IInv, TypeOK
  <2>3. HoldsPending(t)' /\ ~HoldsDone(t)' /\ ~HoldsDone(t)
    BY <1>1, <2>1 DEF HoldsPending, HoldsDone
  <2>4. Places'
    BY <1>1, <1>4, <1>8, <2>1, <2>2, <2>3, NothingMoves
  <2> QED BY <2>2, <2>4 DEF IInv, Places
<1>9. CASE /\ status' = [status EXCEPT ![k] = "error"]
           /\ Goto(t, "kdone") /\ UNCHANGED driverVars
  <2>1. pc' \in [Threads -> Labels] /\ pc'[t] = "kdone" /\ Steady(t)
    BY <1>4, <1>9, SteadyGoto DEF Labels
  <2>2. TypeOK'
    BY <1>4, <1>9, <2>1 DEF IInv, TypeOK
  <2>3. HoldsPending(t)' /\ ~HoldsDone(t)' /\ ~HoldsDone(t)
    BY <1>1, <2>1 DEF HoldsPending, HoldsDone
  <2>4. Places'
    BY <1>1, <1>4, <1>9, <2>1, <2>2, <2>3, NothingMoves
  <2> QED BY <2>2, <2>4 DEF IInv, Places
<1> QED BY <1>5, <1>6, <1>7, <1>8, <1>9, SMTT(30)

LEMMA KDispatchQueueStep ==
  ASSUME IInv, NoOops, NEW k \in Kops, KDispatchQueue(k)
  PROVE  IInv'
<1>1. k \in Threads /\ krp[k] = k
  BY ThreadKinds DEF IInv, HandsFull
<1>2. pc' \in [Threads -> Labels] /\ pc'[k] = "kwait" /\ Steady(k)
  BY <1>1, SteadyGoto DEF KDispatchQueue, Labels
<1>3. HoldsPending(k) /\ Holds(k) /\ ~Holds(k)'
  BY <1>2 DEF KDispatchQueue, Holds, HoldsPending, HoldsDone
<1>4. k \notin Elems(krpQ) /\ NoRepeats(krpQ) /\ krpQ \in Seq(Kops)
  BY <1>1, <1>3 DEF IInv, KopOneOwner, TypeOK
<1>5. krpQ' = Append(krpQ, k)
  BY DEF KDispatchQueue, Queued
<1>6. /\ krpQ' \in Seq(Kops) /\ NoRepeats(krpQ') /\ Elems(krpQ') = Elems(krpQ) \cup {k}
  BY <1>4, <1>5, AppendElems
<1>7. TypeOK'
  BY <1>2, <1>6 DEF KDispatchQueue, IInv, TypeOK
<1>8. /\ UNCHANGED <<retKQ, ring, busy>> /\ UNCHANGED done
      /\ Elems(krpQ)' = Elems(krpQ) \cup {krp[k]} /\ NoRepeats(krpQ)'
  BY <1>1, <1>6 DEF KDispatchQueue
<1>9. Places'
  BY <1>1, <1>2, <1>3, <1>7, <1>8, Gives
<1> QED BY <1>7, <1>9 DEF IInv, Places

LEMMA ProcRequeueStep ==
  ASSUME IInv, NoOops, NEW p \in Procs, ProcRequeue(p)
  PROVE  IInv'
<1> DEFINE k == krp[p]
<1>1. p \in Threads \ Kops
  BY ThreadKinds
<1>2. /\ pc' \in [Threads -> Labels] /\ krp' \in [Threads -> Kops \cup {None}]
      /\ pc'[p] = "scan" /\ Steady(p)
  BY <1>1, DroppedMoves DEF ProcRequeue, Labels
<1>3. HoldsPending(p) /\ Holds(p) /\ ~Holds(p)'
  BY <1>2 DEF ProcRequeue, Holds, HoldsPending, HoldsDone
<1>4. k \in Kops
  BY <1>1, <1>3, InHand
<1>5. k \notin Elems(krpQ) /\ NoRepeats(krpQ) /\ krpQ \in Seq(Kops)
  BY <1>1, <1>3 DEF IInv, KopOneOwner, TypeOK
<1>6. krpQ' = <<k>> \o krpQ
  BY DEF ProcRequeue
<1>7. /\ krpQ' \in Seq(Kops) /\ NoRepeats(krpQ') /\ Elems(krpQ') = Elems(krpQ) \cup {k}
  BY <1>4, <1>5, <1>6, ConsElems
<1>8. TypeOK'
  BY <1>2, <1>7 DEF ProcRequeue, IInv, TypeOK
<1>9. /\ UNCHANGED <<retKQ, ring, busy>> /\ UNCHANGED done
      /\ Elems(krpQ)' = Elems(krpQ) \cup {krp[p]} /\ NoRepeats(krpQ)'
  BY <1>7 DEF ProcRequeue
<1>10. Places'
  BY <1>1, <1>2, <1>3, <1>8, <1>9, Gives
<1> QED BY <1>8, <1>10 DEF IInv, Places

LEMMA KReturnStep ==
  ASSUME IInv, NoOops, NEW t \in Threads, KReturn(t)
  PROVE  IInv'
<1> DEFINE k == krp[t]
           l == Back(t)
<1>1. l \in Labels \ {"ready", "kreturn"}
  BY BackLabels DEF Labels
<1>2. l \in {"drain", "harvest", "kaccepted", "kend"}
  BY BackLabels
<1>3. pc' = [WakeUp(Rets, pc) EXCEPT ![t] = l] /\ UNCHANGED krp
  BY DEF KReturn
<1> HIDE DEF l
<1>4. pc' \in [Threads -> Labels] /\ pc'[t] = l /\ Steady(t)
  BY <1>1, <1>3, SteadyGoto
<1>5. HoldsDone(t) /\ Holds(t)
  BY DEF KReturn, Holds, HoldsDone
<1>6. ~Holds(t)'
  BY <1>2, <1>4 DEF Holds, HoldsPending, HoldsDone
<1>7. k \in Kops /\ k \notin CbImm
  BY <1>5, InHand DEF KReturn, IInv, HandsFull
<1>8. k \notin Elems(retKQ) /\ NoRepeats(retKQ) /\ retKQ \in Seq(Kops)
  BY <1>5 DEF IInv, KopOneOwner, TypeOK
<1>9. retKQ' = Append(retKQ, k)
  BY DEF KReturn
<1>10. /\ retKQ' \in Seq(Kops) /\ NoRepeats(retKQ')
       /\ Elems(retKQ') = Elems(retKQ) \cup {k}
  BY <1>7, <1>8, <1>9, AppendElems
<1>11. TypeOK'
  BY <1>4, <1>10 DEF KReturn, IInv, TypeOK
<1>12. /\ UNCHANGED <<krpQ, ring, busy>> /\ UNCHANGED done
       /\ Elems(retKQ)' = Elems(retKQ) \cup {krp[t]} /\ NoRepeats(retKQ)'
  BY <1>10 DEF KReturn
<1>13. Places'
  BY <1>4, <1>5, <1>6, <1>7, <1>11, <1>12, Gives
<1> QED BY <1>11, <1>13 DEF IInv, Places

LEMMA KCallbackStep ==
  ASSUME IInv, NoOops, NEW t \in Threads, KCallback(t)
  PROVE  IInv'
<1> DEFINE l == Back(t)
<1>1. l \in Labels \ {"ready", "kreturn"}
  BY BackLabels DEF Labels
<1>2. l \in {"drain", "harvest", "kaccepted", "kend"}
  BY BackLabels
<1>3. Goto(t, l) /\ krp' = (IF t \in Rets THEN Dropped(t) ELSE krp)
  BY DEF KCallback
<1> HIDE DEF l
<1>4. /\ pc' \in [Threads -> Labels] /\ krp' \in [Threads -> Kops \cup {None}]
      /\ pc'[t] = l /\ Steady(t)
  <2>1. CASE t \in Rets
    <3>1. t \in Threads \ Kops
      BY <2>1, ThreadKinds
    <3> QED BY <1>1, <1>3, <2>1, <3>1, DroppedMoves
  <2>2. CASE t \notin Rets
    BY <1>1, <1>3, <2>2, SteadyGoto
  <2> QED BY <2>1, <2>2
<1>5. Holds(t)
  BY DEF KCallback, Holds, HoldsDone
<1>6. ~Holds(t)'
  BY <1>2, <1>4 DEF Holds, HoldsPending, HoldsDone
<1>7. TypeOK'
  BY <1>4 DEF KCallback, IInv, TypeOK
<1>8. UNCHANGED <<krpQ, retKQ, ring>> /\ UNCHANGED done /\ busy' = busy \ {krp[t]}
  BY DEF KCallback
<1>9. Places'
  BY <1>4, <1>5, <1>6, <1>7, <1>8, Gives
<1> QED BY <1>7, <1>9 DEF IInv, Places

(* crypto_kdone sets CRYPTO_KF_DONE on the operation in its hands. *)
LEMMA KMarkStep ==
  ASSUME IInv, NoOops, NEW t \in Threads, KMark(t)
  PROVE  IInv'
<1> DEFINE k == krp[t]
<1>1. HoldsPending(t) /\ Holds(t) /\ ~HoldsDone(t)
  BY DEF KMark, Holds, HoldsPending, HoldsDone
<1>2. k \in Kops /\ k \in busy
  BY <1>1, InHand
<1>3. pc' \in [Threads -> Labels] /\ pc'[t] = "kcount" /\ Steady(t)
  BY SteadyGoto DEF KMark, Labels
<1>4. /\ UNCHANGED <<krpQ, retKQ, ring, busy, krp>>
      /\ done' = [done EXCEPT ![k] = TRUE]
  BY DEF KMark
<1>5. TypeOK'
  BY <1>2, <1>3 DEF KMark, IInv, TypeOK
<1>6. Elems(krpQ)' = Elems(krpQ) /\ Elems(retKQ)' = Elems(retKQ) /\ OnRing' = OnRing
  BY <1>4 DEF OnRing
<1>7. Holds(t)' /\ HoldsDone(t)'
  BY <1>3 DEF Holds, HoldsDone
<1>8. \A u \in Threads \ {t} : /\ Holds(u)' <=> Holds(u)
                               /\ HoldsDone(u)' <=> HoldsDone(u)
                               /\ pc'[u] = "kreturn" <=> pc[u] = "kreturn"
                               /\ pc'[u] = "ready" <=> pc[u] = "ready"
                               /\ Holds(u) => krp[u] # k
  BY <1>1, <1>3, OthersStay DEF Steady, IInv, KopOneOwner
<1>9. k \notin Elems(krpQ) \cup Elems(retKQ) \cup OnRing
  BY <1>1 DEF IInv, KopOneOwner
<1>10. \A j \in Kops \ {k} : done'[j] = done[j]
  BY <1>4 DEF IInv, TypeOK
<1>11. done'[k]
  BY <1>2, <1>4 DEF IInv, TypeOK
<1> HIDE DEF k
<1>12. KopOneOwner'
  <2>1. Elems(krpQ) \cup Elems(retKQ) \cup OnRing \subseteq Kops
    BY DEF IInv, PlacesBusy, TypeOK
  <2>2. \A u \in Threads \ {t} : Holds(u) => krp[u] \in Kops \ {k}
    BY <1>8, InHand
  <2>3. krp[t] = k
    BY DEF k
  <2>4. NoRepeats(krpQ)' /\ NoRepeats(retKQ)'
    BY <1>4 DEF IInv, KopOneOwner, NoRepeats
  <2>5. /\ \A j \in Elems(krpQ) \cup OnRing : ~done'[j]
        /\ \A j \in Elems(retKQ) : done'[j]
    BY <1>9, <1>10, <2>1 DEF IInv, KopOneOwner
  <2>6. \A u \in Threads : Holds(u)' =>
          /\ krp[u] \notin Elems(krpQ) \cup Elems(retKQ) \cup OnRing
          /\ done'[krp[u]] <=> HoldsDone(u)'
          /\ \A v \in Threads : Holds(v)' /\ krp[v] = krp[u] => v = u
    BY <1>1, <1>7, <1>8, <1>9, <1>10, <1>11, <2>2, <2>3 DEF IInv, KopOneOwner
  <2> QED BY <1>4, <1>6, <2>4, <2>5, <2>6 DEF IInv, KopOneOwner
<1>13. KopNeverLost'
  BY <1>1, <1>4, <1>6, <1>7, <1>8 DEF IInv, KopNeverLost
<1>14. HandsFull'
  BY <1>1, <1>3, <1>4, <1>8 DEF IInv, HandsFull
<1>15. PlacesBusy'
  BY <1>4, <1>6 DEF IInv, PlacesBusy
<1>16. ReadyClean'
  <2>1. ASSUME NEW j \in Kops, pc'[j] = "ready" PROVE j \notin busy' /\ ~done'[j]
    <3>1. pc[j] = "ready"
      BY <1>3, <1>8, <2>1, ThreadKinds
    <3>2. j \notin busy /\ ~done[j]
      BY <3>1 DEF IInv, ReadyClean
    <3> QED BY <1>2, <1>4, <1>10, <3>2
  <2> QED BY <2>1 DEF ReadyClean
<1> QED BY <1>5, <1>12, <1>13, <1>14, <1>15, <1>16 DEF IInv

LEMMA ProcSubmitStep ==
  ASSUME IInv, NoOops, NEW p \in Procs, NEW i \in DOMAIN krpQ, ProcSubmit(p, i)
  PROVE  IInv'
<1> DEFINE k == krpQ[i]
<1>1. p \in Threads /\ p \in Threads \ Kops
  BY ThreadKinds
<1>2. /\ i \in 1 .. Len(krpQ) /\ krpQ \in Seq(Kops) /\ NoRepeats(krpQ)
  BY DEF IInv, TypeOK, KopOneOwner
<1>3. ~Holds(p)
  BY DEF ProcSubmit, Holds, HoldsPending, HoldsDone
<1>4. CASE NoDriver(i)
  <2>1. pc' \in [Threads -> Labels] /\ pc'[p] = "oops" /\ Steady(p)
    BY <1>1, <1>4, SteadyGoto DEF ProcSubmit, Labels
  <2>2. TypeOK'
    BY <1>4, <2>1 DEF ProcSubmit, IInv, TypeOK
  <2>3. Places'
    BY <1>1, <1>3, <1>4, <2>1, <2>2, NothingMoves
    DEF ProcSubmit, Holds, HoldsPending, HoldsDone
  <2> QED BY <2>2, <2>3 DEF IInv, Places
<1>5. CASE ~NoDriver(i)
  <2>1. /\ allKQBlocked' = FALSE /\ krpQ' = Unlinked(i)
        /\ kqBlocked' = kqBlocked \cup {hid[k]}
        /\ krp' = [krp EXCEPT ![p] = k] /\ Goto(p, "kinvoke")
        /\ UNCHANGED <<retKQ, table, driverVars, kopVars, busy>>
    BY <1>5 DEF ProcSubmit
  <2>2. /\ k \in Kops /\ k \in Elems(krpQ)
        /\ krpQ' \in Seq(Kops) /\ Elems(krpQ') = Elems(krpQ) \ {k} /\ NoRepeats(krpQ')
    BY <1>2, <2>1, WithoutElems DEF Unlinked
  <2> HIDE DEF k
  <2>3. /\ pc' \in [Threads -> Labels] /\ krp' \in [Threads -> Kops \cup {None}]
        /\ pc'[p] = "kinvoke" /\ krp'[p] = k /\ Steady(p)
    BY <1>1, <2>1, <2>2, TakenMoves DEF Labels
  <2>4. TypeOK'
    BY <2>1, <2>2, <2>3 DEF IInv, TypeOK
  <2>5. ~done[k] /\ Holds(p)' /\ ~HoldsDone(p)'
    BY <2>2, <2>3 DEF IInv, KopOneOwner, Holds, HoldsPending, HoldsDone
  <2>6. /\ UNCHANGED <<retKQ, ring, busy>> /\ UNCHANGED done /\ k \in Elems(krpQ)
        /\ Elems(krpQ)' = Elems(krpQ) \ {k} /\ NoRepeats(krpQ)'
    BY <2>1, <2>2
  <2>7. Places'
    BY <1>1, <1>3, <2>2, <2>3, <2>4, <2>5, <2>6, Takes
  <2> QED BY <2>4, <2>7 DEF IInv, Places
<1> QED BY <1>4, <1>5

LEMMA RetHarvestStep ==
  ASSUME IInv, NoOops, NEW t \in Rets, RetHarvest(t)
  PROVE  IInv'
<1> DEFINE k == Head(retKQ)
<1>1. t \in Threads /\ t \in Threads \ Kops
  BY ThreadKinds
<1>2. ~Holds(t)
  BY DEF RetHarvest, Holds, HoldsPending, HoldsDone
<1>3. retKQ \in Seq(Kops) /\ NoRepeats(retKQ)
  BY DEF IInv, TypeOK, KopOneOwner
<1>4. CASE retKQ = <<>>
  <2>1. pc' \in [Threads -> Labels] /\ pc'[t] = "wait" /\ Steady(t)
    BY <1>1, <1>4, SteadyGoto DEF RetHarvest, Labels
  <2>2. TypeOK'
    BY <1>4, <2>1 DEF RetHarvest, IInv, TypeOK
  <2>3. Places'
    BY <1>1, <1>2, <1>4, <2>1, <2>2, NothingMoves
    DEF RetHarvest, Holds, HoldsPending, HoldsDone
  <2> QED BY <2>2, <2>3 DEF IInv, Places
<1>5. CASE retKQ # <<>>
  <2>1. /\ krp' = [krp EXCEPT ![t] = k] /\ retKQ' = Tail(retKQ) /\ Goto(t, "kcallback")
        /\ UNCHANGED <<queueVars, table, driverVars, kopVars, busy>>
    BY <1>5 DEF RetHarvest
  <2>2. /\ k \in Kops /\ k \in Elems(retKQ)
        /\ retKQ' \in Seq(Kops) /\ Elems(retKQ') = Elems(retKQ) \ {k} /\ NoRepeats(retKQ')
    BY <1>3, <1>5, <2>1, TailElems
  <2> HIDE DEF k
  <2>3. /\ pc' \in [Threads -> Labels] /\ krp' \in [Threads -> Kops \cup {None}]
        /\ pc'[t] = "kcallback" /\ krp'[t] = k /\ Steady(t)
    BY <1>1, <2>1, <2>2, TakenMoves DEF Labels
  <2>4. TypeOK'
    BY <2>1, <2>2, <2>3 DEF IInv, TypeOK
  <2>5. done[k] /\ Holds(t)' /\ HoldsDone(t)'
    BY <2>2, <2>3 DEF IInv, KopOneOwner, Holds, HoldsDone
  <2>6. /\ UNCHANGED <<krpQ, ring, busy>> /\ UNCHANGED done /\ k \in Elems(retKQ)
        /\ Elems(retKQ)' = Elems(retKQ) \ {k} /\ NoRepeats(retKQ)'
    BY <2>1, <2>2
  <2>7. Places'
    BY <1>1, <1>2, <2>2, <2>3, <2>4, <2>5, <2>6, Takes
  <2> QED BY <2>4, <2>7 DEF IInv, Places
<1> QED BY <1>4, <1>5

LEMMA PollStep ==
  ASSUME IInv, NoOops, NEW d \in Devs, NEW k \in ring[d], Poll(d, k)
  PROVE  IInv'
<1>1. d \in Threads /\ d \in Threads \ Kops
  BY ThreadKinds
<1>2. k \in Kops /\ k \in OnRing
  BY DEF IInv, TypeOK, OnRing
<1>3. /\ pc' \in [Threads -> Labels] /\ krp' \in [Threads -> Kops \cup {None}]
      /\ pc'[d] = "kdone" /\ krp'[d] = k /\ Steady(d)
  BY <1>1, <1>2, TakenMoves DEF Poll, Labels
<1>4. TypeOK'
  BY <1>2, <1>3 DEF Poll, IInv, TypeOK
<1>5. ~Holds(d)
  BY DEF Poll, Holds, HoldsPending, HoldsDone
<1>6. ~done[k] /\ Holds(d)' /\ ~HoldsDone(d)'
  BY <1>2, <1>3 DEF IInv, KopOneOwner, Holds, HoldsPending, HoldsDone
<1>7. /\ UNCHANGED <<krpQ, retKQ, busy>> /\ UNCHANGED done
      /\ \E e \in Devs : k \in ring[e] /\ ring' = [ring EXCEPT ![e] = @ \ {k}]
  BY DEF Poll
<1>8. Places'
  BY <1>1, <1>2, <1>3, <1>4, <1>5, <1>6, <1>7, Takes
<1> QED BY <1>4, <1>8 DEF IInv, Places

-----------------------------------------------------------------------------
(* The invariant is inductive. *)

LEMMA StutterStep ==
  ASSUME IInv, UNCHANGED vars
  PROVE  IInv'
<1>1. \A t \in Threads : Holds(t)' <=> Holds(t)
  BY DEF vars, Holds, HoldsPending, HoldsDone
<1>2. \A t \in Threads : HoldsDone(t)' <=> HoldsDone(t)
  BY DEF vars, HoldsDone
<1>3. Elems(krpQ)' = Elems(krpQ) /\ Elems(retKQ)' = Elems(retKQ) /\ OnRing' = OnRing
  BY DEF vars, OnRing
<1>4. TypeOK'
  BY DEF vars, IInv, TypeOK
<1>5. KopOneOwner'
  BY <1>1, <1>2, <1>3 DEF vars, IInv, KopOneOwner, NoRepeats
<1>6. KopNeverLost'
  BY <1>1, <1>3 DEF vars, IInv, KopNeverLost, NoOops
<1>7. HandsFull' /\ PlacesBusy' /\ ReadyClean'
  BY <1>1, <1>3 DEF vars, IInv, HandsFull, PlacesBusy, ReadyClean
<1> QED BY <1>4, <1>5, <1>6, <1>7 DEF IInv

LEMMA InvokeStep ==
  ASSUME IInv, NoOops, NEW t \in Threads, Invoke(t)
  PROVE  IInv'
BY KInvokeStep, KInvokeFailsStep, KProcessStep, KAcceptedStep, KRestartedStep DEF Invoke

LEMMA FinishStep ==
  ASSUME IInv, NoOops, NEW t \in Threads, Finish(t)
  PROVE  IInv'
BY KMarkStep, KCountStep, KReturnStep, KCallbackStep DEF Finish

LEMMA NextIInv == IInv /\ [Next]_vars => IInv'
<1> SUFFICES ASSUME IInv, [Next]_vars PROVE IInv'
  OBVIOUS
<1>1. CASE UNCHANGED vars
  BY <1>1, StutterStep
<1>2. CASE Next
  <2>1. NoOops
    BY <1>2 DEF Next
  <2>2. ASSUME NEW d \in Devs, Attach(d) \/ Detach(d) \/ DriverStep(d) PROVE IInv'
    BY <2>1, <2>2, ThreadKinds, AttachStep, DetachStep, PollStep, DrainedStep,
       FinishStep, UnblockStep DEF DriverStep
  <2>3. ASSUME NEW k \in Kops, ClientStep(k) \/ \E c \in Crids : KDispatch(k, c)
        PROVE  IInv'
    BY <2>1, <2>3, ThreadKinds, InvokeStep, FinishStep, KDispatchQueueStep,
       KDispatchEndStep, KWaitStep, KDispatchStep DEF ClientStep
  <2>4. ASSUME NEW p \in Procs, ProcStep(p) PROVE IInv'
    BY <2>1, <2>4, ThreadKinds, ProcSubmitStep, ProcIdleStep, ProcWaitStep,
       InvokeStep, FinishStep, ProcRequeueStep, ProcEndStep DEF ProcStep
  <2>5. ASSUME NEW t \in Rets, RetStep(t) PROVE IInv'
    BY <2>1, <2>5, ThreadKinds, RetHarvestStep, RetWaitStep, KCallbackStep DEF RetStep
  <2> QED BY <1>2, <2>2, <2>3, <2>4, <2>5 DEF Next
<1> QED BY <1>1, <1>2

LEMMA AlwaysIInv == Spec => []IInv
<1>1. Init => IInv
  BY InitIInv
<1>2. IInv /\ [Next]_vars => IInv'
  BY NextIInv
<1> QED BY <1>1, <1>2, PTL DEF Spec

(* Every variable keeps its type; cc_koperations, which crypto_kdone takes  *)
(* down on whatever slot krp_hid names, stays an unsigned number.           *)
THEOREM AsymTypeOK == Spec => []TypeOK
<1>1. IInv => TypeOK
  BY DEF IInv
<1> QED BY <1>1, AlwaysIInv, PTL

(* An operation is on one queue, with one driver or in one thread's hands,  *)
(* and CRYPTO_KF_DONE is set exactly from crypto_kdone on: crypto_kdispatch,*)
(* crypto_proc, the drivers and crypto_ret_proc never complete it twice.    *)
THEOREM AsymOneOwner == Spec => []KopOneOwner
<1>1. IInv => KopOneOwner
  BY DEF IInv
<1> QED BY <1>1, AlwaysIInv, PTL

(* An operation that crypto_kdispatch took and whose callback was not       *)
(* called is on a queue, with a driver or in a thread's hands.             *)
THEOREM AsymNeverLost == Spec => []KopNeverLost
<1>1. IInv => KopNeverLost
  BY DEF IInv
<1> QED BY <1>1, AlwaysIInv, PTL

-----------------------------------------------------------------------------
(* The slots: a driver that may refuse an operation keeps its slot, and a   *)
(* slot given up is free again when its last operation is done.            *)

(* driver_finis cleared everything but the counts of a slot in cleanup. *)
CleanupForgets ==
  \A h \in Hids : table[h].cleanup => table[h].dev = None /\ table[h].algs = {}

Refuses(h) == table[h].dev \in RestartDevs

(* Who is to put an operation back on crp_kq got ERESTART from a driver that *)
(* is still in its slot, and so is that of each operation on crp_kq.        *)
RestartHeld ==
  \A t \in Threads : pc[t] \in {"krestart", "krequeue"} => Refuses(hid[krp[t]])
QueueHeld == \A k \in Elems(krpQ) : Refuses(hid[k])

SlotInv == CleanupForgets /\ KopCleanupEnds /\ RestartHeld /\ QueueHeld

SlotsKeep == \A h \in Hids : Refuses(h) => Refuses(h)'

(* No operation changes its slot but one that t has in hand or frees, and t *)
(* puts none on crp_kq but one whose driver refused it.                     *)
LEMMA HeldOther ==
  ASSUME IInv, SlotInv, SlotsKeep, NEW t \in Threads, StepOf(t),
         \A k \in Kops : \/ hid'[k] = hid[k]
                         \/ /\ k \notin Elems(krpQ)
                            /\ \A u \in Threads \ {t} : Holds(u) => krp[u] # k,
         pc'[t] \in {"krestart", "krequeue"} => Refuses(hid[krp[t]])',
         \A k \in Elems(krpQ') : k \in Elems(krpQ) \/ Refuses(hid[k])'
  PROVE  RestartHeld' /\ QueueHeld'
<1>1. ASSUME NEW u \in Threads \ {t}, pc'[u] \in {"krestart", "krequeue"}
      PROVE  Refuses(hid[krp[u]])'
  <2>1. pc'[u] = pc[u] /\ krp'[u] = krp[u]
    BY <1>1 DEF StepOf
  <2>2. Holds(u)
    BY <1>1, <2>1 DEF Holds, HoldsPending
  <2>3. krp[u] \in Kops /\ hid[krp[u]] \in Hids
    BY <2>2, InHand
  <2>4. hid'[krp[u]] = hid[krp[u]]
    BY <2>2, <2>3
  <2>5. Refuses(hid[krp[u]])
    BY <1>1, <2>1 DEF SlotInv, RestartHeld
  <2>6. table'[hid[krp[u]]].dev \in RestartDevs
    BY <2>3, <2>5 DEF SlotsKeep, Refuses
  <2> QED BY <2>1, <2>4, <2>6 DEF Refuses
<1>2. RestartHeld'
  BY <1>1 DEF RestartHeld
<1>3. ASSUME NEW k \in Elems(krpQ), k \in Elems(krpQ')
      PROVE  Refuses(hid[k])'
  <2>1. k \in Kops /\ hid[k] \in Hids
    BY DEF IInv, TypeOK, Elems
  <2>2. hid'[k] = hid[k]
    BY <2>1
  <2>3. table'[hid[k]].dev \in RestartDevs
    BY <2>1 DEF SlotInv, QueueHeld, SlotsKeep, Refuses
  <2> QED BY <2>2, <2>3 DEF Refuses
<1>4. QueueHeld'
  <2>1. Elems(krpQ)' = Elems(krpQ')
    BY DEF Elems
  <2> QED BY <1>3, <2>1 DEF QueueHeld
<1> QED BY <1>2, <1>4

(* A step that leaves the table, crp_kq and every krp_hid. *)
LEMMA SlotsQuiet ==
  ASSUME IInv, SlotInv, NEW t \in Threads, StepOf(t), UNCHANGED <<table, krpQ, hid>>,
         pc'[t] \notin {"krestart", "krequeue"}
  PROVE  SlotInv'
<1>1. SlotsKeep /\ Elems(krpQ') = Elems(krpQ)
  BY DEF SlotsKeep, Refuses
<1>2. RestartHeld' /\ QueueHeld'
  BY <1>1, HeldOther
<1>3. CleanupForgets' /\ KopCleanupEnds'
  BY DEF SlotInv, CleanupForgets, KopCleanupEnds
<1> QED BY <1>2, <1>3 DEF SlotInv

(* A step that changes one slot of the table and moves no operation. *)
LEMMA SlotChanges ==
  ASSUME IInv, SlotInv, NEW t \in Threads, StepOf(t), NEW h \in Hids, NEW s,
         table' = [table EXCEPT ![h] = s],
         s.cleanup => s.dev = None /\ s.algs = {} /\ Busy(s),
         Refuses(h) => s.dev \in RestartDevs
  PROVE  CleanupForgets' /\ KopCleanupEnds' /\ SlotsKeep
<1>1. /\ table'[h] = s
      /\ \A g \in Hids \ {h} : table'[g] = table[g]
  BY DEF IInv, TypeOK
<1>2. SlotsKeep
  BY <1>1 DEF SlotsKeep, Refuses
<1>3. CleanupForgets'
  BY <1>1 DEF SlotInv, CleanupForgets
<1>4. KopCleanupEnds'
  BY <1>1 DEF SlotInv, KopCleanupEnds
<1> QED BY <1>2, <1>3, <1>4

(* The driver in a slot in cleanup has left, so it refuses nothing. *)
LEMMA RefusesStays ==
  ASSUME IInv, SlotInv, NEW h \in Hids, Refuses(h)
  PROVE  ~table[h].cleanup
BY AsymAssumption, DevsAssumption DEF SlotInv, CleanupForgets, Refuses

LEMMA AttachSlots ==
  ASSUME IInv, SlotInv, NEW d \in Devs, Attach(d)
  PROVE  SlotInv' /\ SlotsKeep
<1>1. /\ d \in Threads /\ StepOf(d) /\ pc'[d] = pc[d] /\ pc[d] \in Labels
      /\ UNCHANGED <<krpQ, hid, krp>>
  BY ThreadKinds DEF Attach, StepOf, kopVars, threadVars, queueVars, IInv, TypeOK
<1>2. PICK h \in FirstUnused(table) :
        table' = [table EXCEPT ![h].dev = d, ![h].algs = Algs]
  BY DEF Attach
<1>3. h \in Hids /\ table[h].dev = None /\ ~table[h].cleanup /\ table[h] \in Slot
  BY DEF IInv, TypeOK, FirstUnused, Unused
<1> DEFINE s == [table[h] EXCEPT !.dev = d, !.algs = Algs]
<1>4. table' = [table EXCEPT ![h] = s] /\ ~s.cleanup
  BY <1>2, <1>3 DEF IInv, TypeOK, Slot
<1>5. ~Refuses(h)
  BY <1>3, AsymAssumption, DevsAssumption DEF Refuses
<1> HIDE DEF s
<1>6. CleanupForgets' /\ KopCleanupEnds' /\ SlotsKeep
  BY <1>1, <1>3, <1>4, <1>5, SlotChanges
<1>7. pc'[d] \in {"krestart", "krequeue"} => Refuses(hid[krp[d]])'
  <2>1. ASSUME pc[d] \in {"krestart", "krequeue"} PROVE Refuses(hid[krp[d]])'
    <3>1. Refuses(hid[krp[d]]) /\ Holds(d)
      BY <1>1, <2>1 DEF SlotInv, RestartHeld, Holds, HoldsPending
    <3>2. hid[krp[d]] \in Hids
      BY <1>1, <3>1, InHand
    <3> QED BY <1>1, <1>6, <3>1, <3>2 DEF SlotsKeep, Refuses
  <2> QED BY <1>1, <2>1
<1>8. Elems(krpQ') = Elems(krpQ)
  BY <1>1
<1>9. RestartHeld' /\ QueueHeld'
  BY <1>1, <1>6, <1>7, <1>8, HeldOther
<1> QED BY <1>6, <1>9 DEF SlotInv

LEMMA DetachSlots ==
  ASSUME IInv, SlotInv, Removable \cap RestartDevs = {}, NEW d \in Devs, Detach(d)
  PROVE  SlotInv' /\ SlotsKeep
<1>1. /\ d \in Threads /\ StepOf(d) /\ pc[d] = "idle" /\ pc'[d] = "idle"
      /\ UNCHANGED <<krpQ, hid>>
  BY ThreadKinds DEF Detach, StepOf, kopVars, threadVars
<1>2. PICK h \in SlotsOf(d) : table' = [table EXCEPT ![h] = Finis(@)]
  BY DEF Detach
<1>3. h \in Hids /\ table[h].dev = d /\ d \in Removable /\ table[h] \in Slot
  BY DEF SlotsOf, Detach, IInv, TypeOK
<1> DEFINE s == Finis(table[h])
<1>4. table' = [table EXCEPT ![h] = s] /\ ~Refuses(h)
  BY <1>2, <1>3 DEF IInv, TypeOK, Refuses
<1>5. s.cleanup => s.dev = None /\ s.algs = {} /\ Busy(s)
  BY <1>3 DEF Finis, Zeroed, Busy, Slot
<1> HIDE DEF s
<1>6. CleanupForgets' /\ KopCleanupEnds' /\ SlotsKeep
  BY <1>1, <1>3, <1>4, <1>5, SlotChanges
<1>7. Elems(krpQ') = Elems(krpQ)
  BY <1>1
<1>8. RestartHeld' /\ QueueHeld'
  BY <1>1, <1>6, <1>7, HeldOther
<1> QED BY <1>6, <1>8 DEF SlotInv

(* A driver that was chosen is not in cleanup. *)
LEMMA ChosenStays ==
  ASSUME IInv, SlotInv, Algs # {}, NEW c, NEW h \in Chosen(c)
  PROVE  h \in Hids /\ ~table[h].cleanup
<1>1. CASE c.flags = {}
  BY <1>1 DEF Chosen, Suitable, SlotInv, CleanupForgets
<1>2. CASE c.flags # {}
  <2>1. \A b : h \in Least(Candidates(table, b, Algs), KopLoad(table))
                  => h \in Candidates(table, b, Algs)
    BY DEF Least
  <2>2. \E b : h \in Candidates(table, b, Algs)
    BY <1>2, <2>1 DEF Chosen, Select
  <2> QED BY <2>2 DEF Candidates, IInv, TypeOK
<1> QED BY <1>1, <1>2

LEMMA KInvokeSlots ==
  ASSUME IInv, SlotInv, Algs # {}, NEW t \in Threads, NEW h \in Hids, KInvoke(t, h)
  PROVE  SlotInv' /\ SlotsKeep
<1>1. /\ pc[t] = "kinvoke" /\ Goto(t, "kprocess") /\ UNCHANGED <<krpQ, krp>>
      /\ h \in Chosen(Asked(t)) /\ hid' = [hid EXCEPT ![krp[t]] = h]
      /\ table' = [table EXCEPT ![h].kops = More(@)]
  BY DEF KInvoke, queueVars
<1>2. Holds(t) /\ krp[t] \in Kops /\ ~table[h].cleanup /\ table[h] \in Slot
  BY <1>1, InHand, ChosenStays DEF Holds, HoldsPending, IInv, TypeOK
<1>3. StepOf(t) /\ pc'[t] = "kprocess"
  BY <1>1, GotoMoves DEF IInv, StepOf, Labels
<1> DEFINE s == [table[h] EXCEPT !.kops = More(@)]
<1>4. table' = [table EXCEPT ![h] = s] /\ ~s.cleanup /\ s.dev = table[h].dev
  BY <1>1, <1>2 DEF IInv, TypeOK, Slot
<1> HIDE DEF s
<1>5. CleanupForgets' /\ KopCleanupEnds' /\ SlotsKeep
  BY <1>3, <1>4, SlotChanges DEF Refuses
<1>6. \A k \in Kops : \/ hid'[k] = hid[k]
                      \/ /\ k \notin Elems(krpQ)
                         /\ \A u \in Threads \ {t} : Holds(u) => krp[u] # k
  <2>1. \A k \in Kops \ {krp[t]} : hid'[k] = hid[k]
    BY <1>1 DEF IInv, TypeOK
  <2>2. /\ krp[t] \notin Elems(krpQ)
        /\ \A u \in Threads \ {t} : Holds(u) => krp[u] # krp[t]
    BY <1>2 DEF IInv, KopOneOwner
  <2> QED BY <2>1, <2>2
<1>7. Elems(krpQ') = Elems(krpQ)
  BY <1>1
<1>8. RestartHeld' /\ QueueHeld'
  BY <1>3, <1>5, <1>6, <1>7, HeldOther
<1> QED BY <1>5, <1>8 DEF SlotInv

LEMMA KProcessSlots ==
  ASSUME IInv, SlotInv, NEW t \in Threads, KProcess(t)
  PROVE  SlotInv'
<1> DEFINE d == table[hid[krp[t]]].dev
<1>1. /\ pc[t] = "kprocess" /\ UNCHANGED <<krpQ, hid, table, krp>>
      /\ \/ Goto(t, "oops") \/ Goto(t, "kaccepted") \/ Goto(t, "kdone")
         \/ Goto(t, "krestart") /\ d \in RestartDevs
  BY DEF KProcess, queueVars
<1> HIDE DEF d
<1>2. /\ StepOf(t)
      /\ \/ pc'[t] \in {"oops", "kaccepted", "kdone"}
         \/ pc'[t] = "krestart" /\ d \in RestartDevs
  BY <1>1, GotoMoves DEF IInv, StepOf, Labels
<1>3. pc'[t] \in {"krestart", "krequeue"} => Refuses(hid[krp[t]])'
  BY <1>1, <1>2 DEF Refuses, d
<1>4. SlotsKeep /\ Elems(krpQ') = Elems(krpQ)
  BY <1>1 DEF SlotsKeep, Refuses
<1>5. RestartHeld' /\ QueueHeld'
  BY <1>1, <1>2, <1>3, <1>4, HeldOther
<1>6. CleanupForgets' /\ KopCleanupEnds'
  BY <1>1 DEF SlotInv, CleanupForgets, KopCleanupEnds
<1> QED BY <1>5, <1>6, SMTT(30) DEF SlotInv

LEMMA KRestartedSlots ==
  ASSUME IInv, SlotInv, NEW t \in Threads, KRestarted(t)
  PROVE  SlotInv' /\ SlotsKeep
<1> DEFINE h == hid[krp[t]]
<1>1. /\ pc[t] = "krestart" /\ Goto(t, "krequeue") /\ UNCHANGED <<krpQ, hid, krp>>
      /\ table' = [table EXCEPT ![h].kops = Less(@)]
  BY DEF KRestarted, kopVars, queueVars
<1>2. Holds(t) /\ Refuses(h)
  BY <1>1 DEF Holds, HoldsPending, SlotInv, RestartHeld
<1>3. h \in Hids
  BY <1>2, InHand
<1> HIDE DEF h
<1>4. ~table[h].cleanup /\ table[h] \in Slot
  BY <1>2, <1>3, RefusesStays DEF IInv, TypeOK
<1>5. StepOf(t) /\ pc'[t] = "krequeue"
  BY <1>1, GotoMoves DEF IInv, StepOf, Labels
<1> DEFINE s == [table[h] EXCEPT !.kops = Less(@)]
<1>6. table' = [table EXCEPT ![h] = s] /\ ~s.cleanup /\ s.dev = table[h].dev
  BY <1>1, <1>3, <1>4 DEF IInv, TypeOK, Slot
<1> HIDE DEF s
<1>7. CleanupForgets' /\ KopCleanupEnds' /\ SlotsKeep
  BY <1>3, <1>5, <1>6, SlotChanges DEF Refuses
<1>8. Refuses(hid[krp[t]])'
  BY <1>1, <1>2, <1>3, <1>7 DEF SlotsKeep, Refuses, h
<1>9. Elems(krpQ') = Elems(krpQ)
  BY <1>1
<1>10. RestartHeld' /\ QueueHeld'
  BY <1>1, <1>5, <1>7, <1>8, <1>9, HeldOther
<1> QED BY <1>7, <1>10 DEF SlotInv

LEMMA KCountSlots ==
  ASSUME IInv, SlotInv, NEW t \in Threads, KCount(t)
  PROVE  SlotInv' /\ SlotsKeep
<1> DEFINE h == hid[krp[t]]
           s == Uncounted(table[h])
<1>1. /\ pc[t] = "kcount" /\ UNCHANGED <<krpQ, hid, krp>>
      /\ table' = [table EXCEPT ![h] = Uncounted(@)]
      /\ Goto(t, "kcallback") \/ Goto(t, "kreturn")
  BY DEF KCount, kopVars
<1>2. Holds(t)
  BY <1>1 DEF Holds, HoldsDone
<1>3. h \in Hids
  BY <1>2, InHand
<1> HIDE DEF h
<1>4. table[h] \in Slot
  BY <1>3 DEF IInv, TypeOK
<1>5. StepOf(t) /\ pc'[t] \in {"kcallback", "kreturn"}
  BY <1>1, GotoMoves DEF IInv, StepOf, Labels
<1>6. table' = [table EXCEPT ![h] = s]
  BY <1>1, <1>3 DEF IInv, TypeOK
<1>7. /\ s.cleanup => s.dev = None /\ s.algs = {} /\ Busy(s)
      /\ Refuses(h) => s.dev \in RestartDevs
  <2>1. CASE table[h].cleanup
    <3> DEFINE left == [table[h] EXCEPT !.kops = Less(@)]
    <3>1. left.dev = None /\ left.algs = {} /\ s = Remove(left)
      BY <1>3, <1>4, <2>1 DEF SlotInv, CleanupForgets, Slot, Uncounted
    <3> HIDE DEF left, s
    <3>2. s.cleanup => s.dev = None /\ s.algs = {} /\ Busy(s)
      BY <3>1 DEF Remove, Zeroed
    <3> QED BY <1>3, <2>1, <3>2, RefusesStays
  <2>2. CASE ~table[h].cleanup
    <3>1. s = [table[h] EXCEPT !.kops = Less(@)]
      BY <2>2 DEF Uncounted
    <3> QED BY <1>4, <2>2, <3>1 DEF Slot, Refuses
  <2> QED BY <2>1, <2>2
<1> HIDE DEF s
<1>8. CleanupForgets' /\ KopCleanupEnds' /\ SlotsKeep
  BY <1>3, <1>5, <1>6, <1>7, SlotChanges
<1>9. Elems(krpQ') = Elems(krpQ)
  BY <1>1
<1>10. RestartHeld' /\ QueueHeld'
  BY <1>1, <1>5, <1>8, <1>9, HeldOther
<1> QED BY <1>8, <1>10 DEF SlotInv

(* An operation its driver refused goes on crp_kq. *)
LEMMA QueuedSlots ==
  ASSUME IInv, SlotInv, NEW t \in Threads, StepOf(t), pc[t] = "krequeue",
         UNCHANGED <<table, hid>>, Elems(krpQ') = Elems(krpQ) \cup {krp[t]},
         pc'[t] \notin {"krestart", "krequeue"}
  PROVE  SlotInv'
<1>1. SlotsKeep
  BY DEF SlotsKeep, Refuses
<1>2. \A k \in Elems(krpQ') : k \in Elems(krpQ) \/ Refuses(hid[k])'
  <2>1. ASSUME NEW k \in Elems(krpQ'), k = krp[t] PROVE Refuses(hid[k])'
    BY <2>1 DEF Refuses, SlotInv, RestartHeld
  <2> QED BY <2>1
<1>3. RestartHeld' /\ QueueHeld'
  BY <1>1, <1>2, HeldOther
<1>4. CleanupForgets' /\ KopCleanupEnds'
  BY DEF SlotInv, CleanupForgets, KopCleanupEnds
<1> QED BY <1>3, <1>4 DEF SlotInv

LEMMA KDispatchQueueSlots ==
  ASSUME IInv, SlotInv, NEW k \in Kops, KDispatchQueue(k)
  PROVE  SlotInv'
<1>1. /\ k \in Threads /\ pc[k] = "krequeue" /\ UNCHANGED <<table, hid, krp>>
      /\ krpQ' = Append(krpQ, k) /\ krpQ \in Seq(Kops) /\ krp[k] = k
      /\ \E S : pc' = [WakeUp(S, pc) EXCEPT ![k] = "kwait"]
  BY ThreadKinds DEF KDispatchQueue, Queued, kopVars, IInv, TypeOK, HandsFull
<1>2. StepOf(k) /\ pc'[k] = "kwait"
  BY <1>1, GotoMoves DEF IInv, StepOf, Labels
<1>3. Elems(krpQ') = Elems(krpQ) \cup {krp[k]}
  BY <1>1, AppendElems
<1> QED BY <1>1, <1>2, <1>3, QueuedSlots

LEMMA ProcRequeueSlots ==
  ASSUME IInv, SlotInv, NEW p \in Procs, ProcRequeue(p)
  PROVE  SlotInv'
<1>1. /\ p \in Threads /\ p \notin Kops /\ pc[p] = "krequeue"
      /\ UNCHANGED <<table, hid>> /\ krpQ' = <<krp[p]>> \o krpQ /\ krpQ \in Seq(Kops)
      /\ krp' = Dropped(p) /\ Goto(p, "scan")
  BY ThreadKinds DEF ProcRequeue, kopVars, IInv, TypeOK
<1>2. krp[p] \in Kops
  BY <1>1, InHand DEF Holds, HoldsPending
<1>3. StepOf(p) /\ pc'[p] = "scan"
  BY <1>1, DroppedMoves DEF Labels, Steady
<1>4. Elems(krpQ') = Elems(krpQ) \cup {krp[p]}
  BY <1>1, <1>2, ConsElems
<1> QED BY <1>1, <1>3, <1>4, QueuedSlots

LEMMA ProcSubmitSlots ==
  ASSUME IInv, SlotInv, NEW p \in Procs, NEW i \in DOMAIN krpQ, ProcSubmit(p, i)
  PROVE  SlotInv'
<1>1. p \in Threads /\ p \notin Kops /\ UNCHANGED <<table, hid>>
  BY ThreadKinds DEF ProcSubmit, kopVars
<1>2. i \in 1 .. Len(krpQ) /\ krpQ \in Seq(Kops) /\ NoRepeats(krpQ) /\ krpQ[i] \in Kops
  BY DEF IInv, TypeOK, KopOneOwner
<1>3. CASE NoDriver(i)
  <2>1. UNCHANGED <<krpQ, krp>> /\ Goto(p, "oops")
    BY <1>3 DEF ProcSubmit, queueVars
  <2>2. StepOf(p) /\ pc'[p] = "oops"
    BY <1>1, <2>1, GotoMoves DEF IInv, StepOf, Labels
  <2> QED BY <1>1, <2>1, <2>2, SlotsQuiet
<1>4. CASE ~NoDriver(i)
  <2>1. /\ krpQ' = Unlinked(i) /\ krp' = [krp EXCEPT ![p] = krpQ[i]]
        /\ Goto(p, "kinvoke")
    BY <1>4 DEF ProcSubmit
  <2>2. StepOf(p) /\ pc'[p] = "kinvoke"
    BY <1>1, <1>2, <2>1, TakenMoves DEF Labels, Steady
  <2>3. Elems(krpQ') = Elems(krpQ) \ {krpQ[i]}
    BY <1>2, <2>1, WithoutElems DEF Unlinked
  <2>4. SlotsKeep /\ \A k \in Elems(krpQ') : k \in Elems(krpQ)
    BY <1>1, <2>3 DEF SlotsKeep, Refuses
  <2>5. RestartHeld' /\ QueueHeld'
    BY <1>1, <2>2, <2>4, HeldOther
  <2>6. CleanupForgets' /\ KopCleanupEnds'
    BY <1>1 DEF SlotInv, CleanupForgets, KopCleanupEnds
  <2> QED BY <2>5, <2>6 DEF SlotInv
<1> QED BY <1>3, <1>4

(* The client frees its operation: nobody holds it and no queue has it. *)
LEMMA KWaitSlots ==
  ASSUME IInv, SlotInv, NEW k \in Kops, KWait(k)
  PROVE  SlotInv'
<1>1. /\ k \in Threads /\ pc[k] = "kwait" /\ Goto(k, "ready")
      /\ hid' = [hid EXCEPT ![k] = 0] /\ UNCHANGED <<table, krpQ, krp>>
      /\ \A t \in Threads \ {k} : krp[t] # k
  BY ThreadKinds DEF KWait, queueVars
<1>2. StepOf(k) /\ pc'[k] = "ready"
  BY <1>1, GotoMoves DEF IInv, StepOf, Labels
<1>3. k \notin Elems(krpQ)
  <2>1. Finished(k)
    BY DEF KWait
  <2>2. k \in Elems(krpQ) => ~done[k] /\ k \in busy
    BY DEF IInv, KopOneOwner, PlacesBusy
  <2> QED BY <2>1, <2>2 DEF Finished
<1>4. \A j \in Kops : \/ hid'[j] = hid[j]
                      \/ /\ j \notin Elems(krpQ)
                         /\ \A u \in Threads \ {k} : Holds(u) => krp[u] # j
  BY <1>1, <1>3 DEF IInv, TypeOK
<1>5. SlotsKeep /\ Elems(krpQ') = Elems(krpQ)
  BY <1>1 DEF SlotsKeep, Refuses
<1>6. RestartHeld' /\ QueueHeld'
  BY <1>1, <1>2, <1>4, <1>5, HeldOther
<1>7. CleanupForgets' /\ KopCleanupEnds'
  BY <1>1 DEF SlotInv, CleanupForgets, KopCleanupEnds
<1> QED BY <1>6, <1>7 DEF SlotInv

(* The steps that leave the table, crp_kq and every krp_hid alone: where    *)
(* thread t goes.                                                          *)
Aside(t, l) == StepOf(t) /\ pc'[t] = l /\ UNCHANGED <<table, krpQ, hid>>

LEMMA BackStays ==
  ASSUME NEW t \in Threads
  PROVE  Back(t) \in Labels \ {"wait", "asleep", "krestart", "krequeue"}
BY BackLabels DEF Labels

LEMMA ClientAside ==
  ASSUME IInv, NEW k \in Kops, KDispatchEnd(k) \/ \E c \in Crids : KDispatch(k, c)
  PROVE  Aside(k, "kwait") \/ Aside(k, "kinvoke")
<1>1. /\ k \in Threads /\ UNCHANGED <<table, krpQ, hid, krp>>
      /\ Goto(k, "kwait") \/ Goto(k, "kinvoke")
  BY ThreadKinds DEF KDispatchEnd, KDispatch, kopVars, queueVars
<1> QED BY <1>1, GotoMoves DEF IInv, StepOf, Labels, Aside

LEMMA InvokeAside ==
  ASSUME IInv, NEW t \in Threads, KInvokeFails(t) \/ KAccepted(t)
  PROVE  Aside(t, "kdone") \/ Aside(t, "kend")
<1>1. /\ UNCHANGED <<table, krpQ, hid, krp>>
      /\ Goto(t, "kdone") \/ Goto(t, "kend")
  BY DEF KInvokeFails, KAccepted, queueVars
<1> QED BY <1>1, GotoMoves DEF IInv, StepOf, Labels, Aside

LEMMA FinishAside ==
  ASSUME IInv, NEW t \in Threads, KMark(t) \/ KReturn(t) \/ KCallback(t)
  PROVE  \E l \in Labels \ {"wait", "asleep", "krestart", "krequeue"} : Aside(t, l)
<1>1. CASE KMark(t)
  <2>1. UNCHANGED <<table, krpQ, hid, krp>> /\ Goto(t, "kcount")
    BY <1>1 DEF KMark, queueVars
  <2>2. Aside(t, "kcount")
    BY <2>1, GotoMoves DEF IInv, StepOf, Labels, Aside
  <2> QED BY <2>2 DEF Labels
<1>2. CASE KReturn(t)
  <2>1. /\ UNCHANGED <<table, krpQ, hid, krp>>
        /\ \E S : pc' = [WakeUp(S, pc) EXCEPT ![t] = Back(t)]
    BY <1>2 DEF KReturn, queueVars, kopVars
  <2>2. Aside(t, Back(t))
    BY <2>1, BackStays, GotoMoves DEF IInv, StepOf, Aside
  <2> QED BY <2>2, BackStays
<1>3. CASE KCallback(t)
  <2>1. /\ UNCHANGED <<table, krpQ, hid>> /\ Goto(t, Back(t))
        /\ \A u \in Threads \ {t} : krp'[u] = krp[u]
    BY <1>3 DEF KCallback, queueVars, kopVars, Dropped, IInv, TypeOK
  <2>2. Aside(t, Back(t))
    BY <2>1, BackStays, GotoMoves DEF IInv, StepOf, Aside
  <2> QED BY <2>2, BackStays
<1> QED BY <1>1, <1>2, <1>3

LEMMA ProcAside ==
  ASSUME IInv, NEW p \in Procs, ProcIdle(p) \/ ProcWait(p) \/ ProcEnd(p)
  PROVE  \E l \in {"wait", "scan", "asleep"} : Aside(p, l)
<1>1. p \in Threads /\ p \notin Kops
  BY ThreadKinds
<1>2. CASE ProcIdle(p) \/ ProcWait(p)
  <2>1. /\ UNCHANGED <<table, krpQ, hid, krp>>
        /\ Goto(p, "wait") \/ Goto(p, "scan") \/ Goto(p, "asleep")
    BY <1>2 DEF ProcIdle, ProcWait, kopVars, queueVars
  <2> QED BY <1>1, <2>1, GotoMoves DEF IInv, StepOf, Labels, Aside
<1>3. CASE ProcEnd(p)
  <2>1. UNCHANGED <<table, krpQ, hid>> /\ Goto(p, "scan") /\ krp' = Dropped(p)
    BY <1>3 DEF ProcEnd, kopVars
  <2>2. StepOf(p) /\ pc'[p] = "scan"
    BY <1>1, <2>1, DroppedMoves DEF Labels, Steady
  <2> QED BY <2>1, <2>2 DEF Aside
<1> QED BY <1>2, <1>3

LEMMA RetAside ==
  ASSUME IInv, NEW t \in Rets, RetHarvest(t) \/ RetWait(t)
  PROVE  \E l \in {"wait", "harvest", "asleep", "kcallback"} : Aside(t, l)
<1>1. t \in Threads
  BY ThreadKinds
<1>2. /\ UNCHANGED <<table, krpQ, hid>> /\ \A u \in Threads \ {t} : krp'[u] = krp[u]
      /\ \E l \in {"wait", "harvest", "asleep", "kcallback"} : Goto(t, l)
  BY DEF RetHarvest, RetWait, kopVars, queueVars, IInv, TypeOK
<1> QED BY <1>1, <1>2, GotoMoves DEF IInv, StepOf, Labels, Aside

LEMMA DriverAside ==
  ASSUME IInv, NEW d \in Devs,
         Drained(d) \/ Unblock(d) \/ \E k \in ring[d] : Poll(d, k)
  PROVE  \E l \in {"kdone", "idle", "unblock"} : Aside(d, l)
<1>1. d \in Threads
  BY ThreadKinds
<1>2. /\ UNCHANGED <<table, krpQ, hid>> /\ \A u \in Threads \ {d} : krp'[u] = krp[u]
      /\ \E l \in {"kdone", "idle", "unblock"} :
           Goto(d, l) \/ \E S : pc' = [WakeUp(S, pc) EXCEPT ![d] = l]
  BY DEF Drained, Unblock, Poll, kopVars, queueVars, Dropped, IInv, TypeOK
<1> QED BY <1>1, <1>2, GotoMoves DEF IInv, StepOf, Labels, Aside

LEMMA AsideSlots ==
  ASSUME IInv, SlotInv, NEW t \in Threads, NEW l, Aside(t, l),
         l \notin {"krestart", "krequeue"}
  PROVE  SlotInv'
BY SlotsQuiet DEF Aside

LEMMA FinishSlots ==
  ASSUME IInv, SlotInv, NEW t \in Threads, Finish(t)
  PROVE  SlotInv'
BY KCountSlots, FinishAside, AsideSlots DEF Finish

LEMMA InvokeSlots ==
  ASSUME IInv, SlotInv, Algs # {}, NEW t \in Threads, Invoke(t)
  PROVE  SlotInv'
BY KInvokeSlots, KProcessSlots, KRestartedSlots, InvokeAside, AsideSlots DEF Invoke

LEMMA NextSlots ==
  ASSUME IInv, SlotInv, Algs # {}, Removable \cap RestartDevs = {}, [Next]_vars
  PROVE  SlotInv'
<1>1. ASSUME NEW d \in Devs, Attach(d) \/ Detach(d) \/ DriverStep(d) PROVE SlotInv'
  <2>1. CASE Attach(d) \/ Detach(d)
    BY <2>1, AttachSlots, DetachSlots
  <2>2. CASE Finish(d)
    BY <2>2, FinishSlots, ThreadKinds
  <2>3. CASE Drained(d) \/ Unblock(d) \/ \E k \in ring[d] : Poll(d, k)
    <3>1. \E l \in {"kdone", "idle", "unblock"} : Aside(d, l)
      BY <2>3, DriverAside
    <3> QED BY <3>1, AsideSlots, ThreadKinds
  <2> QED BY <1>1, <2>1, <2>2, <2>3 DEF DriverStep
<1>2. ASSUME NEW k \in Kops, ClientStep(k) \/ \E c \in Crids : KDispatch(k, c)
      PROVE  SlotInv'
  <2>1. CASE Invoke(k) \/ Finish(k)
    BY <2>1, InvokeSlots, FinishSlots, ThreadKinds
  <2>2. CASE KDispatchQueue(k) \/ KWait(k)
    BY <2>2, KDispatchQueueSlots, KWaitSlots
  <2>3. CASE KDispatchEnd(k) \/ \E c \in Crids : KDispatch(k, c)
    BY <2>3, ClientAside, AsideSlots, ThreadKinds
  <2> QED BY <1>2, <2>1, <2>2, <2>3 DEF ClientStep
<1>3. ASSUME NEW p \in Procs, ProcStep(p) PROVE SlotInv'
  <2>1. CASE Invoke(p) \/ Finish(p)
    BY <2>1, InvokeSlots, FinishSlots, ThreadKinds
  <2>2. CASE (\E i \in DOMAIN krpQ : ProcSubmit(p, i)) \/ ProcRequeue(p)
    BY <2>2, ProcSubmitSlots, ProcRequeueSlots
  <2>3. CASE ProcIdle(p) \/ ProcWait(p) \/ ProcEnd(p)
    BY <2>3, ProcAside, AsideSlots, ThreadKinds
  <2> QED BY <1>3, <2>1, <2>2, <2>3 DEF ProcStep
<1>4. ASSUME NEW t \in Rets, RetStep(t) PROVE SlotInv'
  <2>1. CASE RetHarvest(t) \/ RetWait(t)
    BY <2>1, RetAside, AsideSlots, ThreadKinds
  <2>2. CASE KCallback(t)
    BY <2>2, FinishSlots, ThreadKinds DEF Finish
  <2> QED BY <1>4, <2>1, <2>2 DEF RetStep
<1>5. CASE UNCHANGED vars
  BY <1>5 DEF vars, queueVars, kopVars, threadVars, SlotInv, CleanupForgets,
              KopCleanupEnds, RestartHeld, QueueHeld, Refuses
<1> QED BY <1>1, <1>2, <1>3, <1>4, <1>5 DEF Next

LEMMA InitSlots == Init => SlotInv
<1> SUFFICES ASSUME Init PROVE SlotInv
  OBVIOUS
<1>1. \A t \in Threads : pc[t] \notin {"krestart", "krequeue"}
  BY StartLabels DEF Init
<1>2. Elems(krpQ) = {} /\ \A h \in Hids : ~table[h].cleanup
  BY DEF Init, Elems, Zeroed
<1> QED BY <1>1, <1>2
        DEF SlotInv, CleanupForgets, KopCleanupEnds, RestartHeld, QueueHeld

LEMMA AlwaysSlotInv ==
  ASSUME Algs # {}, Removable \cap RestartDevs = {}
  PROVE  Spec => []SlotInv
<1>1. Init => SlotInv
  BY InitSlots
<1>2. IInv /\ SlotInv /\ [Next]_vars => SlotInv'
  BY NextSlots
<1> QED BY <1>1, <1>2, AlwaysIInv, PTL DEF Spec

(* A slot in cleanup still counts an operation, so crypto_kdone gives it up *)
(* when the last one is done, for any number of operations, threads and     *)
(* slots and although cc_koperations wraps.  The drivers that answer        *)
(* ERESTART stay: crypto_kinvoke lowers the count again without a look at   *)
(* the slot, and would leave it in cleanup with nothing to wait for.        *)
THEOREM CleanupIsLeft ==
  ASSUME Algs # {}, Removable \cap RestartDevs = {}
  PROVE  Spec => []KopCleanupEnds
<1>1. SlotInv => KopCleanupEnds
  BY DEF SlotInv
<1> QED BY <1>1, AlwaysSlotInv, PTL

-----------------------------------------------------------------------------
(* crypto_proc does not sleep on an operation, when one driver may refuse   *)
(* some: who sleeps, or is about to, has seen crp_kq empty or that driver's *)
(* slot blocked, and whoever changes that wakes it.                         *)
Awake(p) == pc[p] \notin {"wait", "asleep"}
Blocked == \E h \in kqBlocked : Refuses(h)

OneSlot == \A g, h \in Hids : Refuses(g) /\ Refuses(h) => g = h
StalledWithWork == allKQBlocked => krpQ # <<>>
StalledWatched == allKQBlocked /\ ~Blocked => \E p \in Procs : Awake(p)
WorkWatched == krpQ # <<>> /\ ~Blocked => \E p \in Procs : pc[p] # "asleep"
WorkInv == OneSlot /\ StalledWithWork /\ StalledWatched /\ WorkWatched

LEMMA WorkInvEnough ==
  ASSUME IInv, SlotInv, WorkInv, Procs # {}
  PROVE  NoStrandedKop
<1> SUFFICES ASSUME \A p \in Procs : pc[p] = "asleep", NEW i \in DOMAIN krpQ
             PROVE  hid[krpQ[i]] \in kqBlocked
  BY DEF NoStrandedKop
<1>1. krpQ # <<>> /\ krpQ[i] \in Elems(krpQ) /\ krpQ[i] \in Kops
  BY DEF Elems, IInv, TypeOK
<1>2. Refuses(hid[krpQ[i]]) /\ hid[krpQ[i]] \in Hids
  BY <1>1 DEF SlotInv, QueueHeld, IInv, TypeOK
<1>3. PICK h \in kqBlocked : Refuses(h)
  BY <1>1 DEF WorkInv, WorkWatched, Blocked
<1>4. h \in Hids
  BY DEF IInv, TypeOK
<1> QED BY <1>2, <1>3, <1>4 DEF WorkInv, OneSlot

(* A driver that refuses keeps its slot and nobody else gets one. *)
SameSlots == \A h \in Hids : Refuses(h)' <=> Refuses(h)

(* A step after which the threads that watched still watch. *)
LEMMA WorkOther ==
  ASSUME WorkInv, OneSlot', NEW t \in Threads, StepOf(t),
         t \in Procs => pc'[t] \notin {"wait", "asleep"},
         (Blocked => Blocked') \/ t \in Procs,
         allKQBlocked' = FALSE \/ (allKQBlocked' = allKQBlocked /\ StalledWithWork'),
         krpQ' = krpQ \/ t \in Procs
  PROVE  WorkInv'
<1>1. \A p \in Procs : /\ Awake(p) => Awake(p)'
                       /\ pc[p] # "asleep" => pc'[p] # "asleep"
  BY ThreadKinds DEF StepOf, Awake
<1>2. t \in Procs => Awake(t)'
  BY DEF Awake
<1>3. StalledWithWork'
  BY DEF StalledWithWork
<1>4. StalledWatched'
  BY <1>1, <1>2 DEF WorkInv, StalledWatched
<1>5. WorkWatched'
  BY <1>1, <1>2 DEF WorkInv, WorkWatched, Awake
<1> QED BY <1>3, <1>4, <1>5 DEF WorkInv

(* A step that wakes every crypto_proc. *)
LEMMA WorkAwakens ==
  ASSUME WorkInv, OneSlot', Procs # {}, NEW t \in Threads \ Procs, StepOf(t),
         \A p \in Procs : pc'[p] # "asleep",
         \/ allKQBlocked' = FALSE
         \/ allKQBlocked' = allKQBlocked /\ (Blocked => Blocked') /\ StalledWithWork'
  PROVE  WorkInv'
<1>1. \A p \in Procs : Awake(p) => Awake(p)'
  BY ThreadKinds DEF StepOf, Awake
<1>2. StalledWithWork'
  BY DEF StalledWithWork
<1>3. StalledWatched'
  BY <1>1 DEF WorkInv, StalledWatched
<1> QED BY <1>2, <1>3 DEF WorkInv, WorkWatched

LEMMA SameOneSlot ==
  ASSUME WorkInv, SameSlots
  PROVE  OneSlot'
BY DEF WorkInv, OneSlot, SameSlots

(* A step that leaves crp_kq and the flags, and the slots of those that     *)
(* refuse.                                                                 *)
LEMMA WorkElsewhere ==
  ASSUME IInv, WorkInv, NEW t \in Threads, StepOf(t), SameSlots,
         t \in Procs => pc'[t] \notin {"wait", "asleep"},
         UNCHANGED <<krpQ, allKQBlocked>>,
         \A h \in kqBlocked : Refuses(h) => h \in kqBlocked'
  PROVE  WorkInv'
<1>1. OneSlot' /\ StalledWithWork'
  BY SameOneSlot DEF WorkInv, StalledWithWork
<1>2. Blocked => Blocked'
  BY DEF Blocked, SameSlots, IInv, TypeOK
<1> QED BY <1>1, <1>2, WorkOther

LEMMA SlotsSame ==
  ASSUME UNCHANGED table
  PROVE  SameSlots
BY DEF SameSlots, Refuses

LEMMA WokenAll ==
  ASSUME IInv, NEW t \in Threads \ Procs, NEW l, l # "asleep",
         pc' = [WakeUp(Procs, pc) EXCEPT ![t] = l]
  PROVE  \A p \in Procs : pc'[p] # "asleep"
<1>1. \A p \in Procs : WakeUp(Procs, pc)[p] # "asleep"
  BY ThreadKinds DEF WakeUp
<1>2. WakeUp(Procs, pc) \in [Threads -> Labels]
  BY WakeUpMoves DEF IInv
<1> QED BY <1>1, <1>2, ThreadKinds

LEMMA AttachWork ==
  ASSUME IInv, SlotInv, WorkInv, \A e, f \in RestartDevs : e = f,
         NEW d \in Devs, Attach(d)
  PROVE  WorkInv'
<1>1. /\ d \in Threads /\ StepOf(d) /\ d \notin Procs
      /\ UNCHANGED <<krpQ, allKQBlocked, kqBlocked>>
  BY ThreadKinds, KindsAssumption DEF Attach, StepOf, threadVars, queueVars
<1>2. SlotsKeep
  BY AttachSlots
<1>3. Blocked => Blocked'
  BY <1>1, <1>2 DEF Blocked, SlotsKeep, IInv, TypeOK
<1>4. OneSlot'
  <2>1. PICK h \in FirstUnused(table) :
          table' = [table EXCEPT ![h].dev = d, ![h].algs = Algs]
    BY DEF Attach
  <2>2. h \in Hids
    BY DEF IInv, TypeOK, FirstUnused
  <2>3. \A g \in Hids \ {h} : table'[g].dev = table[g].dev /\ table[g].dev # d
    BY <2>1, <2>2 DEF IInv, TypeOK, Slot, Attach, SlotsOf
  <2>4. table'[h].dev = d
    BY <2>1, <2>2 DEF IInv, TypeOK, Slot
  <2> QED BY <2>3, <2>4 DEF WorkInv, OneSlot, Refuses
<1>5. StalledWithWork'
  BY <1>1 DEF WorkInv, StalledWithWork
<1> QED BY <1>1, <1>3, <1>4, <1>5, WorkOther

(* A slot that changes and keeps its device, or that no driver which        *)
(* refuses has, before or after.                                           *)
LEMMA SlotSame ==
  ASSUME IInv, NEW h \in Hids, NEW s, table' = [table EXCEPT ![h] = s],
         s.dev = table[h].dev \/ (~Refuses(h) /\ s.dev \notin RestartDevs)
  PROVE  SameSlots
<1>1. table'[h] = s /\ \A g \in Hids \ {h} : table'[g] = table[g]
  BY DEF IInv, TypeOK
<1> QED BY <1>1 DEF SameSlots, Refuses

LEMMA NoneRefuses == None \notin RestartDevs
BY AsymAssumption, DevsAssumption

LEMMA DetachWork ==
  ASSUME IInv, WorkInv, Removable \cap RestartDevs = {}, NEW d \in Devs, Detach(d)
  PROVE  WorkInv'
<1>1. /\ d \in Threads /\ StepOf(d) /\ d \notin Procs
      /\ UNCHANGED <<krpQ, allKQBlocked>>
  BY ThreadKinds, KindsAssumption DEF Detach, StepOf, threadVars
<1>2. PICK h \in SlotsOf(d) : /\ table' = [table EXCEPT ![h] = Finis(@)]
                              /\ kqBlocked' = kqBlocked \ {h}
  BY DEF Detach
<1>3. h \in Hids /\ ~Refuses(h)
  BY DEF SlotsOf, Detach, Refuses
<1>4. Finis(table[h]).dev = None
  BY DEF Finis, Zeroed
<1> DEFINE s == Finis(table[h])
<1>5. table' = [table EXCEPT ![h] = s] /\ s.dev \notin RestartDevs
  BY <1>2, <1>3, <1>4, NoneRefuses DEF IInv, TypeOK
<1> HIDE DEF s
<1>6. SameSlots
  BY <1>3, <1>5, SlotSame
<1>7. \A g \in kqBlocked : Refuses(g) => g \in kqBlocked'
  BY <1>2, <1>3
<1> QED BY <1>1, <1>6, <1>7, WorkElsewhere

LEMMA InvokeWork ==
  ASSUME IInv, SlotInv, WorkInv, NEW t \in Threads, Invoke(t)
  PROVE  WorkInv'
<1>1. UNCHANGED <<krpQ, allKQBlocked, kqBlocked, krp>>
  BY SMTT(30) DEF Invoke, KInvoke, KInvokeFails, KProcess, KAccepted, KRestarted, queueVars
<1>2. \E l \in Labels \ {"wait", "asleep"} : Goto(t, l)
  BY DEF Invoke, KInvoke, KInvokeFails, KProcess, KAccepted, KRestarted, Labels
<1>3. StepOf(t) /\ pc'[t] \notin {"wait", "asleep"}
  BY <1>1, <1>2, GotoMoves DEF IInv, StepOf
<1>4. SameSlots
  <2>1. CASE UNCHANGED table
    BY <2>1, SlotsSame
  <2>2. CASE \E h \in Hids : KInvoke(t, h)
    <3>1. PICK h \in Hids : table' = [table EXCEPT ![h].kops = More(@)]
      BY <2>2 DEF KInvoke
    <3> DEFINE s == [table[h] EXCEPT !.kops = More(@)]
    <3>2. table' = [table EXCEPT ![h] = s] /\ s.dev = table[h].dev
      BY <3>1 DEF IInv, TypeOK, Slot
    <3> HIDE DEF s
    <3> QED BY <3>2, SlotSame
  <2>3. CASE KRestarted(t)
    <3> DEFINE h == hid[krp[t]]
    <3>1. h \in Hids /\ table' = [table EXCEPT ![h].kops = Less(@)]
      BY <2>3, InHand DEF KRestarted, Holds, HoldsPending
    <3> DEFINE s == [table[h] EXCEPT !.kops = Less(@)]
    <3> HIDE DEF h
    <3>2. table' = [table EXCEPT ![h] = s] /\ s.dev = table[h].dev
      BY <3>1 DEF IInv, TypeOK, Slot
    <3> HIDE DEF s
    <3> QED BY <3>1, <3>2, SlotSame
  <2>4. CASE KInvokeFails(t) \/ KProcess(t) \/ KAccepted(t)
    BY <2>1, <2>4 DEF KInvokeFails, KProcess, KAccepted
  <2> QED BY <2>2, <2>3, <2>4 DEF Invoke
<1> QED BY <1>1, <1>3, <1>4, WorkElsewhere

LEMMA KCountWork ==
  ASSUME IInv, SlotInv, WorkInv, NEW t \in Threads, KCount(t)
  PROVE  WorkInv'
<1> DEFINE h == hid[krp[t]]
<1>1. /\ UNCHANGED <<krpQ, allKQBlocked, krp>>
      /\ Goto(t, "kcallback") \/ Goto(t, "kreturn")
      /\ table' = [table EXCEPT ![h] = Uncounted(@)]
      /\ kqBlocked' = kqBlocked \/ (table[h].cleanup /\ kqBlocked' = kqBlocked \ {h})
  BY DEF KCount
<1>2. StepOf(t) /\ pc'[t] \notin {"wait", "asleep"}
  BY <1>1, GotoMoves DEF IInv, StepOf, Labels
<1>3. h \in Hids
  BY InHand DEF KCount, Holds, HoldsDone
<1> HIDE DEF h
<1>4. table[h] \in Slot
  BY <1>3 DEF IInv, TypeOK
<1> DEFINE s == Uncounted(table[h])
<1>5. table' = [table EXCEPT ![h] = s]
  BY <1>1, <1>3 DEF IInv, TypeOK
<1>6. s.dev = table[h].dev \/ (~Refuses(h) /\ s.dev \notin RestartDevs)
  <2>1. s.dev = table[h].dev \/ (table[h].cleanup /\ s.dev = None)
    BY <1>4 DEF Uncounted, Remove, Zeroed, Slot
  <2> HIDE DEF s
  <2> QED BY <1>3, <2>1, RefusesStays, NoneRefuses
<1> HIDE DEF s
<1>7. SameSlots
  BY <1>3, <1>5, <1>6, SlotSame
<1>8. \A g \in kqBlocked : Refuses(g) => g \in kqBlocked'
  BY <1>1, <1>3, RefusesStays
<1> QED BY <1>1, <1>2, <1>7, <1>8, WorkElsewhere

LEMMA FinishWork ==
  ASSUME IInv, SlotInv, WorkInv, NEW t \in Threads, Finish(t)
  PROVE  WorkInv'
<1>1. CASE KMark(t) \/ KReturn(t) \/ KCallback(t)
  <2>1. UNCHANGED <<allKQBlocked, kqBlocked>>
    BY <1>1 DEF KMark, KReturn, KCallback, queueVars
  <2>2. \E l \in Labels \ {"wait", "asleep", "krestart", "krequeue"} : Aside(t, l)
    BY <1>1, FinishAside
  <2>3. /\ StepOf(t) /\ pc'[t] \notin {"wait", "asleep"}
        /\ UNCHANGED <<table, krpQ>>
    BY <2>2 DEF Aside
  <2> QED BY <2>1, <2>3, SlotsSame, WorkElsewhere
<1> QED BY <1>1, KCountWork DEF Finish

LEMMA KDispatchQueueWork ==
  ASSUME IInv, WorkInv, Procs # {}, NEW k \in Kops, KDispatchQueue(k)
  PROVE  WorkInv'
<1>1. /\ k \in Threads \ Procs /\ UNCHANGED <<allKQBlocked, kqBlocked, table, krp>>
      /\ krpQ' = Append(krpQ, k) /\ krpQ \in Seq(Kops)
      /\ pc' = [WakeUp(Procs, pc) EXCEPT ![k] = "kwait"]
  BY ThreadKinds DEF KDispatchQueue, Queued, IInv, TypeOK
<1>2. StepOf(k)
  BY <1>1, GotoMoves, ZenonT(60) DEF IInv, StepOf, Labels
<1>3. \A p \in Procs : pc'[p] # "asleep"
  BY <1>1, WokenAll
<1>4. StalledWithWork' /\ OneSlot' /\ (Blocked => Blocked')
  BY <1>1, SlotsSame, SameOneSlot DEF StalledWithWork, Blocked, Refuses
<1> QED BY <1>1, <1>2, <1>3, <1>4, WorkAwakens

LEMMA UnblockWork ==
  ASSUME IInv, WorkInv, Procs # {}, NEW d \in Devs, Unblock(d)
  PROVE  WorkInv'
<1>1. /\ d \in Threads \ Procs /\ UNCHANGED <<krpQ, table, krp>>
      /\ allKQBlocked' = FALSE /\ pc' = [WakeUp(Procs, pc) EXCEPT ![d] = "idle"]
  BY ThreadKinds, KindsAssumption DEF Unblock
<1>2. StepOf(d)
  BY <1>1, GotoMoves, ZenonT(60) DEF IInv, StepOf, Labels
<1>3. \A p \in Procs : pc'[p] # "asleep"
  BY <1>1, WokenAll
<1>4. OneSlot'
  BY <1>1, SlotsSame, SameOneSlot
<1> QED BY <1>1, <1>2, <1>3, <1>4, WorkAwakens

LEMMA ProcSubmitWork ==
  ASSUME IInv, WorkInv, NEW p \in Procs, NEW i \in DOMAIN krpQ, ProcSubmit(p, i)
  PROVE  WorkInv'
<1>1. p \in Threads /\ p \notin Kops /\ UNCHANGED table /\ krpQ[i] \in Kops
  BY ThreadKinds DEF ProcSubmit, IInv, TypeOK
<1>2. OneSlot'
  BY <1>1, SlotsSame, SameOneSlot
<1>3. CASE NoDriver(i)
  <2>1. UNCHANGED <<krpQ, allKQBlocked, krp>> /\ Goto(p, "oops")
    BY <1>3 DEF ProcSubmit, queueVars
  <2>2. StepOf(p) /\ pc'[p] = "oops"
    BY <1>1, <2>1, GotoMoves DEF IInv, StepOf, Labels
  <2>3. StalledWithWork'
    BY <2>1 DEF WorkInv, StalledWithWork
  <2> QED BY <1>1, <1>2, <2>1, <2>2, <2>3, WorkOther
<1>4. CASE ~NoDriver(i)
  <2>1. /\ allKQBlocked' = FALSE /\ krp' = [krp EXCEPT ![p] = krpQ[i]]
        /\ Goto(p, "kinvoke")
    BY <1>4 DEF ProcSubmit
  <2>2. StepOf(p) /\ pc'[p] = "kinvoke"
    BY <1>1, <2>1, TakenMoves DEF Labels, Steady
  <2> QED BY <1>1, <1>2, <2>1, <2>2, WorkOther
<1> QED BY <1>3, <1>4

(* crypto_proc puts an operation back, or is through with one: it looks at  *)
(* the queue again before it sleeps.                                       *)
LEMMA ProcScansWork ==
  ASSUME IInv, WorkInv, NEW p \in Procs, ProcRequeue(p) \/ ProcEnd(p)
  PROVE  WorkInv'
<1>1. /\ p \in Threads /\ p \notin Kops /\ UNCHANGED <<table, allKQBlocked>>
      /\ krp' = Dropped(p) /\ Goto(p, "scan")
  BY ThreadKinds DEF ProcRequeue, ProcEnd
<1>2. StepOf(p) /\ pc'[p] = "scan"
  BY <1>1, DroppedMoves DEF Labels, Steady
<1>3. OneSlot'
  BY <1>1, SlotsSame, SameOneSlot
<1>4. StalledWithWork'
  <2>1. CASE ProcRequeue(p)
    <3>1. krp[p] \in Kops /\ krpQ \in Seq(Kops)
      BY <1>1, <2>1, InHand DEF ProcRequeue, Holds, HoldsPending, IInv, TypeOK
    <3>2. krpQ' # <<>>
      BY <2>1, <3>1 DEF ProcRequeue
    <3> QED BY <3>2 DEF StalledWithWork
  <2>2. CASE ProcEnd(p)
    BY <2>2 DEF ProcEnd, WorkInv, StalledWithWork
  <2> QED BY <2>1, <2>2
<1> QED BY <1>1, <1>2, <1>3, <1>4, WorkOther

LEMMA ProcIdleWork ==
  ASSUME IInv, SlotInv, WorkInv, NEW p \in Procs, ProcIdle(p)
  PROVE  WorkInv'
<1>1. /\ p \in Threads /\ UNCHANGED <<krpQ, kqBlocked, table, krp>> /\ pc[p] = "scan"
      /\ allKQBlocked' = (krpQ # <<>>) /\ Goto(p, "wait")
      /\ \A i \in DOMAIN krpQ : ~Ready(i)
  BY ThreadKinds DEF ProcIdle
<1>2. StepOf(p) /\ pc'[p] = "wait"
  BY <1>1, GotoMoves DEF IInv, StepOf, Labels
<1>3. krpQ # <<>> => Blocked
  <2>1. ASSUME krpQ # <<>> PROVE 1 \in DOMAIN krpQ /\ krpQ[1] \in Elems(krpQ)
    BY <2>1 DEF IInv, TypeOK, Elems
  <2> QED BY <1>1, <2>1 DEF Ready, SlotInv, QueueHeld, Blocked
<1>4. Blocked' <=> Blocked
  BY <1>1 DEF Blocked, Refuses
<1>5. krpQ' = krpQ /\ (allKQBlocked' => krpQ # <<>>)
  BY <1>1
<1>6. OneSlot'
  BY <1>1, SlotsSame, SameOneSlot
<1> QED BY <1>3, <1>4, <1>5, <1>6
        DEF WorkInv, StalledWithWork, StalledWatched, WorkWatched

LEMMA ProcWaitWork ==
  ASSUME IInv, WorkInv, NEW p \in Procs, ProcWait(p)
  PROVE  WorkInv'
<1>1. /\ p \in Threads /\ UNCHANGED <<krpQ, allKQBlocked, kqBlocked, table, krp>>
      /\ pc[p] = "wait"
      /\ \/ krpQ # <<>> /\ ~allKQBlocked /\ Goto(p, "scan")
         \/ (krpQ = <<>> \/ allKQBlocked) /\ Goto(p, "asleep")
  BY ThreadKinds DEF ProcWait, queueVars
<1>2. StepOf(p)
  BY <1>1, GotoMoves DEF IInv, StepOf, Labels
<1>3. OneSlot' /\ StalledWithWork'
  BY <1>1, SlotsSame, SameOneSlot DEF WorkInv, StalledWithWork
<1>4. CASE Goto(p, "scan")
  <2>1. pc'[p] = "scan"
    BY <1>1, <1>4, GotoMoves DEF IInv, Labels
  <2> QED BY <1>1, <1>2, <1>3, <2>1, WorkOther
<1>5. CASE krpQ = <<>> \/ allKQBlocked
  <2>1. \A q \in Procs : Awake(q) => Awake(q)' /\ pc'[q] # "asleep"
    BY <1>1, <1>2, ThreadKinds DEF StepOf, Awake
  <2>2. Blocked' <=> Blocked
    BY <1>1 DEF Blocked, Refuses
  <2>3. krpQ' = krpQ /\ allKQBlocked' = allKQBlocked
    BY <1>1
  <2>4. StalledWatched'
    BY <2>1, <2>2, <2>3 DEF WorkInv, StalledWatched
  <2>5. WorkWatched'
    BY <1>5, <2>1, <2>2, <2>3 DEF WorkInv, StalledWithWork, StalledWatched, WorkWatched
  <2> QED BY <1>3, <2>4, <2>5 DEF WorkInv
<1> QED BY <1>1, <1>4, <1>5

(* The steps of clients, of crypto_ret_proc and of drivers that touch       *)
(* neither the slots nor crp_kq and its flags.                             *)
LEMMA AsideWork ==
  ASSUME IInv, WorkInv, NEW t \in Threads \ Procs, NEW l, Aside(t, l),
         UNCHANGED <<allKQBlocked, kqBlocked>>
  PROVE  WorkInv'
<1>1. StepOf(t) /\ SameSlots /\ UNCHANGED krpQ
  BY SlotsSame DEF Aside
<1> QED BY <1>1, WorkElsewhere

LEMMA NextWork ==
  ASSUME IInv, SlotInv, WorkInv, Procs # {}, Removable \cap RestartDevs = {},
         \A e, f \in RestartDevs : e = f, [Next]_vars
  PROVE  WorkInv'
<1>1. ASSUME NEW d \in Devs, Attach(d) \/ Detach(d) \/ DriverStep(d) PROVE WorkInv'
  <2>a. d \in Threads \ Procs
    BY ThreadKinds, KindsAssumption
  <2>1. CASE Attach(d) \/ Detach(d)
    BY <2>1, AttachWork, DetachWork
  <2>2. CASE Finish(d)
    BY <2>2, <2>a, FinishWork
  <2>3. CASE Drained(d) \/ \E k \in ring[d] : Poll(d, k)
    <3>1. UNCHANGED <<allKQBlocked, kqBlocked>>
      BY <2>3 DEF Drained, Poll, queueVars
    <3>2. \E l \in {"kdone", "idle", "unblock"} : Aside(d, l)
      BY <2>3, DriverAside
    <3> QED BY <2>a, <3>1, <3>2, AsideWork
  <2>4. CASE Unblock(d)
    BY <2>4, UnblockWork
  <2> QED BY <1>1, <2>1, <2>2, <2>3, <2>4 DEF DriverStep
<1>2. ASSUME NEW k \in Kops, ClientStep(k) \/ \E c \in Crids : KDispatch(k, c)
      PROVE  WorkInv'
  <2>a. k \in Threads \ Procs
    BY ThreadKinds
  <2>1. CASE Invoke(k) \/ Finish(k)
    BY <2>1, <2>a, InvokeWork, FinishWork
  <2>2. CASE KDispatchQueue(k)
    BY <2>2, KDispatchQueueWork
  <2>3. CASE KDispatchEnd(k) \/ \E c \in Crids : KDispatch(k, c)
    <3>1. UNCHANGED <<allKQBlocked, kqBlocked>>
      BY <2>3 DEF KDispatchEnd, KDispatch, queueVars
    <3> QED BY <2>3, <2>a, <3>1, ClientAside, AsideWork
  <2>4. CASE KWait(k)
    <3>1. UNCHANGED <<krpQ, allKQBlocked, kqBlocked, table, krp>> /\ Goto(k, "ready")
      BY <2>4 DEF KWait, queueVars
    <3>2. StepOf(k)
      BY <2>a, <3>1, GotoMoves DEF IInv, StepOf, Labels
    <3> QED BY <2>a, <3>1, <3>2, SlotsSame, WorkElsewhere
  <2> QED BY <1>2, <2>1, <2>2, <2>3, <2>4 DEF ClientStep
<1>3. ASSUME NEW p \in Procs, ProcStep(p) PROVE WorkInv'
  <2>1. CASE Invoke(p) \/ Finish(p)
    BY <2>1, InvokeWork, FinishWork, ThreadKinds
  <2>2. CASE \E i \in DOMAIN krpQ : ProcSubmit(p, i)
    BY <2>2, ProcSubmitWork
  <2>3. CASE ProcIdle(p) \/ ProcWait(p) \/ ProcEnd(p) \/ ProcRequeue(p)
    BY <2>3, ProcIdleWork, ProcWaitWork, ProcScansWork
  <2> QED BY <1>3, <2>1, <2>2, <2>3 DEF ProcStep
<1>4. ASSUME NEW t \in Rets, RetStep(t) PROVE WorkInv'
  <2>a. t \in Threads \ Procs
    BY ThreadKinds, KindsAssumption
  <2>1. CASE RetHarvest(t) \/ RetWait(t)
    <3>1. UNCHANGED <<allKQBlocked, kqBlocked>>
      BY <2>1 DEF RetHarvest, RetWait, queueVars
    <3>2. \E l \in {"wait", "harvest", "asleep", "kcallback"} : Aside(t, l)
      BY <2>1, RetAside
    <3> QED BY <2>a, <3>1, <3>2, AsideWork
  <2>2. CASE KCallback(t)
    BY <2>2, <2>a, FinishWork DEF Finish
  <2> QED BY <1>4, <2>1, <2>2 DEF RetStep
<1>5. CASE UNCHANGED vars
  BY <1>5 DEF vars, queueVars, threadVars, WorkInv, OneSlot, StalledWithWork,
              StalledWatched, WorkWatched, Blocked, Awake, Refuses
<1> QED BY <1>1, <1>2, <1>3, <1>4, <1>5 DEF Next

(* With at most one driver that answers ERESTART, which stays, no operation *)
(* is left on crp_kq with every crypto_proc asleep unless that driver's     *)
(* slot is blocked: for any number of operations, of other drivers that     *)
(* come and go, and of threads.                                            *)
THEOREM OperationsAwakenProc ==
  ASSUME Algs # {}, Procs # {}, Removable \cap RestartDevs = {},
         \A e, f \in RestartDevs : e = f
  PROVE  Spec => []NoStrandedKop
<1>1. Init => WorkInv
  <2> SUFFICES ASSUME Init PROVE WorkInv
    OBVIOUS
  <2>1. krpQ = <<>> /\ allKQBlocked = FALSE /\ \A h \in Hids : table[h].dev = None
    BY DEF Init, Zeroed
  <2> QED BY <2>1, NoneRefuses
          DEF WorkInv, OneSlot, StalledWithWork, StalledWatched, WorkWatched, Refuses
<1>2. IInv /\ SlotInv /\ WorkInv /\ [Next]_vars => WorkInv'
  BY NextWork
<1>3. IInv /\ SlotInv /\ WorkInv => NoStrandedKop
  BY WorkInvEnough
<1> QED BY <1>1, <1>2, <1>3, AlwaysIInv, AlwaysSlotInv, PTL DEF Spec

=============================================================================
