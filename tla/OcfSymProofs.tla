---------------------------- MODULE OcfSymProofs ----------------------------
(***************************************************************************)
(* Theorems about OcfSym for any sets of requests, threads and drivers:    *)
(* its type invariant, that a request has one owner, that crypto_q_cnt is  *)
(* the number of outstanding requests, that OcfSym implements OcfService,  *)
(* and that no crypto_proc or crypto_ret_proc sleeps on work it could do.  *)
(***************************************************************************)
EXTENDS OcfSym, OcfQueueProofs, FiniteSetTheorems, TLAPS

-----------------------------------------------------------------------------
(* Wake-ups and threads. *)

LEMMA WakeUpMoves ==
  ASSUME TypeOK, NEW S
  PROVE  /\ WakeUp(S, pc) \in [Threads -> Labels]
         /\ \A t \in Threads : \/ WakeUp(S, pc)[t] = pc[t]
                               \/ pc[t] = "asleep" /\ WakeUp(S, pc)[t] = "wait"
BY DEF TypeOK, WakeUp, Labels

LEMMA ResumeIdle ==
  ASSUME NEW t \in Threads
  PROVE  /\ Resume(t) \in Labels
         /\ Resume(t) \in {"drain", "harvest", "return"}
         /\ Resume(t) = "return" => t \in Callers \cup Procs
BY ThreadsAssumption DEF Resume, Labels, Threads

LEMMA ThreadKinds ==
  /\ Callers \subseteq Threads /\ Procs \subseteq Threads
  /\ Rets \subseteq Threads /\ Drivers \subseteq Threads
  /\ \A c \in Callers : c \notin Drivers /\ c \notin Rets
BY ThreadsAssumption DEF Threads

(* A step that leaves every request where it is, and moves only threads     *)
(* that hold none, preserves the invariant.                                *)
LEMMA NobodyMoves ==
  ASSUME IInv, TypeOK',
         UNCHANGED <<crpQ, retQ, ring, done, busy, qCnt>>,
         \A t \in Threads : /\ HoldsPending(t)' <=> HoldsPending(t)
                            /\ HoldsDone(t)' <=> HoldsDone(t)
                            /\ Holds(t) => crp'[t] = crp[t],
         NotRestarted'
  PROVE  IInv'
<1>1. \A t \in Threads : Holds(t)' <=> Holds(t)
  BY DEF Holds
<1>2. OnRing' = OnRing
  BY DEF OnRing
<1>3. DoneOnce'
  BY <1>1, <1>2 DEF IInv, DoneOnce, Holds
<1>4. OneOwner'
  BY <1>1, <1>2 DEF IInv, OneOwner
<1>5. OutstandingCount'
  BY DEF IInv, OutstandingCount
<1>6. NeverLost'
  BY <1>1, <1>2 DEF IInv, NeverLost
<1> QED BY <1>3, <1>4, <1>5, <1>6 DEF IInv

(* What is outstanding: a finite set, so that crypto_q_cnt is a number.    *)
Pending == {r \in busy : ~done[r]}

LEMMA PendingFinite ==
  ASSUME TypeOK
  PROVE  IsFiniteSet(Pending) /\ Cardinality(Pending) \in Nat
<1>1. Pending \subseteq Reqs
  BY DEF TypeOK, Pending
<1>2. IsFiniteSet(Pending)
  BY <1>1, SetsAssumption, FS_Subset
<1> QED BY <1>2, FS_CardinalityType

-----------------------------------------------------------------------------
(* The initial states. *)

LEMMA StartLabels ==
  \A t \in Threads : Start(t) \in {"ready", "scan", "harvest", "idle"}
BY Zenon DEF Start, Threads

LEMMA InitIInv == Init => IInv
<1> SUFFICES ASSUME Init PROVE IInv
  OBVIOUS
<1>1. TypeOK
  <2> DEFINE first == CHOOSE r \in Reqs : TRUE
  <2>a. first \in Reqs
    BY BoundsAssumption
  <2>b. crp = [t \in Threads |-> first]
    BY DEF Init
  <2> HIDE DEF first
  <2>1. crp \in [Threads -> Reqs]
    BY <2>a, <2>b
  <2>2. pc \in [Threads -> Labels]
    BY StartLabels DEF Init, Labels
  <2>3. /\ crpQ \in Seq(Reqs) /\ retQ \in Seq(Reqs) /\ qCnt \in Nat
        /\ done \in [Reqs -> BOOLEAN] /\ ring \in [Drivers -> SUBSET Reqs]
        /\ res \in [Threads -> {"ok", "error", "restart"}]
        /\ ops \in 0 .. MaxOps
    BY BoundsAssumption DEF Init
  <2>4. /\ allQBlocked \in BOOLEAN /\ retLock \in Threads \cup {None}
        /\ qBlocked \subseteq Drivers /\ unqBlocked \subseteq Drivers
        /\ needWake \subseteq Drivers /\ busy \subseteq Reqs
    BY DEF Init
  <2> QED BY <2>1, <2>2, <2>3, <2>4 DEF TypeOK
<1>2. \A t \in Threads : pc[t] \in {"ready", "scan", "harvest", "idle"}
  BY StartLabels DEF Init
<1>3. \A t \in Threads : ~HoldsPending(t) /\ ~HoldsDone(t)
  BY <1>2 DEF HoldsPending, HoldsDone
<1>4. Elems(crpQ) = {} /\ Elems(retQ) = {} /\ OnRing = {}
  BY DEF Init, Elems, OnRing
<1>5. DoneOnce
  BY <1>3, <1>4 DEF DoneOnce
<1>6. OneOwner
  BY <1>3, <1>4 DEF OneOwner, NoRepeats, Holds, Init
<1>7. NotRestarted
  BY <1>2 DEF NotRestarted, Threads
<1>8. OutstandingCount
  <2>1. {r \in busy : ~done[r]} = {}
    BY DEF Init
  <2> QED BY <2>1, FS_EmptySet, BoundsAssumption DEF OutstandingCount, Init
<1>9. NeverLost
  BY DEF NeverLost, Init
<1> QED BY <1>1, <1>5, <1>6, <1>7, <1>8, <1>9 DEF IInv

-----------------------------------------------------------------------------
(* Every step keeps the invariant: one lemma per action.                    *)

(* What a step of thread t leaves as it was for the other threads. *)
OthersStay(t) ==
  \A u \in Threads \ {t} : /\ HoldsPending(u)' <=> HoldsPending(u)
                           /\ HoldsDone(u)' <=> HoldsDone(u)
                           /\ crp'[u] = crp[u]

(* The labels at which a thread has no request in its hands. *)
Free == {"ready", "scan", "wait", "asleep", "harvest", "idle", "drain", "unblock"}

LEMMA StepOfOne ==
  ASSUME TypeOK, NEW t \in Threads,
         \A u \in Threads \ {t} : /\ \/ pc'[u] = pc[u]
                                     \/ pc[u] = "asleep" /\ pc'[u] = "wait"
                                  /\ crp'[u] = crp[u] /\ res'[u] = res[u]
  PROVE  /\ OthersStay(t)
         /\ NotRestarted =>
              \A u \in (Callers \cup Procs) \ {t} :
                 pc'[u] \in {"done", "wake", "insert", "callback"}
                    => res'[u] # "restart"
<1>1. ASSUME NEW u \in Threads \ {t}
      PROVE  /\ HoldsPending(u)' <=> HoldsPending(u)
             /\ HoldsDone(u)' <=> HoldsDone(u)
             /\ pc'[u] \in {"done", "wake", "insert", "callback"} => pc'[u] = pc[u]
  BY DEF HoldsPending, HoldsDone
<1>2. OthersStay(t)
  BY <1>1 DEF OthersStay
<1>3. ASSUME NotRestarted, NEW u \in (Callers \cup Procs) \ {t},
             pc'[u] \in {"done", "wake", "insert", "callback"}
      PROVE  res'[u] # "restart"
  <2>1. u \in Threads \ {t}
    BY DEF Threads
  <2> QED BY <1>1, <1>3, <2>1 DEF NotRestarted
<1> QED BY <1>2, <1>3

(* A step of a thread that holds nothing, before it and after it. *)
LEMMA FreeStep ==
  ASSUME IInv, TypeOK', NEW t \in Threads, OthersStay(t), NotRestarted',
         UNCHANGED <<crpQ, retQ, ring, done, busy, qCnt>>,
         ~Holds(t), pc'[t] \in Free
  PROVE  IInv'
<1>1. ~HoldsPending(t) /\ ~HoldsDone(t)
  BY DEF Holds
<1>2. ~HoldsPending(t)' /\ ~HoldsDone(t)'
  BY DEF HoldsPending, HoldsDone, Free
<1>3. \A u \in Threads : /\ HoldsPending(u)' <=> HoldsPending(u)
                         /\ HoldsDone(u)' <=> HoldsDone(u)
                         /\ Holds(u) => crp'[u] = crp[u]
  BY <1>1, <1>2 DEF OthersStay, Holds
<1> QED BY <1>3, NobodyMoves

LEMMA DispatchDropKeeps ==
  ASSUME IInv, NEW c \in Callers, NEW r \in Reqs, DispatchDrop(c, r)
  PROVE  IInv'
<1>1. TypeOK'
  BY BoundsAssumption DEF IInv, TypeOK, DispatchDrop, queueVars, doneVars, retVars,
     driverVars, threadVars
<1>2. NotRestarted'
  BY DEF IInv, NotRestarted, DispatchDrop, threadVars
<1>3. \A t \in Threads : /\ HoldsPending(t)' <=> HoldsPending(t)
                         /\ HoldsDone(t)' <=> HoldsDone(t)
                         /\ Holds(t) => crp'[t] = crp[t]
  BY DEF DispatchDrop, threadVars, HoldsPending, HoldsDone
<1> QED BY <1>1, <1>2, <1>3, NobodyMoves DEF DispatchDrop, queueVars, doneVars, retVars, driverVars

LEMMA AcceptCounts ==
  ASSUME IInv, NEW c \in Callers, NEW r \in Reqs, Accept(c, r)
  PROVE  OutstandingCount'
<1> USE DEF IInv
<1>1. Pending' = Pending \cup {r} /\ r \notin Pending
  BY DEF TypeOK, Pending, Accept
<1>2. Cardinality(Pending \cup {r}) = Cardinality(Pending) + 1
  BY <1>1, PendingFinite, FS_AddElement
<1>3. qCnt < QMax /\ qCnt' = qCnt + 1 /\ qCnt \in Nat
  BY BoundsAssumption DEF Accept, QueueFull, Counted, TypeOK
<1>4. qCnt = Cardinality(Pending)
  BY DEF OutstandingCount, Pending
<1>5. qCnt' = Cardinality(Pending')
  BY <1>1, <1>2, <1>3, <1>4
<1>6. qCnt' <= QMax
  BY <1>3, BoundsAssumption
<1> QED BY <1>5, <1>6 DEF OutstandingCount, Pending

LEMMA DispatchQueueKeeps ==
  ASSUME IInv, NEW c \in Callers, NEW r \in Reqs, DispatchQueue(c, r)
  PROVE  IInv'
<1> USE DEF IInv
<1>a. c \in Threads /\ r \notin busy /\ done' = [done EXCEPT ![r] = FALSE]
  BY ThreadKinds DEF DispatchQueue, Accept
<1>b. /\ crpQ' \in Seq(Reqs) /\ Elems(crpQ') = Elems(crpQ) \cup {r}
      /\ r \notin Elems(crpQ) => NoRepeats(crpQ')
  BY AppendElems DEF TypeOK, DispatchQueue, OneOwner
<1>c. UNCHANGED <<retQ, ring, crp, res>> /\ busy' = busy \cup {r} /\ OnRing' = OnRing
  BY DEF DispatchQueue, Accept, retVars, driverVars, OnRing
<1>d. /\ pc[c] = "ready" /\ pc' \in [Threads -> Labels]
      /\ \A u \in Threads : \/ pc'[u] = pc[u]
                            \/ pc[u] = "asleep" /\ pc'[u] = "wait"
  BY WakeUpMoves DEF DispatchQueue, Accept
<1>e. \A u \in Threads : /\ HoldsPending(u)' <=> HoldsPending(u)
                         /\ HoldsDone(u)' <=> HoldsDone(u)
                         /\ Holds(u)' <=> Holds(u)
  BY <1>c, <1>d DEF HoldsPending, HoldsDone, Holds
<1>f. r \notin Elems(crpQ) \cup Elems(retQ) \cup OnRing
  BY <1>a DEF DoneOnce
<1>g. \A u \in Threads : Holds(u) => crp[u] # r
  BY <1>a DEF DoneOnce, Holds
<1>1. TypeOK'
  <2>1. qCnt' \in Nat /\ ops' \in 0 .. MaxOps
    BY BoundsAssumption DEF TypeOK, DispatchQueue, Accept, Counted
  <2>2. done' \in [Reqs -> BOOLEAN] /\ busy' \subseteq Reqs
    BY <1>a, <1>c DEF TypeOK
  <2> QED BY <1>b, <1>c, <1>d, <2>1, <2>2 DEF TypeOK, DispatchQueue, retVars, driverVars
<1>2. DoneOnce'
  BY <1>a, <1>b, <1>c, <1>e, <1>f, <1>g DEF DoneOnce, TypeOK, Holds
<1>3. OneOwner'
  BY <1>b, <1>c, <1>e, <1>f, <1>g DEF OneOwner
<1>4. NotRestarted'
  BY <1>c, <1>d, ThreadKinds DEF NotRestarted
<1>5. OutstandingCount'
  BY AcceptCounts DEF DispatchQueue
<1>6. NeverLost'
  BY <1>b, <1>c, <1>e DEF NeverLost
<1> QED BY <1>1, <1>2, <1>3, <1>4, <1>5, <1>6

LEMMA DispatchInvokeKeeps ==
  ASSUME IInv, NEW c \in Callers, NEW r \in Reqs, DispatchInvoke(c, r)
  PROVE  IInv'
<1> USE DEF IInv
<1>a. c \in Threads /\ r \notin busy /\ done' = [done EXCEPT ![r] = FALSE]
  BY ThreadKinds DEF DispatchInvoke, Accept
<1>b. /\ UNCHANGED <<crpQ, retQ, ring, res>> /\ busy' = busy \cup {r}
      /\ OnRing' = OnRing
  BY DEF DispatchInvoke, Accept, retVars, driverVars, OnRing
<1>c. /\ pc[c] = "ready" /\ pc' = [pc EXCEPT ![c] = "invoke"]
      /\ crp' = [crp EXCEPT ![c] = r]
  BY DEF DispatchInvoke, Accept, Goto
<1>d. OthersStay(c) /\ NotRestarted'
  <2>1. \A u \in Threads \ {c} : pc'[u] = pc[u] /\ crp'[u] = crp[u] /\ res'[u] = res[u]
    BY <1>a, <1>b, <1>c DEF TypeOK
  <2>2. pc'[c] = "invoke"
    BY <1>a, <1>c DEF TypeOK
  <2> QED BY <1>a, <2>1, <2>2, StepOfOne DEF NotRestarted
<1>e. /\ ~Holds(c) /\ crp'[c] = r /\ HoldsPending(c)' /\ Holds(c)' /\ ~HoldsDone(c)'
  BY <1>a, <1>c DEF Holds, HoldsPending, HoldsDone, TypeOK
<1>f. r \notin Elems(crpQ) \cup Elems(retQ) \cup OnRing
  BY <1>a DEF DoneOnce
<1>g. \A u \in Threads : Holds(u) => crp[u] # r
  BY <1>a DEF DoneOnce, Holds
<1>h. \A u \in Threads \ {c} : Holds(u)' <=> Holds(u)
  BY <1>d DEF OthersStay, Holds
<1>1. TypeOK'
  <2>1. qCnt' \in Nat /\ ops' \in 0 .. MaxOps
    BY BoundsAssumption DEF TypeOK, DispatchInvoke, Accept, Counted
  <2>2. done' \in [Reqs -> BOOLEAN] /\ busy' \subseteq Reqs
    BY <1>a, <1>b DEF TypeOK
  <2>3. pc' \in [Threads -> Labels] /\ crp' \in [Threads -> Reqs]
    BY <1>c DEF TypeOK, Labels
  <2>4. unqBlocked' \subseteq Drivers
    BY SetsAssumption DEF DispatchInvoke, TypeOK
  <2> QED BY <1>b, <2>1, <2>2, <2>3, <2>4
          DEF TypeOK, DispatchInvoke, retVars, driverVars
<1>2. DoneOnce'
  BY <1>a, <1>b, <1>d, <1>e, <1>f, <1>g DEF DoneOnce, TypeOK, Holds, OthersStay
<1>3. OneOwner'
  BY <1>b, <1>d, <1>e, <1>f, <1>g, <1>h DEF OneOwner, OthersStay
<1>4. OutstandingCount'
  BY AcceptCounts DEF DispatchInvoke
<1>5. NeverLost'
  <2>1. ASSUME NEW x \in busy
        PROVE  \/ x \in Elems(crpQ') \cup Elems(retQ') \cup OnRing'
               \/ \E t \in Threads : Holds(t)' /\ crp'[t] = x
    <3>1. CASE x \in Elems(crpQ) \cup Elems(retQ) \cup OnRing
      BY <1>b, <3>1
    <3>2. CASE \E t \in Threads : Holds(t) /\ crp[t] = x
      BY <1>d, <1>e, <1>h, <3>2 DEF OthersStay
    <3> QED BY <3>1, <3>2 DEF NeverLost
  <2>2. c \in Threads /\ Holds(c)' /\ crp'[c] = r
    BY <1>a, <1>e
  <2> QED BY <1>b, <2>1, <2>2 DEF NeverLost
<1> QED BY <1>1, <1>2, <1>3, <1>d, <1>4, <1>5

LEMMA SameCount ==
  ASSUME OutstandingCount, UNCHANGED <<qCnt, busy, done>>
  PROVE  OutstandingCount'
BY DEF OutstandingCount

(* A thread gives the request its driver had no room for back to crp_q.     *)
LEMMA PutBackKeeps ==
  ASSUME IInv, NEW t \in Callers \cup Procs, TypeOK',
         OthersStay(t), NotRestarted', UNCHANGED <<retQ, ring, done, busy, qCnt>>,
         pc[t] = "return", res[t] = "restart",
         crpQ' = Requeue(crp[t]), pc'[t] \in Free
  PROVE  IInv'
<1> USE DEF IInv
<1>a. t \in Threads /\ crp[t] \in Reqs
  BY ThreadKinds DEF TypeOK
<1>b. HoldsPending(t) /\ Holds(t) /\ ~HoldsPending(t)' /\ ~HoldsDone(t)' /\ ~Holds(t)'
  BY DEF Holds, HoldsPending, HoldsDone, Free
<1>c. crp[t] \notin Elems(crpQ)
  BY <1>a, <1>b DEF OneOwner
<1>d. Elems(crpQ') = Elems(crpQ) \cup {crp[t]} /\ NoRepeats(crpQ')
  BY <1>a, <1>c, ConsElems DEF Requeue, TypeOK, OneOwner
<1>e. OnRing' = OnRing
  BY DEF OnRing
<1>f. \A u \in Threads \ {t} : Holds(u)' <=> Holds(u)
  BY DEF OthersStay, Holds
<1>g. \A u \in Threads \ {t} : Holds(u) => crp[u] # crp[t]
  BY <1>a, <1>b DEF OneOwner
<1>1. DoneOnce'
  BY <1>a, <1>b, <1>d, <1>e DEF DoneOnce, OthersStay
<1>2. OneOwner'
  <2>1. crp[t] \notin Elems(retQ) \cup OnRing
    BY <1>a, <1>b DEF OneOwner
  <2> QED BY <1>b, <1>d, <1>e, <1>f, <1>g, <2>1 DEF OneOwner, OthersStay
<1>3. OutstandingCount'
  BY SameCount
<1>4. NeverLost'
  <2>1. SUFFICES ASSUME NEW x \in busy
                 PROVE  \/ x \in Elems(crpQ') \cup Elems(retQ') \cup OnRing'
                        \/ \E u \in Threads : Holds(u)' /\ crp'[u] = x
    BY DEF NeverLost
  <2>2. CASE x \in Elems(crpQ) \cup Elems(retQ) \cup OnRing
    BY <1>d, <1>e, <2>2
  <2>3. CASE \E u \in Threads : Holds(u) /\ crp[u] = x
    BY <1>d, <1>f, <2>3 DEF OthersStay
  <2> QED BY <2>2, <2>3 DEF NeverLost
<1> QED BY <1>1, <1>2, <1>3, <1>4

LEMMA DispatchEndKeeps ==
  ASSUME IInv, NEW c \in Callers, DispatchEnd(c)
  PROVE  IInv'
<1> USE DEF IInv
<1>a. c \in Threads /\ pc[c] = "return" /\ crp[c] \in Reqs
  BY ThreadKinds DEF DispatchEnd, TypeOK
<1>b. UNCHANGED <<retQ, ring, done, busy, qCnt, crp, res>>
  BY DEF DispatchEnd, doneVars, retVars, driverVars, clientVars
<1>c. /\ WakeUp(Procs, pc) \in [Threads -> Labels]
      /\ pc' = [WakeUp(Procs, pc) EXCEPT ![c] = "ready"]
  BY WakeUpMoves DEF DispatchEnd
<1>d. /\ pc'[c] = "ready"
      /\ \A u \in Threads \ {c} : \/ pc'[u] = pc[u]
                                  \/ pc[u] = "asleep" /\ pc'[u] = "wait"
  BY <1>a, <1>c, WakeUpMoves
<1>e. OthersStay(c) /\ NotRestarted'
  <2>1. \A u \in Threads \ {c} :
          /\ pc'[u] = pc[u] \/ (pc[u] = "asleep" /\ pc'[u] = "wait")
          /\ crp'[u] = crp[u] /\ res'[u] = res[u]
    BY <1>b, <1>d
  <2>2. /\ OthersStay(c)
        /\ \A u \in (Callers \cup Procs) \ {c} :
             pc'[u] \in {"done", "wake", "insert", "callback"} => res'[u] # "restart"
    BY <1>a, <2>1, StepOfOne
  <2> QED BY <1>d, <2>2 DEF NotRestarted
<1>1. TypeOK'
  <2>1. pc' \in [Threads -> Labels]
    BY <1>c DEF Labels
  <2>2. crpQ' \in Seq(Reqs)
    <3>1. crpQ \in Seq(Reqs) /\ Requeue(crp[c]) \in Seq(Reqs)
      BY <1>a, ConsElems DEF TypeOK, Requeue
    <3> QED BY <3>1 DEF DispatchEnd
  <2>3. qBlocked' \subseteq Drivers /\ unqBlocked' \subseteq Drivers
    BY DEF DispatchEnd, TypeOK
  <2>4. UNCHANGED <<allQBlocked, retLock, needWake, ops>>
    BY DEF DispatchEnd, retVars, driverVars, clientVars
  <2> QED BY <1>b, <2>1, <2>2, <2>3, <2>4 DEF TypeOK
<1>2. CASE res[c] = "restart"
  BY <1>1, <1>2, <1>a, <1>b, <1>d, <1>e, PutBackKeeps DEF DispatchEnd, Free
<1>3. CASE res[c] # "restart"
  <2>1. ~Holds(c) /\ crpQ' = crpQ
    BY <1>3, <1>a DEF Holds, HoldsPending, HoldsDone, DispatchEnd
  <2> QED BY <1>1, <1>a, <1>b, <1>d, <1>e, <2>1, FreeStep DEF Free
<1> QED BY <1>2, <1>3

LEMMA ProcEndKeeps ==
  ASSUME IInv, NEW p \in Procs, ProcEnd(p)
  PROVE  IInv'
<1> USE DEF IInv
<1>a. p \in Threads /\ pc[p] = "return" /\ crp[p] \in Reqs
  BY ThreadKinds DEF ProcEnd, TypeOK
<1>b. UNCHANGED <<retQ, ring, done, busy, qCnt, crp, res>>
  BY DEF ProcEnd, doneVars, retVars, driverVars, clientVars
<1>c. pc' = [pc EXCEPT ![p] = "scan"]
  BY DEF ProcEnd, Goto
<1>d. pc'[p] = "scan" /\ \A u \in Threads \ {p} : pc'[u] = pc[u]
  BY <1>a, <1>c DEF TypeOK
<1>e. OthersStay(p) /\ NotRestarted'
  <2>1. \A u \in Threads \ {p} :
          /\ pc'[u] = pc[u] \/ (pc[u] = "asleep" /\ pc'[u] = "wait")
          /\ crp'[u] = crp[u] /\ res'[u] = res[u]
    BY <1>b, <1>d
  <2>2. /\ OthersStay(p)
        /\ \A u \in (Callers \cup Procs) \ {p} :
             pc'[u] \in {"done", "wake", "insert", "callback"} => res'[u] # "restart"
    BY <1>a, <2>1, StepOfOne
  <2> QED BY <1>d, <2>2 DEF NotRestarted
<1>1. TypeOK'
  <2>1. pc' \in [Threads -> Labels]
    BY <1>c DEF Labels, TypeOK
  <2>2. crpQ' \in Seq(Reqs)
    <3>1. crpQ \in Seq(Reqs) /\ Requeue(crp[p]) \in Seq(Reqs)
      BY <1>a, ConsElems DEF TypeOK, Requeue
    <3> QED BY <3>1 DEF ProcEnd
  <2>3. qBlocked' \subseteq Drivers /\ unqBlocked' \subseteq Drivers
    BY DEF ProcEnd, TypeOK, BlockedAfterRestart
  <2>4. UNCHANGED <<allQBlocked, retLock, needWake, ops>>
    BY DEF ProcEnd, retVars, driverVars, clientVars
  <2> QED BY <1>b, <2>1, <2>2, <2>3, <2>4 DEF TypeOK
<1>2. CASE res[p] = "restart"
  BY <1>1, <1>2, <1>a, <1>b, <1>d, <1>e, PutBackKeeps DEF ProcEnd, Free
<1>3. CASE res[p] # "restart"
  <2>1. ~Holds(p) /\ crpQ' = crpQ
    BY <1>3, <1>a DEF Holds, HoldsPending, HoldsDone, ProcEnd
  <2> QED BY <1>1, <1>a, <1>b, <1>d, <1>e, <2>1, FreeStep DEF Free
<1> QED BY <1>2, <1>3

LEMMA ProcSubmitKeeps ==
  ASSUME IInv, NEW p \in Procs, NEW i \in DOMAIN crpQ, ProcSubmit(p, i)
  PROVE  IInv'
<1> USE DEF IInv
<1> DEFINE r == crpQ[i]
<1>a. p \in Threads /\ pc[p] = "scan" /\ i \in 1 .. Len(crpQ)
  BY ThreadKinds DEF ProcSubmit, TypeOK
<1>b. /\ r \in Reqs /\ r \in Elems(crpQ) /\ crpQ' \in Seq(Reqs)
      /\ Elems(crpQ') = Elems(crpQ) \ {r} /\ NoRepeats(crpQ')
  BY <1>a, WithoutElems DEF Without, ProcSubmit, OneOwner, TypeOK
<1>c. /\ UNCHANGED <<retQ, ring, done, busy, qCnt, res>> /\ OnRing' = OnRing
      /\ pc' = [pc EXCEPT ![p] = "invoke"] /\ crp' = [crp EXCEPT ![p] = r]
  BY DEF ProcSubmit, doneVars, retVars, driverVars, clientVars, OnRing, Goto
<1> HIDE DEF r
<1>d. /\ pc'[p] = "invoke" /\ crp'[p] = r
      /\ \A u \in Threads \ {p} : pc'[u] = pc[u] /\ crp'[u] = crp[u] /\ res'[u] = res[u]
  BY <1>a, <1>c DEF TypeOK
<1>e. OthersStay(p) /\ NotRestarted'
  BY <1>a, <1>d, StepOfOne DEF NotRestarted
<1>f. ~Holds(p) /\ HoldsPending(p)' /\ Holds(p)' /\ ~HoldsDone(p)'
  BY <1>a, <1>d DEF Holds, HoldsPending, HoldsDone
<1>g. \A u \in Threads \ {p} : Holds(u)' <=> Holds(u)
  BY <1>e DEF OthersStay, Holds
<1>h. \A u \in Threads : Holds(u) => crp[u] # r
  BY <1>b DEF OneOwner
<1>1. TypeOK'
  <2>1. pc' \in [Threads -> Labels] /\ crp' \in [Threads -> Reqs]
    BY <1>b, <1>c DEF Labels, TypeOK
  <2>2. unqBlocked' \subseteq Drivers
    BY <1>b, SetsAssumption DEF ProcSubmit, TypeOK, r
  <2> QED BY <1>b, <1>c, <2>1, <2>2 DEF TypeOK, ProcSubmit, retVars, driverVars, clientVars
<1>2. DoneOnce'
  BY <1>b, <1>c, <1>d, <1>e, <1>f DEF DoneOnce, OthersStay
<1>3. OneOwner'
  <2>1. r \notin Elems(retQ) \cup OnRing
    BY <1>b DEF OneOwner
  <2> QED BY <1>b, <1>c, <1>d, <1>e, <1>f, <1>g, <1>h, <2>1 DEF OneOwner, OthersStay
<1>4. OutstandingCount'
  BY <1>c, SameCount
<1>5. NeverLost'
  <2>1. SUFFICES ASSUME NEW x \in busy
                 PROVE  \/ x \in Elems(crpQ') \cup Elems(retQ') \cup OnRing'
                        \/ \E u \in Threads : Holds(u)' /\ crp'[u] = x
    BY <1>c DEF NeverLost
  <2>2. CASE x \in Elems(crpQ) \cup Elems(retQ) \cup OnRing
    BY <1>a, <1>b, <1>c, <1>d, <1>f, <2>2
  <2>3. CASE \E u \in Threads : Holds(u) /\ crp[u] = x
    BY <1>e, <1>f, <1>g, <2>3 DEF OthersStay
  <2> QED BY <2>2, <2>3 DEF NeverLost
<1> QED BY <1>1, <1>2, <1>3, <1>e, <1>4, <1>5

(* A step of t alone, which ends at label l. *)
LEMMA GotoOthers ==
  ASSUME IInv, NEW t \in Threads, NEW l, pc' = [pc EXCEPT ![t] = l],
         \A u \in Threads \ {t} : crp'[u] = crp[u] /\ res'[u] = res[u]
  PROVE  /\ pc'[t] = l /\ OthersStay(t)
         /\ \A u \in Threads \ {t} : Holds(u)' <=> Holds(u)
         /\ (\/ l \notin {"done", "wake", "insert", "callback"}
             \/ t \notin Callers \cup Procs
             \/ res'[t] # "restart") => NotRestarted'
<1> USE DEF IInv
<1>1. pc'[t] = l /\ \A u \in Threads \ {t} : pc'[u] = pc[u]
  BY DEF TypeOK
<1>2. /\ OthersStay(t)
      /\ \A u \in (Callers \cup Procs) \ {t} :
           pc'[u] \in {"done", "wake", "insert", "callback"} => res'[u] # "restart"
  BY <1>1, StepOfOne
<1>3. \A u \in Threads \ {t} : Holds(u)' <=> Holds(u)
  BY <1>2 DEF OthersStay, Holds
<1>4. ASSUME \/ l \notin {"done", "wake", "insert", "callback"}
             \/ t \notin Callers \cup Procs
             \/ res'[t] # "restart"
      PROVE  NotRestarted'
  BY <1>1, <1>2, <1>4 DEF NotRestarted
<1> QED BY <1>1, <1>2, <1>3, <1>4

LEMMA FreeGoto ==
  ASSUME IInv, TypeOK', NEW t \in Threads, NEW l \in Free, pc' = [pc EXCEPT ![t] = l],
         UNCHANGED <<crpQ, retQ, ring, done, busy, qCnt, crp, res>>, ~Holds(t)
  PROVE  IInv'
<1>1. \A u \in Threads \ {t} : crp'[u] = crp[u] /\ res'[u] = res[u]
  OBVIOUS
<1>2. pc'[t] = l /\ OthersStay(t) /\ NotRestarted'
  BY <1>1, GotoOthers DEF Free
<1> QED BY <1>2, FreeStep

LEMMA ProcIdleKeeps ==
  ASSUME IInv, NEW p \in Procs, ProcIdle(p)
  PROVE  IInv'
<1>1. p \in Threads /\ ~Holds(p) /\ pc' = [pc EXCEPT ![p] = "wait"]
  BY ThreadKinds DEF ProcIdle, Goto, Holds, HoldsPending, HoldsDone
<1>2. TypeOK'
  BY <1>1 DEF IInv, TypeOK, ProcIdle, doneVars, retVars, driverVars, clientVars, Labels
<1> QED BY <1>1, <1>2, FreeGoto
        DEF ProcIdle, doneVars, retVars, driverVars, clientVars, Free

LEMMA ProcWaitKeeps ==
  ASSUME IInv, NEW p \in Procs, ProcWait(p)
  PROVE  IInv'
<1> DEFINE l == IF MayProceed THEN "scan" ELSE "asleep"
<1>1. p \in Threads /\ ~Holds(p) /\ pc' = [pc EXCEPT ![p] = l] /\ l \in Free
  BY ThreadKinds DEF ProcWait, Goto, Holds, HoldsPending, HoldsDone, Free
<1> HIDE DEF l
<1>2. TypeOK'
  BY <1>1 DEF IInv, TypeOK, ProcWait, queueVars, doneVars, retVars, driverVars,
              clientVars, Labels, Free
<1> QED BY <1>1, <1>2, FreeGoto
        DEF ProcWait, queueVars, doneVars, retVars, driverVars, clientVars

LEMMA RetWaitKeeps ==
  ASSUME IInv, NEW t \in Rets, RetWait(t)
  PROVE  IInv'
<1> DEFINE l == IF retQ # <<>> THEN "harvest" ELSE "asleep"
<1>1. t \in Threads /\ ~Holds(t) /\ pc' = [pc EXCEPT ![t] = l] /\ l \in Free
  BY ThreadKinds DEF RetWait, Goto, Holds, HoldsPending, HoldsDone, Free
<1> HIDE DEF l
<1>2. TypeOK'
  BY <1>1 DEF IInv, TypeOK, RetWait, queueVars, doneVars, retVars, driverVars,
              clientVars, Labels, Free
<1> QED BY <1>1, <1>2, FreeGoto
        DEF RetWait, queueVars, doneVars, retVars, driverVars, clientVars

LEMMA IsrDrainedKeeps ==
  ASSUME IInv, NEW d \in Drivers, IsrDrained(d)
  PROVE  IInv'
<1> DEFINE l == IF d \in needWake THEN "unblock" ELSE "idle"
<1>1. d \in Threads /\ ~Holds(d) /\ pc' = [pc EXCEPT ![d] = l] /\ l \in Free
  BY ThreadKinds DEF IsrDrained, Goto, Holds, HoldsPending, HoldsDone, Free
<1> HIDE DEF l
<1>2. TypeOK'
  BY <1>1 DEF IInv, TypeOK, IsrDrained, queueVars, doneVars, retVars,
              clientVars, Labels, Free
<1> QED BY <1>1, <1>2, FreeGoto
        DEF IsrDrained, queueVars, doneVars, retVars, clientVars

LEMMA UnblockKeeps ==
  ASSUME IInv, NEW d \in Drivers, Unblock(d)
  PROVE  IInv'
<1> USE DEF IInv
<1>a. d \in Threads /\ pc[d] = "unblock"
  BY ThreadKinds DEF Unblock
<1>b. UNCHANGED <<crpQ, retQ, ring, done, busy, qCnt, crp, res>>
  BY DEF Unblock, doneVars, retVars, driverVars, clientVars
<1>c. /\ pc' \in [Threads -> Labels] /\ pc'[d] = "idle"
      /\ \A u \in Threads \ {d} :
           pc'[u] = pc[u] \/ (pc[u] = "asleep" /\ pc'[u] = "wait")
  BY <1>a, WakeUpMoves DEF Unblock, Labels
<1>d. OthersStay(d) /\ NotRestarted'
  <2>1. \A u \in Threads \ {d} :
          /\ pc'[u] = pc[u] \/ (pc[u] = "asleep" /\ pc'[u] = "wait")
          /\ crp'[u] = crp[u] /\ res'[u] = res[u]
    BY <1>b, <1>c
  <2>2. /\ OthersStay(d)
        /\ \A u \in (Callers \cup Procs) \ {d} :
             pc'[u] \in {"done", "wake", "insert", "callback"} => res'[u] # "restart"
    BY <1>a, <2>1, StepOfOne
  <2> QED BY <1>c, <2>2 DEF NotRestarted
<1>e. TypeOK'
  BY <1>b, <1>c DEF TypeOK, Unblock, retVars, driverVars, clientVars
<1>f. ~Holds(d)
  BY <1>a DEF Holds, HoldsPending, HoldsDone
<1> QED BY <1>a, <1>b, <1>c, <1>d, <1>e, <1>f, FreeStep DEF Free

(* A step of t that keeps the request in its hands. *)
LEMMA KeepsHold ==
  ASSUME IInv, TypeOK', NEW t \in Threads, OthersStay(t), NotRestarted',
         UNCHANGED <<crpQ, retQ, ring, done, busy, qCnt, crp>>,
         HoldsPending(t)' <=> HoldsPending(t), HoldsDone(t)' <=> HoldsDone(t)
  PROVE  IInv'
<1>1. \A u \in Threads : /\ HoldsPending(u)' <=> HoldsPending(u)
                         /\ HoldsDone(u)' <=> HoldsDone(u)
                         /\ Holds(u) => crp'[u] = crp[u]
  BY DEF OthersStay
<1> QED BY <1>1, NobodyMoves

LEMMA ProcessNowKeeps ==
  ASSUME IInv, NEW t \in Callers \cup Procs, ProcessNow(t)
  PROVE  IInv'
<1> USE DEF IInv
<1>1. /\ t \in Threads /\ pc[t] = "invoke" /\ pc' = [pc EXCEPT ![t] = "done"]
      /\ UNCHANGED <<crpQ, retQ, ring, done, busy, qCnt, crp>>
  BY ThreadKinds DEF ProcessNow, Goto, queueVars, doneVars, retVars, driverVars, clientVars
<1>2. PICK x \in {"ok", "error"} : res' = [res EXCEPT ![t] = x]
  BY DEF ProcessNow
<1>3. res'[t] # "restart" /\ \A u \in Threads \ {t} : crp'[u] = crp[u] /\ res'[u] = res[u]
  BY <1>1, <1>2 DEF TypeOK
<1>4. pc'[t] = "done" /\ OthersStay(t) /\ NotRestarted'
  BY <1>1, <1>3, GotoOthers
<1>5. TypeOK'
  BY <1>1, <1>2 DEF TypeOK, ProcessNow, queueVars, retVars, driverVars, clientVars, Labels
<1>6. HoldsPending(t) /\ HoldsPending(t)' /\ ~HoldsDone(t) /\ ~HoldsDone(t)'
  BY <1>1, <1>4 DEF HoldsPending, HoldsDone
<1> QED BY <1>1, <1>4, <1>5, <1>6, KeepsHold

LEMMA ProcessRestartKeeps ==
  ASSUME IInv, NEW t \in Callers \cup Procs, ProcessRestart(t)
  PROVE  IInv'
<1> USE DEF IInv
<1>1. /\ t \in Threads /\ pc[t] = "invoke" /\ pc' = [pc EXCEPT ![t] = "return"]
      /\ res' = [res EXCEPT ![t] = "restart"]
      /\ UNCHANGED <<crpQ, retQ, ring, done, busy, qCnt, crp>>
  BY ThreadKinds DEF ProcessRestart, Goto, queueVars, doneVars, retVars, clientVars
<1>2. res'[t] = "restart" /\ \A u \in Threads \ {t} : crp'[u] = crp[u] /\ res'[u] = res[u]
  BY <1>1 DEF TypeOK
<1>3. pc'[t] = "return" /\ OthersStay(t) /\ NotRestarted'
  <2>1. \A u \in Threads \ {t} : crp'[u] = crp[u] /\ res'[u] = res[u]
    BY <1>2
  <2>2. "return" \notin {"done", "wake", "insert", "callback"}
    OBVIOUS
  <2> QED BY <1>1, <2>1, <2>2, GotoOthers
<1>4. TypeOK'
  <2>1. needWake' \subseteq Drivers
    BY <1>1, SetsAssumption DEF ProcessRestart, TypeOK
  <2> QED BY <1>1, <2>1 DEF TypeOK, ProcessRestart, queueVars, retVars, clientVars, Labels
<1>5. HoldsPending(t) /\ HoldsPending(t)' /\ ~HoldsDone(t) /\ ~HoldsDone(t)'
  BY <1>1, <1>2, <1>3 DEF HoldsPending, HoldsDone
<1> QED BY <1>1, <1>3, <1>4, <1>5, KeepsHold

LEMMA DoneWakeKeeps ==
  ASSUME IInv, NEW t \in Threads, DoneWake(t)
  PROVE  IInv'
<1> USE DEF IInv
<1>1. pc[t] = "wake" /\ UNCHANGED <<crpQ, retQ, ring, done, busy, qCnt, crp, res>>
  BY DEF DoneWake, queueVars, doneVars, driverVars, clientVars
<1>2. /\ pc' \in [Threads -> Labels] /\ pc'[t] = "insert"
      /\ \A u \in Threads \ {t} :
           pc'[u] = pc[u] \/ (pc[u] = "asleep" /\ pc'[u] = "wait")
  BY <1>1, WakeUpMoves DEF DoneWake, Labels
<1>3. OthersStay(t) /\ NotRestarted'
  <2>1. \A u \in Threads \ {t} :
          /\ pc'[u] = pc[u] \/ (pc[u] = "asleep" /\ pc'[u] = "wait")
          /\ crp'[u] = crp[u] /\ res'[u] = res[u]
    BY <1>1, <1>2
  <2>2. /\ OthersStay(t)
        /\ \A u \in (Callers \cup Procs) \ {t} :
             pc'[u] \in {"done", "wake", "insert", "callback"} => res'[u] # "restart"
    BY <2>1, StepOfOne
  <2>3. t \in Callers \cup Procs => res'[t] # "restart"
    BY <1>1 DEF NotRestarted
  <2> QED BY <2>2, <2>3 DEF NotRestarted
<1>4. TypeOK'
  BY <1>1, <1>2 DEF TypeOK, DoneWake, queueVars, driverVars, clientVars
<1>5. ~HoldsPending(t) /\ ~HoldsPending(t)' /\ HoldsDone(t) /\ HoldsDone(t)'
  BY <1>1, <1>2 DEF HoldsPending, HoldsDone
<1> QED BY <1>1, <1>3, <1>4, <1>5, KeepsHold

LEMMA ProcessAcceptKeeps ==
  ASSUME IInv, NEW t \in Callers \cup Procs, ProcessAccept(t)
  PROVE  IInv'
<1> USE DEF IInv
<1> DEFINE r == crp[t]
           d == DriverOf[r]
<1>a. /\ t \in Threads /\ pc[t] = "invoke" /\ pc' = [pc EXCEPT ![t] = "return"]
      /\ res' = [res EXCEPT ![t] = "ok"] /\ ring' = [ring EXCEPT ![d] = @ \cup {r}]
      /\ UNCHANGED <<crpQ, retQ, done, busy, qCnt, crp>>
  BY ThreadKinds DEF ProcessAccept, Goto, queueVars, doneVars, retVars, clientVars
<1>b. r \in Reqs /\ d \in Drivers
  BY <1>a, SetsAssumption DEF TypeOK
<1>c. res'[t] = "ok" /\ \A u \in Threads \ {t} : crp'[u] = crp[u] /\ res'[u] = res[u]
  BY <1>a DEF TypeOK
<1>d. /\ pc'[t] = "return" /\ OthersStay(t) /\ NotRestarted'
      /\ \A u \in Threads \ {t} : Holds(u)' <=> Holds(u)
  BY <1>a, <1>c, GotoOthers
<1>e. /\ HoldsPending(t) /\ Holds(t) /\ r \in busy /\ ~done[r]
      /\ ~HoldsPending(t)' /\ ~HoldsDone(t)' /\ ~Holds(t)'
  BY <1>a, <1>c, <1>d DEF HoldsPending, HoldsDone, Holds, DoneOnce
<1>f. OnRing' = OnRing \cup {r}
  BY <1>a, <1>b DEF OnRing, TypeOK
<1>g. /\ r \notin Elems(crpQ) \cup Elems(retQ) \cup OnRing
      /\ \A u \in Threads \ {t} : Holds(u) => crp[u] # r
  BY <1>a, <1>e DEF OneOwner
<1>1. TypeOK'
  BY <1>a, <1>b DEF TypeOK, ProcessAccept, queueVars, retVars, clientVars, Labels
<1> HIDE DEF r, d
<1>2. DoneOnce'
  BY <1>a, <1>d, <1>e, <1>f DEF DoneOnce, OthersStay
<1>3. OneOwner'
  <2>1. \A e, f \in Drivers : e # f => ring'[e] \cap ring'[f] = {}
    <3>1. \A e \in Drivers : r \notin ring[e]
      BY <1>g DEF OnRing
    <3> QED BY <1>a, <1>b, <3>1 DEF OneOwner, TypeOK
  <2>2. \A u \in Threads : Holds(u)' =>
          /\ crp'[u] \notin Elems(crpQ') \cup Elems(retQ') \cup OnRing'
          /\ \A v \in Threads : Holds(v)' /\ crp'[v] = crp'[u] => v = u
    BY <1>a, <1>d, <1>e, <1>f, <1>g DEF OneOwner, OthersStay
  <2> QED BY <1>a, <1>f, <1>g, <2>1, <2>2 DEF OneOwner
<1>4. OutstandingCount'
  BY <1>a, SameCount
<1>5. NeverLost'
  <2>1. SUFFICES ASSUME NEW x \in busy
                 PROVE  \/ x \in Elems(crpQ') \cup Elems(retQ') \cup OnRing'
                        \/ \E u \in Threads : Holds(u)' /\ crp'[u] = x
    BY <1>a DEF NeverLost
  <2>2. CASE x \in Elems(crpQ) \cup Elems(retQ) \cup OnRing
    BY <1>a, <1>f, <2>2
  <2>3. CASE \E u \in Threads : Holds(u) /\ crp[u] = x
    BY <1>a, <1>d, <1>f, <2>3 DEF OthersStay, r
  <2> QED BY <2>2, <2>3 DEF NeverLost
<1> QED BY <1>1, <1>2, <1>3, <1>d, <1>4, <1>5

LEMMA IsrTakeKeeps ==
  ASSUME IInv, NEW d \in Drivers, NEW r \in ring[d], IsrTake(d, r)
  PROVE  IInv'
<1> USE DEF IInv
<1>a. /\ d \in Threads /\ pc[d] \in {"idle", "drain"}
      /\ pc' = [pc EXCEPT ![d] = "done"] /\ crp' = [crp EXCEPT ![d] = r]
      /\ ring' = [ring EXCEPT ![d] = @ \ {r}]
      /\ UNCHANGED <<crpQ, retQ, done, busy, qCnt, res>>
  BY ThreadKinds DEF IsrTake, Goto, queueVars, doneVars, retVars, clientVars
<1>b. r \in Reqs /\ r \in OnRing
  BY DEF TypeOK, OnRing
<1>c. crp'[d] = r /\ \A u \in Threads \ {d} : crp'[u] = crp[u] /\ res'[u] = res[u]
  BY <1>a DEF TypeOK
<1>d. /\ pc'[d] = "done" /\ OthersStay(d) /\ NotRestarted'
      /\ \A u \in Threads \ {d} : Holds(u)' <=> Holds(u)
  <2>1. d \notin Callers \cup Procs
    BY ThreadsAssumption
  <2> QED BY <1>a, <1>c, <2>1, GotoOthers
<1>e. /\ ~Holds(d) /\ r \in busy /\ ~done[r]
      /\ HoldsPending(d)' /\ ~HoldsDone(d)' /\ Holds(d)'
  BY <1>a, <1>b, <1>d DEF HoldsPending, HoldsDone, Holds, DoneOnce
<1>f. OnRing' = OnRing \ {r}
  BY <1>a, <1>b DEF OnRing, TypeOK, OneOwner
<1>g. /\ r \notin Elems(crpQ) \cup Elems(retQ)
      /\ \A u \in Threads : Holds(u) => crp[u] # r
  BY <1>b DEF OneOwner
<1>1. TypeOK'
  BY <1>a, <1>b DEF TypeOK, IsrTake, queueVars, retVars, clientVars, Labels
<1>2. DoneOnce'
  BY <1>a, <1>c, <1>d, <1>e, <1>f DEF DoneOnce, OthersStay
<1>3. OneOwner'
  <2>1. \A e, f \in Drivers : e # f => ring'[e] \cap ring'[f] = {}
    BY <1>a DEF OneOwner, TypeOK
  <2>2. \A u \in Threads : Holds(u)' =>
          /\ crp'[u] \notin Elems(crpQ') \cup Elems(retQ') \cup OnRing'
          /\ \A v \in Threads : Holds(v)' /\ crp'[v] = crp'[u] => v = u
    BY <1>a, <1>c, <1>d, <1>e, <1>f, <1>g DEF OneOwner, OthersStay
  <2> QED BY <1>a, <1>f, <1>g, <2>1, <2>2 DEF OneOwner
<1>4. OutstandingCount'
  BY <1>a, SameCount
<1>5. NeverLost'
  <2>1. SUFFICES ASSUME NEW x \in busy
                 PROVE  \/ x \in Elems(crpQ') \cup Elems(retQ') \cup OnRing'
                        \/ \E u \in Threads : Holds(u)' /\ crp'[u] = x
    BY <1>a DEF NeverLost
  <2>2. CASE x \in Elems(crpQ) \cup Elems(retQ) \cup OnRing
    BY <1>a, <1>c, <1>e, <1>f, <2>2
  <2>3. CASE \E u \in Threads : Holds(u) /\ crp[u] = x
    BY <1>d, <1>e, <2>3 DEF OthersStay
  <2> QED BY <2>2, <2>3 DEF NeverLost
<1> QED BY <1>1, <1>2, <1>3, <1>d, <1>4, <1>5

LEMMA DoneMarkKeeps ==
  ASSUME IInv, NEW t \in Threads, DoneMark(t)
  PROVE  IInv'
<1> USE DEF IInv
<1> DEFINE r == crp[t]
           l == IF CallbackNow(r) THEN "callback" ELSE "wake"
<1>a. /\ pc[t] = "done" /\ pc' = [pc EXCEPT ![t] = l] /\ l \in {"callback", "wake"}
      /\ done' = [done EXCEPT ![r] = TRUE] /\ qCnt' = Outstanding(r)
      /\ UNCHANGED <<crpQ, retQ, ring, busy, crp, res>> /\ OnRing' = OnRing
  BY DEF DoneMark, Goto, queueVars, retVars, driverVars, clientVars, OnRing
<1>b. r \in Reqs /\ \A u \in Threads \ {t} : crp'[u] = crp[u] /\ res'[u] = res[u]
  BY <1>a DEF TypeOK
<1>c. /\ pc'[t] = l /\ OthersStay(t) /\ NotRestarted'
      /\ \A u \in Threads \ {t} : Holds(u)' <=> Holds(u)
  <2>1. t \notin Callers \cup Procs \/ res'[t] # "restart"
    BY <1>a DEF NotRestarted
  <2> QED BY <1>a, <1>b, <2>1, GotoOthers
<1>d. /\ HoldsPending(t) /\ Holds(t) /\ r \in busy /\ ~done[r]
      /\ ~HoldsPending(t)' /\ HoldsDone(t)' /\ Holds(t)'
  BY <1>a, <1>c DEF HoldsPending, HoldsDone, Holds, DoneOnce
<1>e. /\ r \notin Elems(crpQ) \cup Elems(retQ) \cup OnRing
      /\ \A u \in Threads \ {t} : Holds(u) => crp[u] # r
  BY <1>d DEF OneOwner
<1>1. OutstandingCount' /\ qCnt' \in Nat
  <2>1. Pending' = Pending \ {r} /\ r \in Pending
    BY <1>a, <1>b, <1>d DEF Pending, TypeOK
  <2>2. Cardinality(Pending \ {r}) = Cardinality(Pending) - 1
    BY <2>1, PendingFinite, FS_RemoveElement
  <2>3. IsFiniteSet(Pending \ {r}) /\ Cardinality(Pending \ {r}) \in Nat
    BY PendingFinite, FS_Subset, FS_CardinalityType
  <2>4. qCnt' = qCnt - 1 /\ qCnt = Cardinality(Pending)
    BY <1>a, <1>d DEF Outstanding, OutstandingCount, Pending
  <2>5. qCnt' = Cardinality(Pending')
    BY <2>1, <2>2, <2>4
  <2>6. qCnt' <= QMax /\ qCnt' \in Nat
    BY <2>2, <2>3, <2>4, BoundsAssumption DEF OutstandingCount, TypeOK
  <2> QED BY <2>5, <2>6 DEF OutstandingCount, Pending
<1> HIDE DEF r, l
<1>2. TypeOK'
  BY <1>a, <1>b, <1>1 DEF TypeOK, DoneMark, queueVars, retVars, driverVars, clientVars,
                          Labels
<1>3. DoneOnce'
  <2>1. \A u \in Threads \ {t} : Holds(u) => done'[crp[u]] = done[crp[u]]
    BY <1>a, <1>b, <1>e DEF TypeOK
  <2>2. \A x \in Elems(crpQ) \cup Elems(retQ) \cup OnRing : done'[x] = done[x]
    BY <1>a, <1>b, <1>e DEF TypeOK, DoneOnce
  <2>3. crp'[t] = r /\ done'[r]
    BY <1>a, <1>b DEF TypeOK, r
  <2>4. /\ \A x \in Elems(crpQ') \cup OnRing' : x \in busy' /\ ~done'[x]
        /\ \A x \in Elems(retQ') : x \in busy' /\ done'[x]
    BY <1>a, <2>2 DEF DoneOnce
  <2>5. ASSUME NEW u \in Threads \ {t}
        PROVE  /\ HoldsPending(u)' => crp'[u] \in busy' /\ ~done'[crp'[u]]
               /\ HoldsDone(u)' => crp'[u] \in busy' /\ done'[crp'[u]]
    <3>1. /\ HoldsPending(u)' <=> HoldsPending(u)
          /\ HoldsDone(u)' <=> HoldsDone(u) /\ crp'[u] = crp[u]
      BY <1>c DEF OthersStay
    <3> QED BY <1>a, <2>1, <3>1 DEF DoneOnce, Holds
  <2>6. /\ HoldsPending(t)' => crp'[t] \in busy' /\ ~done'[crp'[t]]
        /\ HoldsDone(t)' => crp'[t] \in busy' /\ done'[crp'[t]]
    BY <1>a, <1>d, <2>3
  <2> QED BY <2>4, <2>5, <2>6 DEF DoneOnce
<1>4. OneOwner'
  <2>1. \A u \in Threads : Holds(u)' <=> Holds(u)
    BY <1>c, <1>d
  <2> QED BY <1>a, <2>1 DEF OneOwner
<1>5. NeverLost'
  <2>1. \A u \in Threads : Holds(u)' <=> Holds(u)
    BY <1>c, <1>d
  <2> QED BY <1>a, <2>1 DEF NeverLost
<1> QED BY <1>1, <1>2, <1>3, <1>4, <1>c, <1>5

LEMMA DoneInsertKeeps ==
  ASSUME IInv, NEW t \in Threads, DoneInsert(t)
  PROVE  IInv'
<1> USE DEF IInv
<1> DEFINE r == crp[t]
           l == Resume(t)
<1>a. /\ pc[t] = "insert" /\ pc' = [pc EXCEPT ![t] = l]
      /\ UNCHANGED <<crpQ, ring, done, busy, qCnt, crp, res>> /\ OnRing' = OnRing
  BY DEF DoneInsert, Goto, queueVars, doneVars, driverVars, clientVars, OnRing
<1>b. l \in Labels /\ l \in {"drain", "harvest", "return"}
      /\ (l = "return" => t \in Callers \cup Procs)
  BY ResumeIdle
<1>c. r \in Reqs /\ r \in busy /\ done[r] /\ Holds(t) /\ HoldsDone(t)
  BY <1>a DEF TypeOK, DoneOnce, Holds, HoldsDone
<1>d. /\ r \notin Elems(crpQ) \cup Elems(retQ) \cup OnRing
      /\ \A u \in Threads \ {t} : Holds(u) => crp[u] # r
  BY <1>c DEF OneOwner
<1>e. /\ retQ' \in Seq(Reqs) /\ NoRepeats(retQ')
      /\ Elems(retQ') = Elems(retQ) \cup {r}
  BY <1>c, <1>d, AppendElems DEF TypeOK, DoneInsert, OneOwner
<1> HIDE DEF r, l
<1>f. /\ pc'[t] = l /\ OthersStay(t) /\ NotRestarted'
      /\ \A u \in Threads \ {t} : Holds(u)' <=> Holds(u)
  <2>1. \A u \in Threads \ {t} : crp'[u] = crp[u] /\ res'[u] = res[u]
    BY <1>a
  <2>2. l \notin {"done", "wake", "insert", "callback"}
    BY <1>b
  <2> QED BY <1>a, <2>1, <2>2, GotoOthers
<1>g. ~HoldsPending(t)' /\ ~HoldsDone(t)' /\ ~Holds(t)'
  <2>1. l = "return" => res[t] # "restart"
    BY <1>a, <1>b DEF NotRestarted
  <2> QED BY <1>a, <1>b, <1>f, <2>1 DEF HoldsPending, HoldsDone, Holds
<1>1. TypeOK'
  BY <1>a, <1>b, <1>e DEF TypeOK, DoneInsert, queueVars, driverVars, clientVars
<1>2. DoneOnce'
  BY <1>a, <1>c, <1>e, <1>f, <1>g DEF DoneOnce, OthersStay
<1>3. OneOwner'
  <2>1. \A u \in Threads : Holds(u)' =>
          /\ crp'[u] \notin Elems(crpQ') \cup Elems(retQ') \cup OnRing'
          /\ \A v \in Threads : Holds(v)' /\ crp'[v] = crp'[u] => v = u
    BY <1>a, <1>d, <1>e, <1>f, <1>g DEF OneOwner, OthersStay
  <2> QED BY <1>a, <1>d, <1>e, <2>1 DEF OneOwner
<1>4. OutstandingCount'
  BY <1>a, SameCount
<1>5. NeverLost'
  <2>1. SUFFICES ASSUME NEW x \in busy
                 PROVE  \/ x \in Elems(crpQ') \cup Elems(retQ') \cup OnRing'
                        \/ \E u \in Threads : Holds(u)' /\ crp'[u] = x
    BY <1>a DEF NeverLost
  <2>2. CASE x \in Elems(crpQ) \cup Elems(retQ) \cup OnRing
    BY <1>a, <1>e, <2>2
  <2>3. CASE \E u \in Threads : Holds(u) /\ crp[u] = x
    BY <1>e, <1>f, <2>3 DEF OthersStay, r
  <2> QED BY <2>2, <2>3 DEF NeverLost
<1> QED BY <1>1, <1>2, <1>3, <1>f, <1>4, <1>5

LEMMA CallbackKeeps ==
  ASSUME IInv, NEW t \in Threads, Callback(t)
  PROVE  IInv'
<1> USE DEF IInv
<1> DEFINE r == crp[t]
           l == Resume(t)
<1>a. /\ pc[t] = "callback" /\ pc' = [pc EXCEPT ![t] = l] /\ busy' = busy \ {r}
      /\ UNCHANGED <<crpQ, retQ, ring, done, qCnt, crp, res>> /\ OnRing' = OnRing
  BY DEF Callback, Goto, queueVars, doneVars, retVars, driverVars, OnRing
<1>b. l \in Labels /\ l \in {"drain", "harvest", "return"}
      /\ (l = "return" => t \in Callers \cup Procs)
  BY ResumeIdle
<1>c. r \in busy /\ done[r] /\ Holds(t) /\ HoldsDone(t)
  BY <1>a DEF DoneOnce, Holds, HoldsDone
<1>d. /\ r \notin Elems(crpQ) \cup Elems(retQ) \cup OnRing
      /\ \A u \in Threads \ {t} : Holds(u) => crp[u] # r
  BY <1>c DEF OneOwner
<1> HIDE DEF l
<1>f. /\ pc'[t] = l /\ OthersStay(t) /\ NotRestarted'
      /\ \A u \in Threads \ {t} : Holds(u)' <=> Holds(u)
  <2>1. \A u \in Threads \ {t} : crp'[u] = crp[u] /\ res'[u] = res[u]
    BY <1>a
  <2>2. l \notin {"done", "wake", "insert", "callback"}
    BY <1>b
  <2> QED BY <1>a, <2>1, <2>2, GotoOthers
<1>g. ~HoldsPending(t)' /\ ~HoldsDone(t)' /\ ~Holds(t)'
  <2>1. l = "return" => res[t] # "restart"
    BY <1>a, <1>b DEF NotRestarted
  <2> QED BY <1>a, <1>b, <1>f, <2>1 DEF HoldsPending, HoldsDone, Holds
<1>1. TypeOK'
  BY <1>a, <1>b DEF TypeOK, Callback, queueVars, doneVars, retVars, driverVars
<1> HIDE DEF r
<1>2. DoneOnce'
  <2>1. /\ \A x \in Elems(crpQ') \cup OnRing' : x \in busy' /\ ~done'[x]
        /\ \A x \in Elems(retQ') : x \in busy' /\ done'[x]
    BY <1>a, <1>d DEF DoneOnce
  <2>2. ASSUME NEW u \in Threads \ {t}
        PROVE  /\ HoldsPending(u)' => crp'[u] \in busy' /\ ~done'[crp'[u]]
               /\ HoldsDone(u)' => crp'[u] \in busy' /\ done'[crp'[u]]
    <3>1. /\ HoldsPending(u)' <=> HoldsPending(u)
          /\ HoldsDone(u)' <=> HoldsDone(u) /\ crp'[u] = crp[u]
      BY <1>f DEF OthersStay
    <3> QED BY <1>a, <1>d, <3>1 DEF DoneOnce, Holds
  <2> QED BY <1>g, <2>1, <2>2 DEF DoneOnce
<1>3. OneOwner'
  BY <1>a, <1>f, <1>g DEF OneOwner, OthersStay
<1>4. OutstandingCount'
  <2>1. {x \in busy' : ~done'[x]} = {x \in busy : ~done[x]}
    BY <1>a, <1>c
  <2> QED BY <1>a, <2>1 DEF OutstandingCount
<1>5. NeverLost'
  <2>1. SUFFICES ASSUME NEW x \in busy, x # r
                 PROVE  \/ x \in Elems(crpQ') \cup Elems(retQ') \cup OnRing'
                        \/ \E u \in Threads : Holds(u)' /\ crp'[u] = x
    BY <1>a DEF NeverLost
  <2>2. CASE x \in Elems(crpQ) \cup Elems(retQ) \cup OnRing
    BY <1>a, <2>2
  <2>3. CASE \E u \in Threads : Holds(u) /\ crp[u] = x
    BY <1>f, <2>1, <2>3 DEF OthersStay, r
  <2> QED BY <2>2, <2>3 DEF NeverLost
<1> QED BY <1>1, <1>2, <1>3, <1>f, <1>4, <1>5

LEMMA RetHarvestKeeps ==
  ASSUME IInv, NEW t \in Rets, RetHarvest(t)
  PROVE  IInv'
<1> USE DEF IInv
<1>a. /\ t \in Threads /\ pc[t] = "harvest"
      /\ UNCHANGED <<crpQ, retLock, ring, done, busy, qCnt, res>> /\ OnRing' = OnRing
      /\ t \notin Callers \cup Procs
  BY ThreadKinds, ThreadsAssumption
     DEF RetHarvest, queueVars, doneVars, driverVars, clientVars, OnRing
<1>b. ~Holds(t)
  BY <1>a DEF Holds, HoldsPending, HoldsDone
<1>c. CASE retQ = <<>>
  <2>1. pc' = [pc EXCEPT ![t] = "wait"] /\ UNCHANGED <<crp, retQ>>
    BY <1>c DEF RetHarvest, Goto
  <2>2. TypeOK'
    BY <1>a, <2>1 DEF TypeOK, RetHarvest, queueVars, driverVars, clientVars, Labels
  <2> QED BY <1>a, <1>b, <2>1, <2>2, FreeGoto DEF Free
<1>d. CASE retQ # <<>>
  <2> DEFINE r == Head(retQ)
  <2>a. /\ pc' = [pc EXCEPT ![t] = "callback"] /\ crp' = [crp EXCEPT ![t] = r]
        /\ retQ' = Tail(retQ)
    BY <1>d DEF RetHarvest, Goto
  <2>b. /\ r \in Reqs /\ r \in Elems(retQ)
        /\ retQ' \in Seq(Reqs) /\ NoRepeats(retQ')
        /\ Elems(retQ') = Elems(retQ) \ {r}
    BY <1>d, <2>a, TailElems DEF TypeOK, OneOwner
  <2> HIDE DEF r
  <2>c. crp'[t] = r /\ \A u \in Threads \ {t} : crp'[u] = crp[u] /\ res'[u] = res[u]
    BY <1>a, <2>a DEF TypeOK
  <2>d. /\ pc'[t] = "callback" /\ OthersStay(t) /\ NotRestarted'
        /\ \A u \in Threads \ {t} : Holds(u)' <=> Holds(u)
    BY <1>a, <2>a, <2>c, GotoOthers
  <2>e. ~HoldsPending(t)' /\ HoldsDone(t)' /\ Holds(t)'
    BY <2>d DEF HoldsPending, HoldsDone, Holds
  <2>f. /\ r \notin Elems(crpQ) \cup OnRing
        /\ \A u \in Threads : Holds(u) => crp[u] # r
    BY <2>b DEF OneOwner
  <2>1. TypeOK'
    BY <1>a, <2>a, <2>b DEF TypeOK, RetHarvest, queueVars, driverVars, clientVars, Labels
  <2>2. DoneOnce'
    BY <1>a, <2>b, <2>c, <2>d, <2>e DEF DoneOnce, OthersStay
  <2>3. OneOwner'
    <3>1. \A u \in Threads : Holds(u)' =>
            /\ crp'[u] \notin Elems(crpQ') \cup Elems(retQ') \cup OnRing'
            /\ \A v \in Threads : Holds(v)' /\ crp'[v] = crp'[u] => v = u
      BY <1>a, <2>b, <2>c, <2>d, <2>e, <2>f DEF OneOwner, OthersStay
    <3> QED BY <1>a, <2>b, <3>1 DEF OneOwner
  <2>4. OutstandingCount'
    BY <1>a, SameCount
  <2>5. NeverLost'
    <3>1. SUFFICES ASSUME NEW x \in busy
                   PROVE  \/ x \in Elems(crpQ') \cup Elems(retQ') \cup OnRing'
                          \/ \E u \in Threads : Holds(u)' /\ crp'[u] = x
      BY <1>a DEF NeverLost
    <3>2. CASE x \in Elems(crpQ) \cup Elems(retQ) \cup OnRing
      BY <1>a, <2>b, <2>c, <2>e, <3>2
    <3>3. CASE \E u \in Threads : Holds(u) /\ crp[u] = x
      BY <1>b, <2>d, <3>3 DEF OthersStay
    <3> QED BY <3>2, <3>3 DEF NeverLost
  <2> QED BY <2>1, <2>2, <2>3, <2>d, <2>4, <2>5
<1> QED BY <1>c, <1>d

-----------------------------------------------------------------------------
(* The invariant of the specification. *)

LEMMA NextIInv == IInv /\ [Next]_vars => IInv'
<1> SUFFICES ASSUME IInv, [Next]_vars PROVE IInv'
  OBVIOUS
<1>1. ASSUME NEW c \in Callers, NEW r \in Reqs,
             DispatchDrop(c, r) \/ DispatchQueue(c, r) \/ DispatchInvoke(c, r)
      PROVE  IInv'
  BY <1>1, DispatchDropKeeps, DispatchQueueKeeps, DispatchInvokeKeeps
<1>2. ASSUME NEW t \in Callers \cup Procs, Process(t) PROVE IInv'
  BY <1>2, ProcessNowKeeps, ProcessAcceptKeeps, ProcessRestartKeeps DEF Process
<1>3. ASSUME NEW t \in Threads, Finish(t) PROVE IInv'
  BY <1>3, DoneMarkKeeps, DoneWakeKeeps, DoneInsertKeeps, CallbackKeeps DEF Finish
<1>4. ASSUME NEW c \in Callers, CallerStep(c) PROVE IInv'
  BY <1>2, <1>3, <1>4, DispatchEndKeeps, ThreadKinds DEF CallerStep
<1>5. ASSUME NEW p \in Procs, ProcStep(p) PROVE IInv'
  <2>1. CASE \E i \in DOMAIN crpQ : ProcSubmit(p, i)
    BY <2>1, ProcSubmitKeeps
  <2>2. CASE ProcIdle(p) \/ ProcWait(p) \/ ProcEnd(p)
    BY <2>2, ProcIdleKeeps, ProcWaitKeeps, ProcEndKeeps
  <2>3. CASE Process(p) \/ Finish(p)
    BY <1>2, <1>3, <2>3, ThreadKinds
  <2> QED BY <1>5, <2>1, <2>2, <2>3 DEF ProcStep
<1>6. ASSUME NEW t \in Rets, RetStep(t) PROVE IInv'
  BY <1>6, RetHarvestKeeps, RetWaitKeeps, CallbackKeeps, ThreadKinds DEF RetStep
<1>7. ASSUME NEW d \in Drivers, IsrStep(d) PROVE IInv'
  <2>1. CASE \E r \in ring[d] : IsrTake(d, r)
    BY <2>1, IsrTakeKeeps
  <2>2. CASE Finish(d) \/ IsrDrained(d) \/ Unblock(d)
    BY <1>3, <2>2, IsrDrainedKeeps, UnblockKeeps, ThreadKinds
  <2> QED BY <1>7, <2>1, <2>2 DEF IsrStep
<1>8. CASE UNCHANGED vars
  <2>1. UNCHANGED <<crpQ, allQBlocked, qBlocked, unqBlocked, qCnt, done, retQ,
                    retLock, ring, needWake, pc, crp, res, busy, ops>>
    BY <1>8 DEF vars, queueVars, doneVars, retVars, driverVars, threadVars, clientVars
  <2>2. \A t \in Threads : /\ HoldsPending(t)' <=> HoldsPending(t)
                           /\ HoldsDone(t)' <=> HoldsDone(t)
                           /\ Holds(t) => crp'[t] = crp[t]
    BY <2>1 DEF HoldsPending, HoldsDone
  <2>3. TypeOK' /\ NotRestarted'
    BY <2>1 DEF IInv, TypeOK, NotRestarted
  <2> QED BY <2>1, <2>2, <2>3, NobodyMoves
<1> QED BY <1>1, <1>4, <1>5, <1>6, <1>7, <1>8 DEF Next

(* Every queue, ring, hand and count agrees with every other in each state: *)
(* the invariant the others follow from, for any number of requests,        *)
(* drivers and threads.                                                     *)
THEOREM SpecIInv == Spec => []IInv
<1>1. Init => IInv
  BY InitIInv
<1>2. IInv /\ [Next]_vars => IInv'
  BY NextIInv
<1> QED BY <1>1, <1>2, PTL DEF Spec

(* The type invariant: in particular crypto_q_cnt never goes below zero. *)
THEOREM TypeCorrect == Spec => []TypeOK
<1>1. IInv => TypeOK
  BY DEF IInv
<1> QED BY <1>1, SpecIInv, PTL

(* A request is on one queue, on one ring or in one thread's hands, for any *)
(* number of requests, drivers and threads.                                *)
THEOREM RequestsHaveOneOwner == Spec => []OneOwner
<1>1. IInv => OneOwner
  BY DEF IInv
<1> QED BY <1>1, SpecIInv, PTL

(* No accepted request is dropped on its way to its callback. *)
THEOREM RequestsAreNeverLost == Spec => []NeverLost
<1>1. IInv => NeverLost
  BY DEF IInv
<1> QED BY <1>1, SpecIInv, PTL

(* crypto_q_cnt counts the outstanding requests, and crypto_q_max bounds it *)
(* although crypto_done lowers it without crypto_q_lock.                   *)
THEOREM CountIsExact == Spec => []OutstandingCount
<1>1. IInv => OutstandingCount
  BY DEF IInv
<1> QED BY <1>1, SpecIInv, PTL

(* CRYPTO_F_DONE is clear on everything that waits for a driver and set on  *)
(* everything that waits for its callback.                                 *)
THEOREM DoneIsMarkedOnce == Spec => []DoneOnce
<1>1. IInv => DoneOnce
  BY DEF IInv
<1> QED BY <1>1, SpecIInv, PTL

-----------------------------------------------------------------------------
(* The refinement of OcfService. *)

(* Only crypto_dispatch, crypto_done and a callback change what the client  *)
(* can see.                                                                *)
LEMMA InvisibleSteps ==
  ASSUME UNCHANGED <<busy, done>>
  PROVE  UNCHANGED ServiceStatus
BY DEF ServiceStatus

LEMMA ServiceOutstanding ==
  ASSUME TypeOK
  PROVE  Service!Outstanding = Pending
BY DEF Service!Outstanding, ServiceStatus, Pending, TypeOK

LEMMA AcceptSubmits ==
  ASSUME IInv, NEW c \in Callers, NEW r \in Reqs, Accept(c, r)
  PROVE  Service!Next
<1>1. r \notin busy /\ busy' = busy \cup {r} /\ done' = [done EXCEPT ![r] = FALSE]
  BY DEF Accept
<1>2. Cardinality(Service!Outstanding) < QMax
  <2>1. qCnt = Cardinality(Pending) /\ qCnt \in Nat
    BY DEF IInv, TypeOK, OutstandingCount, Pending
  <2>2. Service!Outstanding = Pending
    BY ServiceOutstanding DEF IInv
  <2>3. ~(qCnt >= QMax)
    BY DEF Accept, QueueFull
  <2> QED BY <2>1, <2>2, <2>3, BoundsAssumption
<1>3. Service!Move(r, "idle", "outstanding")
  BY <1>1 DEF Service!Move, ServiceStatus, IInv, TypeOK
<1>4. Service!Submit(r)
  <2>1. Service!Cardinality(Service!Outstanding) = Cardinality(Service!Outstanding)
    BY Zenon DEF Cardinality, Service!Cardinality
  <2> QED BY <1>2, <1>3, <2>1 DEF Service!Submit
<1> QED BY <1>4 DEF Service!Next

LEMMA DoneMarkCompletes ==
  ASSUME IInv, NEW t \in Threads, DoneMark(t)
  PROVE  Service!Next
<1> DEFINE r == crp[t]
<1>1. r \in Reqs /\ r \in busy /\ ~done[r]
  BY DEF IInv, TypeOK, DoneOnce, DoneMark, HoldsPending
<1>2. busy' = busy /\ done' = [done EXCEPT ![r] = TRUE]
  BY DEF DoneMark, clientVars
<1> HIDE DEF r
<1>3. Service!Move(r, "outstanding", "processed")
  BY <1>1, <1>2 DEF Service!Move, ServiceStatus, IInv, TypeOK
<1> QED BY <1>1, <1>3 DEF Service!Next, Service!Complete

LEMMA CallbackHandsBack ==
  ASSUME IInv, NEW t \in Threads, Callback(t)
  PROVE  Service!Next
<1> DEFINE r == crp[t]
<1>1. r \in Reqs /\ r \in busy /\ done[r]
  BY DEF IInv, TypeOK, DoneOnce, Callback, HoldsDone
<1>2. busy' = busy \ {r} /\ done' = done
  BY DEF Callback, doneVars
<1> HIDE DEF r
<1>3. Service!Move(r, "processed", "idle")
  BY <1>1, <1>2 DEF Service!Move, ServiceStatus, IInv, TypeOK
<1> QED BY <1>1, <1>3 DEF Service!Next, Service!HandBack

LEMMA FinishRefines ==
  ASSUME IInv, NEW t \in Threads, Finish(t)
  PROVE  Service!Next \/ UNCHANGED ServiceStatus
BY DoneMarkCompletes, CallbackHandsBack, InvisibleSteps
   DEF Finish, DoneWake, DoneInsert, doneVars, clientVars

LEMMA NextRefines ==
  IInv /\ [Next]_vars => [Service!Next]_ServiceStatus
<1> SUFFICES ASSUME IInv, [Next]_vars
             PROVE  Service!Next \/ UNCHANGED ServiceStatus
  OBVIOUS
<1>1. ASSUME NEW c \in Callers, NEW r \in Reqs,
             DispatchDrop(c, r) \/ DispatchQueue(c, r) \/ DispatchInvoke(c, r)
      PROVE  Service!Next \/ UNCHANGED ServiceStatus
  BY <1>1, AcceptSubmits, InvisibleSteps
     DEF DispatchDrop, DispatchQueue, DispatchInvoke, doneVars
<1>2. ASSUME NEW t \in Callers \cup Procs, Process(t)
      PROVE  UNCHANGED ServiceStatus
  BY <1>2, InvisibleSteps
     DEF Process, ProcessNow, ProcessAccept, ProcessRestart, doneVars, clientVars
<1>3. ASSUME NEW c \in Callers, CallerStep(c)
      PROVE  Service!Next \/ UNCHANGED ServiceStatus
  <2>1. CASE Process(c) \/ Finish(c)
    BY <1>2, <2>1, FinishRefines, ThreadKinds
  <2>2. CASE DispatchEnd(c)
    BY <2>2, InvisibleSteps DEF DispatchEnd, doneVars, clientVars
  <2> QED BY <1>3, <2>1, <2>2 DEF CallerStep
<1>4. ASSUME NEW p \in Procs, ProcStep(p)
      PROVE  Service!Next \/ UNCHANGED ServiceStatus
  <2>1. CASE Process(p) \/ Finish(p)
    BY <1>2, <2>1, FinishRefines, ThreadKinds
  <2>2. CASE (\E i \in DOMAIN crpQ : ProcSubmit(p, i)) \/ ProcIdle(p) \/ ProcWait(p)
    BY <2>2, InvisibleSteps DEF ProcSubmit, ProcIdle, ProcWait, doneVars, clientVars
  <2>3. CASE ProcEnd(p)
    BY <2>3, InvisibleSteps DEF ProcEnd, doneVars, clientVars
  <2> QED BY <1>4, <2>1, <2>2, <2>3 DEF ProcStep
<1>5. ASSUME NEW t \in Rets, RetStep(t)
      PROVE  Service!Next \/ UNCHANGED ServiceStatus
  BY <1>5, CallbackHandsBack, InvisibleSteps, ThreadKinds
     DEF RetStep, RetHarvest, RetWait, doneVars, clientVars
<1>6. ASSUME NEW d \in Drivers, IsrStep(d)
      PROVE  Service!Next \/ UNCHANGED ServiceStatus
  BY <1>6, FinishRefines, InvisibleSteps, ThreadKinds
     DEF IsrStep, IsrTake, IsrDrained, Unblock, doneVars, clientVars
<1>7. CASE UNCHANGED vars
  BY <1>7, InvisibleSteps DEF vars, doneVars, clientVars
<1> QED BY <1>1, <1>3, <1>4, <1>5, <1>6, <1>7 DEF Next

(* OcfSym implements OcfService: every accepted request is completed once   *)
(* and handed back once, with at most crypto_q_max outstanding.            *)
THEOREM SymImplementsService == Spec => ImplementsService
<1>1. Init => Service!Init
  BY DEF Init, Service!Init, ServiceStatus
<1>2. IInv /\ [Next]_vars => [Service!Next]_ServiceStatus
  BY NextRefines
<1> QED BY <1>1, <1>2, SpecIInv, PTL DEF Spec, ImplementsService, Service!Spec

-----------------------------------------------------------------------------
(* Wake-ups: nobody sleeps on work that is there.                           *)

(* Thread t goes to label l; the others stay, or are woken. *)
MovesTo(t, l) ==
  /\ pc'[t] = l
  /\ \A u \in Threads \ {t} : \/ pc'[u] = pc[u]
                              \/ pc[u] = "asleep" /\ pc'[u] = "wait"

LEMMA GotoMoves ==
  ASSUME TypeOK, NEW t \in Threads, NEW l, Goto(t, l)
  PROVE  MovesTo(t, l)
BY DEF TypeOK, Goto, MovesTo

LEMMA WakeMoves ==
  ASSUME TypeOK, NEW t \in Threads, NEW S, NEW l, pc[t] # "asleep",
         pc' = [WakeUp(S, pc) EXCEPT ![t] = l]
  PROVE  /\ MovesTo(t, l)
         /\ l # "asleep" /\ S \subseteq Threads => \A u \in S : pc'[u] # "asleep"
<1>1. /\ WakeUp(S, pc) \in [Threads -> Labels]
      /\ \A u \in Threads : \/ WakeUp(S, pc)[u] = pc[u]
                            \/ pc[u] = "asleep" /\ WakeUp(S, pc)[u] = "wait"
  BY WakeUpMoves
<1>2. MovesTo(t, l)
  BY <1>1 DEF MovesTo
<1>3. \A u \in Threads : u \in S => WakeUp(S, pc)[u] # "asleep"
  BY DEF WakeUp
<1>4. ASSUME l # "asleep", S \subseteq Threads, NEW u \in S PROVE pc'[u] # "asleep"
  BY <1>1, <1>3, <1>4
<1> QED BY <1>2, <1>4

(* What keeps crypto_ret_proc from sleeping on a callback, on one CPU: who  *)
(* is inside crypto_ret_q_lock has woken the threads, and they cannot run   *)
(* before it has inserted its request.                                     *)
LockIsHeld == \A t \in Threads : pc[t] = "insert" <=> retLock = t
AwakeWhileHeld == retLock # None => \A t \in Rets : pc[t] # "asleep"
ReturnInv == LockIsHeld /\ AwakeWhileHeld /\ NoStrandedReturn

(* A step outside crypto_ret_q_lock that leaves the queue of callbacks, or  *)
(* whose thread stays awake to look at it.                                 *)
LEMMA ReturnOther ==
  ASSUME ReturnInv, NEW t \in Threads, NEW l, MovesTo(t, l), retLock' = retLock,
         pc[t] # "insert", l # "insert",
         (t \in Rets /\ l # "asleep") \/ (t \notin Rets /\ retQ' = retQ)
  PROVE  ReturnInv'
<1>1. /\ pc'[t] = l
      /\ \A u \in Threads \ {t} : \/ pc'[u] = pc[u]
                                  \/ pc[u] = "asleep" /\ pc'[u] = "wait"
  BY DEF MovesTo
<1>2. LockIsHeld'
  BY <1>1 DEF ReturnInv, LockIsHeld
<1>3. \A u \in Rets : pc'[u] = "asleep" => pc[u] = "asleep"
  BY <1>1, ThreadKinds
<1>4. AwakeWhileHeld'
  BY <1>3 DEF ReturnInv, AwakeWhileHeld
<1>5. NoStrandedReturn'
  BY <1>1, <1>3 DEF ReturnInv, NoStrandedReturn
<1> QED BY <1>2, <1>4, <1>5 DEF ReturnInv

LEMMA ReturnWake ==
  ASSUME TypeOK, ReturnInv, NEW t \in Threads, DoneWake(t)
  PROVE  ReturnInv'
<1>1. /\ pc[t] = "wake" /\ retLock = None /\ retLock' = t
      /\ pc' = [WakeUp(Rets, pc) EXCEPT ![t] = "insert"]
  BY DEF DoneWake
<1>2. MovesTo(t, "insert") /\ \A u \in Rets : pc'[u] # "asleep"
  <2>1. pc[t] # "asleep" /\ "insert" # "asleep" /\ Rets \subseteq Threads
    BY <1>1, ThreadKinds
  <2> QED BY <1>1, <2>1, WakeMoves
<1>3. None \notin Threads
  BY ThreadsAssumption
<1>4. LockIsHeld'
  BY <1>1, <1>2, <1>3 DEF ReturnInv, LockIsHeld, MovesTo
<1> QED BY <1>1, <1>2, <1>3, <1>4 DEF ReturnInv, AwakeWhileHeld, NoStrandedReturn

LEMMA ReturnInsert ==
  ASSUME TypeOK, ReturnInv, Rets # {}, NEW t \in Threads, DoneInsert(t)
  PROVE  ReturnInv'
<1>1. pc[t] = "insert" /\ retLock = t /\ retLock' = None /\ None \notin Threads
  BY ThreadsAssumption DEF DoneInsert, ReturnInv, LockIsHeld
<1>2. MovesTo(t, Resume(t)) /\ Resume(t) \in {"drain", "harvest", "return"}
  BY GotoMoves, ResumeIdle DEF DoneInsert
<1>3. LockIsHeld'
  BY <1>1, <1>2 DEF ReturnInv, LockIsHeld, MovesTo
<1>4. \A u \in Rets : pc'[u] # "asleep"
  BY <1>1, <1>2, ThreadKinds DEF ReturnInv, AwakeWhileHeld, MovesTo
<1> QED BY <1>1, <1>3, <1>4 DEF ReturnInv, AwakeWhileHeld, NoStrandedReturn

(* The test of the condition, which on one CPU runs with the lock free. *)
LEMMA ReturnTest ==
  ASSUME TypeOK, ReturnInv, Smp = FALSE, NEW t \in Rets, RetWait(t)
  PROVE  ReturnInv'
<1> DEFINE l == IF retQ # <<>> THEN "harvest" ELSE "asleep"
<1>1. /\ pc[t] = "wait" /\ retLock = None /\ retLock' = retLock /\ retQ' = retQ
      /\ Goto(t, l) /\ t \in Threads /\ l # "insert"
  BY ThreadKinds DEF RetWait, retVars
<1>2. MovesTo(t, l)
  BY <1>1, GotoMoves
<1>3. CASE retQ # <<>>
  BY <1>1, <1>2, <1>3, ReturnOther
<1>4. CASE retQ = <<>>
  <2>1. LockIsHeld'
    BY <1>1, <1>2 DEF ReturnInv, LockIsHeld, MovesTo
  <2> QED BY <1>1, <1>4, <2>1 DEF ReturnInv, AwakeWhileHeld, NoStrandedReturn
<1> QED BY <1>3, <1>4

LEMMA NextReturn ==
  ASSUME TypeOK, ReturnInv, Smp = FALSE, Rets # {}, [Next]_vars
  PROVE  ReturnInv'
<1>1. ASSUME NEW c \in Callers, NEW r \in Reqs,
             DispatchDrop(c, r) \/ DispatchQueue(c, r) \/ DispatchInvoke(c, r)
      PROVE  ReturnInv'
  <2>a. c \in Threads /\ c \notin Rets /\ pc[c] = "ready"
    BY <1>1, ThreadKinds DEF DispatchDrop, DispatchQueue, DispatchInvoke, Accept
  <2>b. retQ' = retQ /\ retLock' = retLock
    BY <1>1 DEF DispatchDrop, DispatchQueue, DispatchInvoke, retVars
  <2>1. CASE DispatchDrop(c, r)
    BY <2>1, <2>a, <2>b, ReturnOther DEF DispatchDrop, threadVars, MovesTo
  <2>2. CASE DispatchQueue(c, r)
    <3>1. MovesTo(c, "ready")
      BY <2>2, <2>a, WakeUpMoves DEF DispatchQueue, MovesTo
    <3> QED BY <2>a, <2>b, <3>1, ReturnOther
  <2>3. CASE DispatchInvoke(c, r)
    <3>1. MovesTo(c, "invoke")
      BY <2>3, <2>a, GotoMoves DEF DispatchInvoke
    <3> QED BY <2>a, <2>b, <3>1, ReturnOther
  <2> QED BY <1>1, <2>1, <2>2, <2>3
<1>2. ASSUME NEW t \in Callers \cup Procs, Process(t) PROVE ReturnInv'
  <2>1. /\ t \in Threads /\ t \notin Rets /\ pc[t] = "invoke"
        /\ retQ' = retQ /\ retLock' = retLock
    BY <1>2, ThreadKinds, ThreadsAssumption
       DEF Process, ProcessNow, ProcessAccept, ProcessRestart, retVars
  <2>2. MovesTo(t, "done") \/ MovesTo(t, "return")
    BY <1>2, <2>1, GotoMoves DEF Process, ProcessNow, ProcessAccept, ProcessRestart
  <2> QED BY <2>1, <2>2, ReturnOther
<1>3. ASSUME NEW t \in Threads \ Rets, Finish(t) PROVE ReturnInv'
  <2>1. CASE DoneMark(t)
    <3>1. pc[t] = "done" /\ retQ' = retQ /\ retLock' = retLock
      BY <2>1 DEF DoneMark, retVars
    <3>2. MovesTo(t, "callback") \/ MovesTo(t, "wake")
      BY <2>1, GotoMoves DEF DoneMark
    <3> QED BY <3>1, <3>2, ReturnOther
  <2>2. CASE DoneWake(t)
    BY <2>2, ReturnWake
  <2>3. CASE DoneInsert(t)
    BY <2>3, ReturnInsert
  <2>4. CASE Callback(t)
    <3>1. pc[t] = "callback" /\ retQ' = retQ /\ retLock' = retLock
      BY <2>4 DEF Callback, retVars
    <3>2. MovesTo(t, Resume(t)) /\ Resume(t) \in {"drain", "harvest", "return"}
      BY <2>4, GotoMoves, ResumeIdle DEF Callback
    <3> QED BY <3>1, <3>2, ReturnOther
  <2> QED BY <1>3, <2>1, <2>2, <2>3, <2>4 DEF Finish
<1>4. ASSUME NEW c \in Callers, CallerStep(c) PROVE ReturnInv'
  <2>1. CASE DispatchEnd(c)
    <3>1. /\ c \in Threads /\ c \notin Rets /\ pc[c] = "return"
          /\ retQ' = retQ /\ retLock' = retLock
      BY <2>1, ThreadKinds DEF DispatchEnd, retVars
    <3>2. MovesTo(c, "ready")
      BY <2>1, <3>1, WakeMoves DEF DispatchEnd
    <3> QED BY <3>1, <3>2, ReturnOther
  <2> QED BY <1>2, <1>3, <1>4, <2>1, ThreadKinds DEF CallerStep
<1>5. ASSUME NEW p \in Procs, ProcStep(p) PROVE ReturnInv'
  <2>a. p \in Threads /\ p \notin Rets
    BY ThreadKinds, ThreadsAssumption
  <2>1. CASE Process(p) \/ Finish(p)
    BY <1>2, <1>3, <2>1, <2>a
  <2>2. CASE \E i \in DOMAIN crpQ : ProcSubmit(p, i)
    <3>1. /\ pc[p] = "scan" /\ retQ' = retQ /\ retLock' = retLock
          /\ Goto(p, "invoke")
      BY <2>2 DEF ProcSubmit, retVars
    <3> QED BY <2>a, <3>1, GotoMoves, ReturnOther
  <2>3. CASE ProcIdle(p) \/ ProcWait(p) \/ ProcEnd(p)
    <3>1. /\ pc[p] \in {"scan", "wait", "return"} /\ retQ' = retQ /\ retLock' = retLock
          /\ Goto(p, "wait") \/ Goto(p, "scan") \/ Goto(p, "asleep")
      BY <2>3 DEF ProcIdle, ProcWait, ProcEnd, retVars
    <3>2. MovesTo(p, "wait") \/ MovesTo(p, "scan") \/ MovesTo(p, "asleep")
      BY <2>a, <3>1, GotoMoves
    <3> QED BY <2>a, <3>1, <3>2, ReturnOther
  <2> QED BY <1>5, <2>1, <2>2, <2>3 DEF ProcStep
<1>6. ASSUME NEW t \in Rets, RetStep(t) PROVE ReturnInv'
  <2>a. t \in Threads
    BY ThreadKinds
  <2>1. CASE RetHarvest(t)
    <3>1. pc[t] = "harvest" /\ retLock' = retLock
      BY <2>1 DEF RetHarvest
    <3>2. MovesTo(t, "callback") \/ MovesTo(t, "wait")
      BY <2>1, <2>a, GotoMoves DEF RetHarvest
    <3> QED BY <2>a, <3>1, <3>2, ReturnOther
  <2>2. CASE RetWait(t)
    BY <2>2, ReturnTest
  <2>3. CASE Callback(t)
    <3>1. pc[t] = "callback" /\ retLock' = retLock
      BY <2>3 DEF Callback, retVars
    <3>2. MovesTo(t, Resume(t)) /\ Resume(t) \in {"drain", "harvest", "return"}
      BY <2>3, <2>a, GotoMoves, ResumeIdle DEF Callback
    <3> QED BY <2>a, <3>1, <3>2, ReturnOther
  <2> QED BY <1>6, <2>1, <2>2, <2>3 DEF RetStep
<1>7. ASSUME NEW d \in Drivers, IsrStep(d) PROVE ReturnInv'
  <2>a. d \in Threads /\ d \notin Rets
    BY ThreadKinds, ThreadsAssumption
  <2>1. CASE \E r \in ring[d] : IsrTake(d, r)
    <3>1. /\ pc[d] \in {"idle", "drain"} /\ retQ' = retQ /\ retLock' = retLock
          /\ Goto(d, "done")
      BY <2>1 DEF IsrTake, retVars
    <3> QED BY <2>a, <3>1, GotoMoves, ReturnOther
  <2>2. CASE IsrDrained(d)
    <3>1. pc[d] = "drain" /\ retQ' = retQ /\ retLock' = retLock
      BY <2>2 DEF IsrDrained, retVars
    <3>2. MovesTo(d, "unblock") \/ MovesTo(d, "idle")
      BY <2>2, <2>a, GotoMoves DEF IsrDrained
    <3> QED BY <2>a, <3>1, <3>2, ReturnOther
  <2>3. CASE Unblock(d)
    <3>1. pc[d] = "unblock" /\ retQ' = retQ /\ retLock' = retLock
      BY <2>3 DEF Unblock, retVars
    <3>2. MovesTo(d, "idle")
      BY <2>3, <2>a, <3>1, WakeMoves DEF Unblock
    <3> QED BY <2>a, <3>1, <3>2, ReturnOther
  <2> QED BY <1>3, <1>7, <2>a, <2>1, <2>2, <2>3 DEF IsrStep
<1>8. CASE UNCHANGED vars
  BY <1>8 DEF vars, retVars, threadVars, ReturnInv, LockIsHeld, AwakeWhileHeld,
              NoStrandedReturn
<1> QED BY <1>1, <1>4, <1>5, <1>6, <1>7, <1>8 DEF Next

LEMMA InitReturn == Rets # {} /\ Init => ReturnInv
<1> SUFFICES ASSUME Rets # {}, Init PROVE ReturnInv
  OBVIOUS
<1>1. /\ \A t \in Threads : pc[t] \in {"ready", "scan", "harvest", "idle"}
      /\ retLock = None /\ retQ = <<>> /\ None \notin Threads
  BY StartLabels, ThreadsAssumption DEF Init
<1> QED BY <1>1 DEF ReturnInv, LockIsHeld, AwakeWhileHeld, NoStrandedReturn

(* On one CPU no wake-up of crypto_ret_proc is lost: while every one of     *)
(* these threads sleeps there is no callback to make, for any number of     *)
(* requests, drivers and threads.  crypto_done relies on it when it wakes   *)
(* them before it inserts the request.                                     *)
THEOREM CallbacksAwaken ==
  ASSUME Smp = FALSE, Rets # {}
  PROVE  Spec => []NoStrandedReturn
<1>1. Init => ReturnInv
  BY InitReturn
<1>2. IInv /\ ReturnInv /\ [Next]_vars => ReturnInv'
  BY NextReturn DEF IInv
<1>3. ReturnInv => NoStrandedReturn
  BY DEF ReturnInv
<1> QED BY <1>1, <1>2, <1>3, SpecIInv, PTL DEF Spec

-----------------------------------------------------------------------------
(* What keeps crypto_proc from sleeping on a request when only driver d can *)
(* refuse one: a thread that sleeps, or is about to, has seen the queue     *)
(* empty or d blocked, and whoever changes that wakes it.                   *)
Awake(p) == pc[p] \notin {"wait", "asleep"}
OneEngine(d) ==
  \A r \in Reqs : DriverOf[r] = d \/ (DriverOf[r] \in SyncDrivers /\ r \notin Batch)

QueuedForOne(d) == /\ \A r \in Elems(crpQ) : DriverOf[r] = d
                   /\ qBlocked \subseteq {d}
RefusedByOne(d) ==
  \A t \in Callers \cup Procs :
     pc[t] = "return" /\ res[t] = "restart" => DriverOf[crp[t]] = d
StalledWithWork == allQBlocked => crpQ # <<>>
StalledWatched(d) ==
  allQBlocked /\ d \notin qBlocked => \E p \in Procs : Awake(p)
WorkWatched(d) ==
  crpQ # <<>> /\ d \notin qBlocked => \E p \in Procs : pc[p] # "asleep"
WorkInv(d) == /\ QueuedForOne(d) /\ RefusedByOne(d) /\ StalledWithWork
              /\ StalledWatched(d) /\ WorkWatched(d)

LEMMA WorkInvEnough ==
  ASSUME NEW d, WorkInv(d), Procs # {}
  PROVE  NoStrandedWork
BY DEF WorkInv, QueuedForOne, WorkWatched, NoStrandedWork, Elems

(* A step of t leaves what its neighbours were told; t itself is told d. *)
LEMMA RefusedOther ==
  ASSUME NEW d, RefusedByOne(d), NEW t \in Threads, NEW l, MovesTo(t, l),
         \A u \in Threads \ {t} : crp'[u] = crp[u] /\ res'[u] = res[u],
         t \in Callers \cup Procs /\ l = "return" /\ res'[t] = "restart"
            => DriverOf[crp'[t]] = d
  PROVE  RefusedByOne(d)'
<1>1. ASSUME NEW u \in Callers \cup Procs, pc'[u] = "return", res'[u] = "restart",
             u # t
      PROVE  DriverOf[crp'[u]] = d
  <2>1. u \in Threads \ {t}
    BY <1>1, ThreadKinds
  <2>2. pc[u] = "return" /\ crp'[u] = crp[u] /\ res[u] = "restart"
    BY <1>1, <2>1 DEF MovesTo
  <2> QED BY <2>2 DEF RefusedByOne
<1> QED BY <1>1 DEF RefusedByOne, MovesTo

(* A step that changes no flag and leaves the queue, or gives it a request  *)
(* that waits for d, and whose thread, if it is a crypto_proc, is not at    *)
(* its wait: the threads that watched still watch.                         *)
LEMMA WorkOther ==
  ASSUME NEW d, WorkInv(d), NEW t \in Threads, NEW l, MovesTo(t, l),
         t \in Procs => l \notin {"wait", "asleep"},
         RefusedByOne(d)', QueuedForOne(d)',
         qBlocked \subseteq qBlocked' \/ t \in Procs,
         allQBlocked' = FALSE \/ (allQBlocked' = allQBlocked /\ StalledWithWork'),
         crpQ' = crpQ \/ t \in Procs
  PROVE  WorkInv(d)'
<1>1. /\ pc'[t] = l
      /\ \A u \in Threads \ {t} : \/ pc'[u] = pc[u]
                                  \/ pc[u] = "asleep" /\ pc'[u] = "wait"
  BY DEF MovesTo
<1>2. \A p \in Procs : /\ Awake(p) => Awake(p)'
                       /\ pc[p] # "asleep" => pc'[p] # "asleep"
  BY <1>1, ThreadKinds DEF Awake
<1>3. t \in Procs => Awake(t)'
  BY <1>1 DEF Awake
<1>4. StalledWithWork'
  BY DEF StalledWithWork
<1>5. StalledWatched(d)'
  BY <1>2, <1>3 DEF WorkInv, StalledWatched
<1>6. WorkWatched(d)'
  BY <1>2, <1>3 DEF WorkInv, WorkWatched, Awake
<1> QED BY <1>4, <1>5, <1>6 DEF WorkInv

(* A step that wakes every crypto_proc. *)
LEMMA WorkAwakens ==
  ASSUME NEW d, WorkInv(d), Procs # {}, NEW t \in Threads \ Procs, NEW l,
         MovesTo(t, l), \A p \in Procs : pc'[p] # "asleep",
         RefusedByOne(d)', QueuedForOne(d)',
         \/ allQBlocked' = FALSE
         \/ /\ allQBlocked' = allQBlocked /\ qBlocked \subseteq qBlocked'
            /\ StalledWithWork'
  PROVE  WorkInv(d)'
<1>1. \A p \in Procs : Awake(p) => Awake(p)'
  BY ThreadKinds DEF MovesTo, Awake
<1>2. StalledWithWork'
  BY DEF StalledWithWork
<1>3. StalledWatched(d)'
  BY <1>1 DEF WorkInv, StalledWatched
<1> QED BY <1>2, <1>3 DEF WorkInv, WorkWatched

LEMMA WorkInit ==
  ASSUME NEW d, Init
  PROVE  WorkInv(d)
<1>1. /\ crpQ = <<>> /\ qBlocked = {} /\ allQBlocked = FALSE
      /\ \A t \in Threads : pc[t] # "return"
  BY StartLabels DEF Init
<1>2. Elems(crpQ) = {}
  BY <1>1 DEF Elems
<1> QED BY <1>1, <1>2, ThreadKinds
        DEF WorkInv, QueuedForOne, RefusedByOne, StalledWithWork, StalledWatched,
            WorkWatched

LEMMA DispatchQueueWork ==
  ASSUME NEW d, IInv, WorkInv(d), OneEngine(d), Procs # {},
         NEW c \in Callers, NEW r \in Reqs, DispatchQueue(c, r)
  PROVE  WorkInv(d)'
<1>1. /\ c \in Threads \ Procs /\ pc[c] = "ready" /\ Procs \subseteq Threads
      /\ pc' = WakeUp(Procs, pc) /\ crpQ' = Append(crpQ, r)
      /\ UNCHANGED <<allQBlocked, qBlocked, crp, res>>
      /\ r \in Batch \/ DriverOf[r] \in qBlocked
      /\ TypeOK
  BY ThreadKinds, ThreadsAssumption DEF DispatchQueue, Accept, IInv
<1>2. MovesTo(c, "ready") /\ \A p \in Procs : pc'[p] # "asleep"
  BY <1>1, WakeUpMoves DEF MovesTo, WakeUp
<1>3. DriverOf[r] = d
  BY <1>1 DEF OneEngine, WorkInv, QueuedForOne
<1>4. QueuedForOne(d)'
  <2>1. Elems(crpQ') = Elems(crpQ) \cup {r}
    BY <1>1, AppendElems DEF TypeOK
  <2> QED BY <1>1, <1>3, <2>1 DEF WorkInv, QueuedForOne
<1>5. RefusedByOne(d)'
  BY <1>1, <1>2, RefusedOther DEF WorkInv
<1>6. StalledWithWork'
  BY <1>1 DEF StalledWithWork, TypeOK
<1> QED BY <1>1, <1>2, <1>4, <1>5, <1>6, WorkAwakens

LEMMA DispatchInvokeWork ==
  ASSUME NEW d, IInv, WorkInv(d), NEW c \in Callers, NEW r \in Reqs,
         DispatchInvoke(c, r)
  PROVE  WorkInv(d)'
<1>1. /\ c \in Threads \ Procs /\ Goto(c, "invoke") /\ allQBlocked' = FALSE
      /\ UNCHANGED <<crpQ, qBlocked, res>> /\ crp' = [crp EXCEPT ![c] = r] /\ TypeOK
  BY ThreadKinds, ThreadsAssumption DEF DispatchInvoke, IInv
<1>2. MovesTo(c, "invoke")
  BY <1>1, GotoMoves
<1>3. RefusedByOne(d)'
  BY <1>1, <1>2, RefusedOther DEF WorkInv, TypeOK
<1>4. QueuedForOne(d)'
  BY <1>1 DEF WorkInv, QueuedForOne
<1> QED BY <1>1, <1>2, <1>3, <1>4, WorkOther

LEMMA DispatchEndWork ==
  ASSUME NEW d, IInv, WorkInv(d), Procs # {}, NEW c \in Callers, DispatchEnd(c)
  PROVE  WorkInv(d)'
<1>1. /\ c \in Threads \ Procs /\ pc[c] = "return" /\ Procs \subseteq Threads
      /\ pc' = [WakeUp(Procs, pc) EXCEPT ![c] = "ready"]
      /\ UNCHANGED <<allQBlocked, crp, res>> /\ TypeOK /\ crp[c] \in Reqs
  BY ThreadKinds, ThreadsAssumption DEF DispatchEnd, IInv, TypeOK
<1>2. MovesTo(c, "ready") /\ \A p \in Procs : pc'[p] # "asleep"
  <2>1. pc[c] # "asleep" /\ "ready" # "asleep"
    BY <1>1
  <2> QED BY <1>1, <2>1, WakeMoves
<1>3. RefusedByOne(d)'
  BY <1>1, <1>2, RefusedOther DEF WorkInv
<1>4. QueuedForOne(d)' /\ StalledWithWork' /\ qBlocked \subseteq qBlocked'
  <2>1. CASE res[c] = "restart"
    <3>1. DriverOf[crp[c]] = d
      BY <1>1, <2>1 DEF WorkInv, RefusedByOne
    <3>2. crpQ' = Requeue(crp[c]) /\ qBlocked' = qBlocked \cup (unqBlocked \cap {d})
      BY <2>1, <3>1 DEF DispatchEnd
    <3>3. Elems(crpQ') = Elems(crpQ) \cup {crp[c]} /\ crpQ' # <<>>
      BY <1>1, <3>2, ConsElems DEF Requeue, TypeOK
    <3> QED BY <3>1, <3>2, <3>3 DEF WorkInv, QueuedForOne, StalledWithWork
  <2>2. CASE res[c] # "restart"
    BY <1>1, <2>2 DEF DispatchEnd, WorkInv, QueuedForOne, StalledWithWork
  <2> QED BY <2>1, <2>2
<1> QED BY <1>1, <1>2, <1>3, <1>4, WorkAwakens

LEMMA ProcSubmitWork ==
  ASSUME NEW d, IInv, WorkInv(d), NEW p \in Procs, NEW i \in DOMAIN crpQ,
         ProcSubmit(p, i)
  PROVE  WorkInv(d)'
<1>1. /\ p \in Threads /\ Goto(p, "invoke") /\ allQBlocked' = FALSE
      /\ UNCHANGED <<qBlocked, res>> /\ crpQ' = Without(crpQ, i)
      /\ crp' = [crp EXCEPT ![p] = crpQ[i]] /\ TypeOK /\ NoRepeats(crpQ)
  BY ThreadKinds DEF ProcSubmit, IInv, OneOwner
<1>2. MovesTo(p, "invoke")
  BY <1>1, GotoMoves
<1>3. RefusedByOne(d)'
  BY <1>1, <1>2, RefusedOther DEF WorkInv, TypeOK
<1>4. QueuedForOne(d)'
  <2>1. crpQ \in Seq(Reqs) /\ i \in 1 .. Len(crpQ)
    BY <1>1 DEF TypeOK
  <2>2. Elems(crpQ') = Elems(crpQ) \ {crpQ[i]}
    BY <1>1, <2>1, WithoutElems DEF Without
  <2> QED BY <1>1, <2>2 DEF WorkInv, QueuedForOne
<1> QED BY <1>1, <1>2, <1>3, <1>4, WorkOther

LEMMA ProcEndWork ==
  ASSUME NEW d, IInv, WorkInv(d), NEW p \in Procs, ProcEnd(p)
  PROVE  WorkInv(d)'
<1>1. /\ p \in Threads /\ pc[p] = "return" /\ Goto(p, "scan")
      /\ UNCHANGED <<allQBlocked, crp, res>> /\ TypeOK /\ crp[p] \in Reqs
  BY ThreadKinds DEF ProcEnd, IInv, TypeOK
<1>2. MovesTo(p, "scan")
  BY <1>1, GotoMoves
<1>3. RefusedByOne(d)'
  BY <1>1, <1>2, RefusedOther DEF WorkInv
<1>4. QueuedForOne(d)' /\ StalledWithWork'
  <2>1. CASE res[p] = "restart"
    <3>1. DriverOf[crp[p]] = d
      BY <1>1, <2>1 DEF WorkInv, RefusedByOne
    <3>2. crpQ' = Requeue(crp[p]) /\ qBlocked' \subseteq qBlocked
      BY <2>1 DEF ProcEnd, BlockedAfterRestart
    <3>3. Elems(crpQ') = Elems(crpQ) \cup {crp[p]} /\ crpQ' # <<>>
      BY <1>1, <3>2, ConsElems DEF Requeue, TypeOK
    <3> QED BY <3>1, <3>2, <3>3 DEF WorkInv, QueuedForOne, StalledWithWork
  <2>2. CASE res[p] # "restart"
    BY <1>1, <2>2 DEF ProcEnd, WorkInv, QueuedForOne, StalledWithWork
  <2> QED BY <2>1, <2>2
<1> QED BY <1>1, <1>2, <1>3, <1>4, WorkOther

(* crypto_proc finds nothing it could submit, and stops. *)
LEMMA ProcIdleWork ==
  ASSUME NEW d, IInv, WorkInv(d), NEW p \in Procs, ProcIdle(p)
  PROVE  WorkInv(d)'
<1>1. /\ p \in Threads /\ pc[p] = "scan" /\ Goto(p, "wait") /\ TypeOK
      /\ UNCHANGED <<crpQ, qBlocked, crp, res>> /\ allQBlocked' = (crpQ # <<>>)
      /\ \A i \in DOMAIN crpQ : ~Ready(i)
  BY ThreadKinds DEF ProcIdle, IInv
<1>2. MovesTo(p, "wait")
  BY <1>1, GotoMoves
<1>3. RefusedByOne(d)'
  BY <1>1, <1>2, RefusedOther DEF WorkInv
<1>4. crpQ # <<>> => d \in qBlocked
  <2>1. ASSUME crpQ # <<>> PROVE 1 \in DOMAIN crpQ /\ crpQ[1] \in Elems(crpQ)
    BY <1>1, <2>1 DEF TypeOK, Elems
  <2> QED BY <1>1, <2>1 DEF Ready, WorkInv, QueuedForOne
<1>5. crpQ' = crpQ /\ qBlocked' = qBlocked /\ (allQBlocked' => crpQ # <<>>)
  BY <1>1
<1>6. QueuedForOne(d)'
  BY <1>5 DEF WorkInv, QueuedForOne
<1> QED BY <1>3, <1>4, <1>5, <1>6
        DEF WorkInv, StalledWithWork, StalledWatched, WorkWatched

(* crypto_proc tests its condition: it sleeps on an empty queue, or while   *)
(* crypto_all_qblocked is set, which is another thread's doing or true.     *)
LEMMA ProcWaitWork ==
  ASSUME NEW d, IInv, WorkInv(d), NEW p \in Procs, ProcWait(p)
  PROVE  WorkInv(d)'
<1> DEFINE l == IF MayProceed THEN "scan" ELSE "asleep"
<1>1. /\ p \in Threads /\ pc[p] = "wait" /\ Goto(p, l) /\ TypeOK
      /\ UNCHANGED <<crpQ, allQBlocked, qBlocked, crp, res>>
  BY ThreadKinds DEF ProcWait, IInv, queueVars
<1>2. MovesTo(p, l) /\ l # "return"
  BY <1>1, GotoMoves
<1>3. RefusedByOne(d)'
  BY <1>1, <1>2, RefusedOther DEF WorkInv
<1>4. QueuedForOne(d)'
  BY <1>1 DEF WorkInv, QueuedForOne
<1>5. CASE MayProceed
  <2>1. l = "scan"
    BY <1>5
  <2> QED BY <1>1, <1>2, <1>3, <1>4, <2>1, WorkOther DEF WorkInv, StalledWithWork
<1>6. CASE ~MayProceed
  <2>1. \A q \in Procs : Awake(q) => Awake(q)' /\ pc'[q] # "asleep"
    BY <1>1, <1>2, ThreadKinds DEF MovesTo, Awake
  <2>2. crpQ = <<>> \/ allQBlocked
    BY <1>6 DEF MayProceed
  <2>3. crpQ' = crpQ /\ allQBlocked' = allQBlocked /\ qBlocked' = qBlocked
    BY <1>1
  <2>4. StalledWithWork' /\ StalledWatched(d)'
    BY <2>1, <2>3 DEF WorkInv, StalledWithWork, StalledWatched
  <2>5. WorkWatched(d)'
    BY <2>1, <2>2, <2>3 DEF WorkInv, StalledWatched, WorkWatched
  <2> QED BY <1>3, <1>4, <2>4, <2>5 DEF WorkInv
<1> QED BY <1>5, <1>6

LEMMA UnblockWork ==
  ASSUME NEW d, IInv, WorkInv(d), Procs # {}, NEW e \in Drivers, Unblock(e)
  PROVE  WorkInv(d)'
<1>1. /\ e \in Threads \ Procs /\ pc[e] = "unblock" /\ Procs \subseteq Threads
      /\ pc' = [WakeUp(Procs, pc) EXCEPT ![e] = "idle"] /\ TypeOK
      /\ allQBlocked' = FALSE /\ UNCHANGED <<crpQ, crp, res>>
      /\ qBlocked' \subseteq qBlocked
  BY ThreadKinds, ThreadsAssumption DEF Unblock, IInv
<1>2. MovesTo(e, "idle") /\ \A p \in Procs : pc'[p] # "asleep"
  <2>1. pc[e] # "asleep" /\ "idle" # "asleep"
    BY <1>1
  <2> QED BY <1>1, <2>1, WakeMoves
<1>3. RefusedByOne(d)'
  BY <1>1, <1>2, RefusedOther DEF WorkInv
<1>4. QueuedForOne(d)'
  BY <1>1 DEF WorkInv, QueuedForOne
<1> QED BY <1>1, <1>2, <1>3, <1>4, WorkAwakens

(* A step that leaves crp_q and its flags alone. *)
LEMMA WorkElsewhere ==
  ASSUME NEW d, WorkInv(d), NEW t \in Threads, NEW l, MovesTo(t, l),
         t \in Procs => l \notin {"wait", "asleep"},
         UNCHANGED <<crpQ, allQBlocked, qBlocked>>,
         \A u \in Threads \ {t} : crp'[u] = crp[u] /\ res'[u] = res[u],
         t \in Callers \cup Procs /\ l = "return" /\ res'[t] = "restart"
            => DriverOf[crp'[t]] = d
  PROVE  WorkInv(d)'
<1>1. RefusedByOne(d)'
  BY RefusedOther DEF WorkInv
<1>2. QueuedForOne(d)' /\ StalledWithWork'
  BY DEF WorkInv, QueuedForOne, StalledWithWork
<1> QED BY <1>1, <1>2, WorkOther

LEMMA ProcessWork ==
  ASSUME NEW d, IInv, WorkInv(d), OneEngine(d), NEW t \in Callers \cup Procs,
         Process(t)
  PROVE  WorkInv(d)'
<1>1. /\ t \in Threads /\ pc[t] = "invoke" /\ TypeOK /\ crp[t] \in Reqs
      /\ UNCHANGED <<crpQ, allQBlocked, qBlocked, crp>>
      /\ \A u \in Threads \ {t} : res'[u] = res[u]
  BY ThreadKinds DEF Process, ProcessNow, ProcessAccept, ProcessRestart, IInv, TypeOK,
                     queueVars
<1>2. CASE ProcessNow(t)
  <2>1. MovesTo(t, "done")
    BY <1>1, <1>2, GotoMoves DEF ProcessNow
  <2> QED BY <1>1, <2>1, WorkElsewhere
<1>3. CASE ProcessAccept(t)
  <2>1. MovesTo(t, "return") /\ res'[t] = "ok"
    BY <1>1, <1>3, GotoMoves DEF ProcessAccept, TypeOK
  <2> QED BY <1>1, <2>1, WorkElsewhere
<1>4. CASE ProcessRestart(t)
  <2>1. MovesTo(t, "return") /\ DriverOf[crp[t]] \notin SyncDrivers
    BY <1>1, <1>4, GotoMoves DEF ProcessRestart
  <2>2. DriverOf[crp'[t]] = d
    BY <1>1, <2>1 DEF OneEngine
  <2> QED BY <1>1, <2>1, <2>2, WorkElsewhere
<1> QED BY <1>2, <1>3, <1>4 DEF Process

LEMMA FinishWork ==
  ASSUME NEW d, IInv, WorkInv(d), NEW t \in Threads, Finish(t)
  PROVE  WorkInv(d)'
<1>1. /\ TypeOK /\ pc[t] \in {"done", "wake", "insert", "callback"}
      /\ UNCHANGED <<crpQ, allQBlocked, qBlocked, crp, res>>
  BY DEF Finish, DoneMark, DoneWake, DoneInsert, Callback, IInv, queueVars
<1>2. t \in Callers \cup Procs => res'[t] # "restart"
  BY <1>1 DEF IInv, NotRestarted
<1>3. CASE DoneMark(t)
  <2>1. MovesTo(t, "callback") \/ MovesTo(t, "wake")
    BY <1>1, <1>3, GotoMoves DEF DoneMark
  <2> QED BY <1>1, <2>1, WorkElsewhere
<1>4. CASE DoneWake(t)
  <2>1. pc[t] # "asleep" /\ pc' = [WakeUp(Rets, pc) EXCEPT ![t] = "insert"]
    BY <1>4 DEF DoneWake
  <2>2. MovesTo(t, "insert")
    BY <1>1, <2>1, WakeMoves
  <2> QED BY <1>1, <2>2, WorkElsewhere
<1>5. CASE DoneInsert(t) \/ Callback(t)
  <2>1. MovesTo(t, Resume(t)) /\ Resume(t) \notin {"wait", "asleep"}
    BY <1>1, <1>5, GotoMoves, ResumeIdle DEF DoneInsert, Callback
  <2> QED BY <1>1, <1>2, <2>1, WorkElsewhere
<1> QED BY <1>3, <1>4, <1>5 DEF Finish

LEMMA RetStepWork ==
  ASSUME NEW d, IInv, WorkInv(d), NEW t \in Rets, RetStep(t)
  PROVE  WorkInv(d)'
<1>1. /\ t \in Threads /\ t \notin Callers \cup Procs /\ TypeOK
  BY ThreadKinds, ThreadsAssumption DEF IInv
<1>2. CASE RetHarvest(t)
  <2>1. /\ UNCHANGED <<crpQ, allQBlocked, qBlocked, res>>
        /\ \A u \in Threads \ {t} : crp'[u] = crp[u]
    BY <1>1, <1>2 DEF RetHarvest, queueVars, TypeOK
  <2>2. MovesTo(t, "callback") \/ MovesTo(t, "wait")
    BY <1>1, <1>2, GotoMoves DEF RetHarvest
  <2> QED BY <1>1, <2>1, <2>2, WorkElsewhere
<1>3. CASE RetWait(t)
  <2>1. UNCHANGED <<crpQ, allQBlocked, qBlocked, res, crp>>
    BY <1>3 DEF RetWait, queueVars
  <2>2. MovesTo(t, "harvest") \/ MovesTo(t, "asleep")
    BY <1>1, <1>3, GotoMoves DEF RetWait
  <2> QED BY <1>1, <2>1, <2>2, WorkElsewhere
<1>4. CASE Callback(t)
  BY <1>1, <1>4, FinishWork DEF Finish
<1> QED BY <1>2, <1>3, <1>4 DEF RetStep

LEMMA IsrStepWork ==
  ASSUME NEW d, IInv, WorkInv(d), Procs # {}, NEW e \in Drivers, IsrStep(e)
  PROVE  WorkInv(d)'
<1>1. /\ e \in Threads /\ e \notin Callers \cup Procs /\ TypeOK
  BY ThreadKinds, ThreadsAssumption DEF IInv
<1>2. CASE \E r \in ring[e] : IsrTake(e, r)
  <2>1. /\ UNCHANGED <<crpQ, allQBlocked, qBlocked, res>> /\ Goto(e, "done")
        /\ \A u \in Threads \ {e} : crp'[u] = crp[u]
    BY <1>1, <1>2 DEF IsrTake, queueVars, TypeOK
  <2> QED BY <1>1, <2>1, GotoMoves, WorkElsewhere
<1>3. CASE IsrDrained(e)
  <2>1. UNCHANGED <<crpQ, allQBlocked, qBlocked, res, crp>>
    BY <1>3 DEF IsrDrained, queueVars
  <2>2. MovesTo(e, "unblock") \/ MovesTo(e, "idle")
    BY <1>1, <1>3, GotoMoves DEF IsrDrained
  <2> QED BY <1>1, <2>1, <2>2, WorkElsewhere
<1> QED BY <1>1, <1>2, <1>3, FinishWork, UnblockWork DEF IsrStep

LEMMA NextWork ==
  ASSUME NEW d, IInv, WorkInv(d), OneEngine(d), Procs # {}, [Next]_vars
  PROVE  WorkInv(d)'
<1>1. ASSUME NEW c \in Callers, NEW r \in Reqs, DispatchDrop(c, r)
      PROVE  WorkInv(d)'
  <2>1. UNCHANGED <<crpQ, allQBlocked, qBlocked, pc, crp, res>>
    BY <1>1 DEF DispatchDrop, queueVars, threadVars
  <2> QED BY <2>1 DEF WorkInv, QueuedForOne, RefusedByOne, StalledWithWork,
                      StalledWatched, WorkWatched, Awake
<1>2. ASSUME NEW c \in Callers, CallerStep(c) PROVE WorkInv(d)'
  BY <1>2, ProcessWork, FinishWork, DispatchEndWork, ThreadKinds DEF CallerStep
<1>3. ASSUME NEW p \in Procs, ProcStep(p) PROVE WorkInv(d)'
  <2>1. CASE \E i \in DOMAIN crpQ : ProcSubmit(p, i)
    BY <2>1, ProcSubmitWork
  <2>2. CASE ProcIdle(p) \/ ProcWait(p) \/ ProcEnd(p)
    BY <2>2, ProcIdleWork, ProcWaitWork, ProcEndWork
  <2>3. CASE Process(p) \/ Finish(p)
    BY <2>3, ProcessWork, FinishWork, ThreadKinds
  <2> QED BY <1>3, <2>1, <2>2, <2>3 DEF ProcStep
<1>4. CASE UNCHANGED vars
  <2>1. UNCHANGED <<crpQ, allQBlocked, qBlocked, pc, crp, res>>
    BY <1>4 DEF vars, queueVars, threadVars
  <2> QED BY <2>1 DEF WorkInv, QueuedForOne, RefusedByOne, StalledWithWork,
                      StalledWatched, WorkWatched, Awake
<1> QED BY <1>1, <1>2, <1>3, <1>4, DispatchQueueWork, DispatchInvokeWork,
           RetStepWork, IsrStepWork DEF Next

(* With one engine that may refuse a request, beside drivers that finish    *)
(* each request at once and are given none to queue, no request is left on  *)
(* crp_q with every crypto_proc asleep unless the engine is blocked: for    *)
(* any number of requests, callers and CPUs, and although the threads test  *)
(* crypto_all_qblocked with no lock held.                                   *)
THEOREM WorkAwakensProc ==
  ASSUME NEW d \in Drivers, OneEngine(d), Procs # {}
  PROVE  Spec => []NoStrandedWork
<1>1. Init => WorkInv(d)
  BY WorkInit
<1>2. IInv /\ WorkInv(d) /\ [Next]_vars => WorkInv(d)'
  BY NextWork
<1>3. WorkInv(d) => NoStrandedWork
  BY WorkInvEnough
<1> QED BY <1>1, <1>2, <1>3, SpecIInv, PTL DEF Spec

=============================================================================
