------------------------------- MODULE OcfSym -------------------------------
(***************************************************************************)
(* The symmetric request path of the OCF cryptographic framework           *)
(* (crypto/ocf/crypto.c): crypto_dispatch, crypto_invoke, crypto_done,     *)
(* crypto_unblock and the per-CPU threads crypto_proc and crypto_ret_proc. *)
(*                                                                         *)
(* A step is a maximal section the code runs under one lock, or one call   *)
(* it makes with no lock held.  Threads are                                *)
(*   Callers   threads that call crypto_dispatch,                          *)
(*   Procs     the crypto_proc threads, one per CPU,                       *)
(*   Rets      the crypto_ret_proc threads, one per CPU,                   *)
(*   Drivers   the interrupt handler of each driver.                       *)
(* The drivers keep every session here; OcfSession models how they come    *)
(* and go.                                                                 *)
(***************************************************************************)
EXTENDS OcfQueues, Integers, FiniteSets

CONSTANTS
  Reqs,          \* the struct cryptop requests the clients own
  Callers, Procs, Rets, Drivers,
  DriverOf,      \* the driver of the session a request belongs to
  Batch,         \* requests with CRYPTO_F_BATCH
  CbImm,         \* requests with CRYPTO_F_CBIMM
  CbIfSync,      \* requests with CRYPTO_F_CBIFSYNC
  SyncDrivers,   \* drivers that finish a request inside CRYPTODEV_PROCESS
  MuteDrivers,   \* drivers that never call crypto_unblock
  FaultyDrivers, \* drivers whose set-up of a request may fail
  RingSize,      \* requests a driver's descriptor ring holds
  QMax,          \* crypto_q_max
  MaxOps,        \* bound: calls of crypto_dispatch
  Smp,           \* built for several CPUs: a spin lock does not stop others
  None           \* no thread

Threads == Callers \cup Procs \cup Rets \cup Drivers

ASSUME SetsAssumption ==
  /\ IsFiniteSet(Reqs)
  /\ Batch \subseteq Reqs /\ CbImm \subseteq Reqs /\ CbIfSync \subseteq Reqs
  /\ SyncDrivers \subseteq Drivers /\ MuteDrivers \subseteq Drivers
  /\ FaultyDrivers \subseteq Drivers
  /\ DriverOf \in [Reqs -> Drivers]
  /\ Smp \in BOOLEAN
ASSUME ThreadsAssumption ==
  /\ Callers \cap (Procs \cup Rets \cup Drivers) = {}
  /\ Procs \cap (Rets \cup Drivers) = {}
  /\ Rets \cap Drivers = {}
  /\ None \notin Threads
ASSUME BoundsAssumption ==
  QMax \in Nat /\ MaxOps \in Nat /\ RingSize \in Nat \ {0} /\ Reqs # {}

VARIABLES
  crpQ,         \* crp_q, the queue of requests waiting for a driver
  allQBlocked,  \* crypto_all_qblocked
  qBlocked,     \* the drivers with cc_qblocked
  unqBlocked,   \* the drivers with cc_unqblocked
  qCnt,         \* crypto_q_cnt
  done,         \* CRYPTO_F_DONE of each request
  retQ,         \* crp_ret_q, the queue of callbacks to make
  retLock,      \* the thread inside crypto_ret_q_lock, or None
  ring,         \* the requests each driver has accepted and not finished
  needWake,     \* the drivers that owe a crypto_unblock (sc_needwakeup)
  pc, crp, res, \* of each thread: where it is, the request and the result
                \* of CRYPTODEV_PROCESS in its local variables
  busy,         \* requests accepted by crypto_dispatch and not called back
  ops           \* cs_ops, the calls of crypto_dispatch

queueVars  == <<crpQ, allQBlocked, qBlocked, unqBlocked>>
doneVars   == <<qCnt, done>>
retVars    == <<retQ, retLock>>
driverVars == <<ring, needWake>>
threadVars == <<pc, crp, res>>
clientVars == <<busy, ops>>
vars == <<queueVars, doneVars, retVars, driverVars, threadVars, clientVars>>

Start(t) == CASE t \in Callers -> "ready"
              [] t \in Procs   -> "scan"
              [] t \in Rets    -> "harvest"
              [] t \in Drivers -> "idle"

Init ==
  /\ crpQ = <<>> /\ allQBlocked = FALSE /\ qBlocked = {} /\ unqBlocked = {}
  /\ qCnt = 0 /\ done = [r \in Reqs |-> FALSE]
  /\ retQ = <<>> /\ retLock = None
  /\ ring = [d \in Drivers |-> {}] /\ needWake = {}
  /\ pc = [t \in Threads |-> Start(t)]
  /\ crp = [t \in Threads |-> CHOOSE r \in Reqs : TRUE]
  /\ res = [t \in Threads |-> "ok"]
  /\ busy = {} /\ ops = 0

-----------------------------------------------------------------------------
(* wake_up_interruptible on a wait queue: every sleeper tests its condition *)
(* again.                                                                  *)
MissedWakeUp(sleepers, at) == at
WakeUp(sleepers, at) ==
  [t \in Threads |->
     IF t \in sleepers /\ at[t] = "asleep" THEN "wait" ELSE at[t]]

Goto(t, label) == pc' = [pc EXCEPT ![t] = label]

-----------------------------------------------------------------------------
(* crypto_dispatch *)

FullOneLate == qCnt > QMax
QueueFull == qCnt >= QMax

Uncounted == qCnt
Counted == qCnt + 1

(* ENOMEM: too many requests are outstanding. *)
DispatchDrop(c, r) ==
  /\ pc[c] = "ready" /\ r \notin busy /\ ops < MaxOps
  /\ QueueFull
  /\ ops' = ops + 1
  /\ UNCHANGED <<queueVars, doneVars, retVars, driverVars, threadVars, busy>>

(* The request counts as outstanding and starts a fresh run. *)
Accept(c, r) ==
  /\ pc[c] = "ready" /\ r \notin busy /\ ops < MaxOps
  /\ ~QueueFull
  /\ ops' = ops + 1
  /\ busy' = busy \cup {r}
  /\ qCnt' = Counted
  /\ done' = [done EXCEPT ![r] = FALSE]

DispatchQueue(c, r) ==
  /\ Accept(c, r)
  /\ r \in Batch \/ DriverOf[r] \in qBlocked
  /\ crpQ' = Append(crpQ, r)
  /\ pc' = WakeUp(Procs, pc)
  /\ UNCHANGED <<allQBlocked, qBlocked, unqBlocked, retVars, driverVars,
                 crp, res>>

DispatchInvoke(c, r) ==
  /\ Accept(c, r)
  /\ r \notin Batch /\ DriverOf[r] \notin qBlocked
  /\ allQBlocked' = FALSE
  /\ unqBlocked' = unqBlocked \cup {DriverOf[r]}
  /\ crp' = [crp EXCEPT ![c] = r]
  /\ Goto(c, "invoke")
  /\ UNCHANGED <<crpQ, qBlocked, retVars, driverVars, res>>

(* A request the driver had no room for goes back to the front. *)
RequeueNowhere(r) == crpQ
Requeue(r) == <<r>> \o crpQ

(* crypto_invoke has returned to crypto_dispatch. *)
DispatchEnd(c) ==
  LET d == DriverOf[crp[c]] IN
  /\ c \in Callers /\ pc[c] = "return"
  /\ IF res[c] = "restart"
       THEN /\ crpQ' = Requeue(crp[c])
            /\ qBlocked' = qBlocked \cup (unqBlocked \cap {d})
       ELSE UNCHANGED <<crpQ, qBlocked>>
  /\ unqBlocked' = unqBlocked \ {d}
  /\ pc' = [WakeUp(Procs, pc) EXCEPT ![c] = "ready"]
  /\ UNCHANGED <<allQBlocked, doneVars, retVars, driverVars, crp, res,
                 clientVars>>

-----------------------------------------------------------------------------
(* crypto_proc *)

Ready(i) == DriverOf[crpQ[i]] \notin qBlocked

(* list_del *)
StillLinked(q, i) == q
Without(q, i) == SubSeq(q, 1, i - 1) \o SubSeq(q, i + 1, Len(q))

(* The first request whose driver is not blocked goes to its driver. *)
ProcSubmit(p, i) ==
  /\ pc[p] = "scan" /\ i \in DOMAIN crpQ
  /\ Ready(i) /\ \A j \in 1 .. i - 1 : ~Ready(j)
  /\ allQBlocked' = FALSE
  /\ crpQ' = Without(crpQ, i)
  /\ unqBlocked' = unqBlocked \cup {DriverOf[crpQ[i]]}
  /\ crp' = [crp EXCEPT ![p] = crpQ[i]]
  /\ Goto(p, "invoke")
  /\ UNCHANGED <<qBlocked, doneVars, retVars, driverVars, res, clientVars>>

(* Nothing can be submitted: wait for a submission or an unblock. *)
ProcIdle(p) ==
  /\ pc[p] = "scan"
  /\ \A i \in DOMAIN crpQ : ~Ready(i)
  /\ allQBlocked' = (crpQ # <<>>)
  /\ Goto(p, "wait")
  /\ UNCHANGED <<crpQ, qBlocked, unqBlocked, doneVars, retVars, driverVars,
                 crp, res, clientVars>>

(* What crypto_proc leaves in cc_qblocked when the driver had no room and  *)
(* was not unblocked meanwhile: the code assigns 0.                        *)
BlockedAfterRestart(d) ==
  IF d \in unqBlocked THEN qBlocked \ {d} ELSE qBlocked

(* crypto_invoke has returned to crypto_proc. *)
ProcEnd(p) ==
  LET d == DriverOf[crp[p]] IN
  /\ p \in Procs /\ pc[p] = "return"
  /\ IF res[p] = "restart"
       THEN crpQ' = Requeue(crp[p]) /\ qBlocked' = BlockedAfterRestart(d)
       ELSE UNCHANGED <<crpQ, qBlocked>>
  /\ unqBlocked' = unqBlocked \ {d}
  /\ Goto(p, "scan")
  /\ UNCHANGED <<allQBlocked, doneVars, retVars, driverVars, crp, res,
                 clientVars>>

(* The condition of wait_event_interruptible, tested with no lock held. *)
MayProceed == crpQ # <<>> /\ ~allQBlocked

ProcWait(p) ==
  /\ p \in Procs /\ pc[p] = "wait"
  /\ Goto(p, IF MayProceed THEN "scan" ELSE "asleep")
  /\ UNCHANGED <<queueVars, doneVars, retVars, driverVars, crp, res,
                 clientVars>>

-----------------------------------------------------------------------------
(* CRYPTODEV_PROCESS, called by crypto_invoke *)

RingFull(d) == Cardinality(ring[d]) >= RingSize

(* The driver finishes the request at once (cryptosoft), or fails to set it *)
(* up, completes it with an error and returns that error.                  *)
ProcessNow(t) ==
  LET d == DriverOf[crp[t]] IN
  /\ pc[t] = "invoke"
  /\ \/ d \in SyncDrivers /\ res' = [res EXCEPT ![t] = "ok"]
     \/ /\ d \in FaultyDrivers \ SyncDrivers /\ ~RingFull(d)
        /\ res' = [res EXCEPT ![t] = "error"]
  /\ Goto(t, "done")
  /\ UNCHANGED <<queueVars, doneVars, retVars, driverVars, crp, clientVars>>

(* The driver puts the request on its ring. *)
ProcessAccept(t) ==
  LET d == DriverOf[crp[t]] IN
  /\ pc[t] = "invoke"
  /\ d \notin SyncDrivers /\ ~RingFull(d)
  /\ ring' = [ring EXCEPT ![d] = @ \cup {crp[t]}]
  /\ res' = [res EXCEPT ![t] = "ok"]
  /\ Goto(t, "return")
  /\ UNCHANGED <<queueVars, doneVars, retVars, needWake, crp, clientVars>>

(* ERESTART: the ring is full; the driver will unblock when it drains. *)
ProcessRestart(t) ==
  LET d == DriverOf[crp[t]] IN
  /\ pc[t] = "invoke"
  /\ d \notin SyncDrivers /\ RingFull(d)
  /\ needWake' = needWake \cup ({d} \ MuteDrivers)
  /\ res' = [res EXCEPT ![t] = "restart"]
  /\ Goto(t, "return")
  /\ UNCHANGED <<queueVars, doneVars, retVars, ring, crp, clientVars>>

-----------------------------------------------------------------------------
(* The interrupt handler of a driver: it calls crypto_done for each request *)
(* the hardware has finished, and crypto_unblock if it refused one.        *)

IsrTake(d, r) ==
  /\ pc[d] \in {"idle", "drain"}
  /\ r \in ring[d]
  /\ ring' = [ring EXCEPT ![d] = @ \ {r}]
  /\ crp' = [crp EXCEPT ![d] = r]
  /\ Goto(d, "done")
  /\ UNCHANGED <<queueVars, doneVars, retVars, needWake, res, clientVars>>

IsrDrained(d) ==
  /\ pc[d] = "drain"
  /\ needWake' = needWake \ {d}
  /\ Goto(d, IF d \in needWake THEN "unblock" ELSE "idle")
  /\ UNCHANGED <<queueVars, doneVars, retVars, ring, crp, res, clientVars>>

(* crypto_unblock(d, CRYPTO_SYMQ) *)
Unblock(d) ==
  /\ pc[d] = "unblock"
  /\ qBlocked' = qBlocked \ {d}
  /\ unqBlocked' = unqBlocked \ {d}
  /\ allQBlocked' = FALSE
  /\ pc' = [WakeUp(Procs, pc) EXCEPT ![d] = "idle"]
  /\ UNCHANGED <<crpQ, doneVars, retVars, driverVars, crp, res, clientVars>>

-----------------------------------------------------------------------------
(* crypto_done, called by whichever thread finished the request *)

(* Where the thread that called crypto_done, or a callback, goes on. *)
Resume(t) == CASE t \in Drivers -> "drain"
               [] t \in Rets    -> "harvest"
               [] t \in Callers \cup Procs -> "return"

CallbackNow(r) == r \in CbImm \/ (r \in CbIfSync /\ DriverOf[r] \in SyncDrivers)

StillOutstanding(r) == qCnt
Outstanding(r) == IF done[r] THEN qCnt ELSE qCnt - 1

DoneMark(t) ==
  LET r == crp[t] IN
  /\ pc[t] = "done"
  /\ done' = [done EXCEPT ![r] = TRUE]
  /\ qCnt' = Outstanding(r)
  /\ Goto(t, IF CallbackNow(r) THEN "callback" ELSE "wake")
  /\ UNCHANGED <<queueVars, retVars, driverVars, crp, res, clientVars>>

(* The lock is held from the wake-up to the insertion that follows it. *)
DoneWake(t) ==
  /\ pc[t] = "wake"
  /\ retLock = None
  /\ retLock' = t
  /\ pc' = [WakeUp(Rets, pc) EXCEPT ![t] = "insert"]
  /\ UNCHANGED <<queueVars, doneVars, retQ, driverVars, crp, res, clientVars>>

DoneInsert(t) ==
  /\ pc[t] = "insert"
  /\ retQ' = Append(retQ, crp[t])
  /\ retLock' = None
  /\ Goto(t, Resume(t))
  /\ UNCHANGED <<queueVars, doneVars, driverVars, crp, res, clientVars>>

(* crp_callback: the client gets its request back. *)
Callback(t) ==
  /\ pc[t] = "callback"
  /\ busy' = busy \ {crp[t]}
  /\ Goto(t, Resume(t))
  /\ UNCHANGED <<queueVars, doneVars, retVars, driverVars, crp, res, ops>>

-----------------------------------------------------------------------------
(* crypto_ret_proc *)

RetHarvest(t) ==
  /\ pc[t] = "harvest"
  /\ retLock = None
  /\ IF retQ # <<>>
       THEN /\ crp' = [crp EXCEPT ![t] = Head(retQ)]
            /\ retQ' = Tail(retQ)
            /\ Goto(t, "callback")
       ELSE Goto(t, "wait") /\ UNCHANGED <<crp, retQ>>
  /\ UNCHANGED <<queueVars, doneVars, retLock, driverVars, res, clientVars>>

(* The condition of wait_event_interruptible, tested with no lock held: on  *)
(* one CPU nobody runs while interrupts are off and the lock is held.      *)
RetWait(t) ==
  /\ t \in Rets /\ pc[t] = "wait"
  /\ Smp \/ retLock = None
  /\ Goto(t, IF retQ # <<>> THEN "harvest" ELSE "asleep")
  /\ UNCHANGED <<queueVars, doneVars, retVars, driverVars, crp, res,
                 clientVars>>

-----------------------------------------------------------------------------
Process(t) == ProcessNow(t) \/ ProcessAccept(t) \/ ProcessRestart(t)
Finish(t) == DoneMark(t) \/ DoneWake(t) \/ DoneInsert(t) \/ Callback(t)

CallerStep(c) == Process(c) \/ Finish(c) \/ DispatchEnd(c)
ProcStep(p) ==
  \/ \E i \in DOMAIN crpQ : ProcSubmit(p, i)
  \/ ProcIdle(p) \/ ProcWait(p) \/ Process(p) \/ Finish(p) \/ ProcEnd(p)
RetStep(t) == RetHarvest(t) \/ RetWait(t) \/ Callback(t)
IsrStep(d) ==
  \/ \E r \in ring[d] : IsrTake(d, r)
  \/ Finish(d) \/ IsrDrained(d) \/ Unblock(d)

Next ==
  \/ \E c \in Callers, r \in Reqs :
       DispatchDrop(c, r) \/ DispatchQueue(c, r) \/ DispatchInvoke(c, r)
  \/ \E c \in Callers : CallerStep(c)
  \/ \E p \in Procs : ProcStep(p)
  \/ \E t \in Rets : RetStep(t)
  \/ \E d \in Drivers : IsrStep(d)

Spec == Init /\ [][Next]_vars

(* A thread that can run is scheduled, a call in progress goes on, and the  *)
(* hardware finishes what is on its ring.  No client has to dispatch.      *)
Fairness ==
  /\ \A c \in Callers : WF_vars(CallerStep(c))
  /\ \A p \in Procs : WF_vars(ProcStep(p))
  /\ \A t \in Rets : WF_vars(RetStep(t))
  /\ \A d \in Drivers : WF_vars(IsrStep(d))
FairSpec == Spec /\ Fairness

-----------------------------------------------------------------------------
(* Properties *)

Labels == {"ready", "invoke", "return", "scan", "wait", "asleep", "harvest",
           "callback", "done", "wake", "insert", "idle", "drain", "unblock"}

(* Every variable keeps its type: queues hold requests, the lock is held by *)
(* a thread or by nobody, every thread is at a label of the code.          *)
TypeOK ==
  /\ crpQ \in Seq(Reqs) /\ retQ \in Seq(Reqs)
  /\ allQBlocked \in BOOLEAN
  /\ qBlocked \subseteq Drivers /\ unqBlocked \subseteq Drivers
  /\ qCnt \in Nat
  /\ done \in [Reqs -> BOOLEAN]
  /\ retLock \in Threads \cup {None}
  /\ ring \in [Drivers -> SUBSET Reqs] /\ needWake \subseteq Drivers
  /\ pc \in [Threads -> Labels]
  /\ crp \in [Threads -> Reqs]
  /\ res \in [Threads -> {"ok", "error", "restart"}]
  /\ busy \subseteq Reqs
  /\ ops \in 0 .. MaxOps

(* The thread has the request of its local variable in its hands, to be     *)
(* processed or to be handed back.                                         *)
HoldsPending(t) == \/ pc[t] \in {"invoke", "done"}
                   \/ pc[t] = "return" /\ res[t] = "restart"
HoldsDone(t) == pc[t] \in {"wake", "insert", "callback"}
Holds(t) == HoldsPending(t) \/ HoldsDone(t)

OnRing == UNION {ring[d] : d \in Drivers}

(* A request crypto_dispatch accepted is somewhere until its callback: no   *)
(* ERESTART, migration between queues or interrupt loses it.               *)
NeverLost ==
  \A r \in busy : \/ r \in Elems(crpQ) \cup Elems(retQ) \cup OnRing
                   \/ \E t \in Threads : Holds(t) /\ crp[t] = r

(* A request has one owner: it is on one queue, once, or on one ring, or in *)
(* the hands of one thread.  Two owners would complete it, and link it into *)
(* a list, twice.                                                          *)
OneOwner ==
  /\ NoRepeats(crpQ) /\ NoRepeats(retQ)
  /\ Elems(crpQ) \cap Elems(retQ) = {}
  /\ OnRing \cap (Elems(crpQ) \cup Elems(retQ)) = {}
  /\ \A d, e \in Drivers : d # e => ring[d] \cap ring[e] = {}
  /\ \A t \in Threads : Holds(t) =>
       /\ crp[t] \notin Elems(crpQ) \cup Elems(retQ) \cup OnRing
       /\ \A u \in Threads : Holds(u) /\ crp[u] = crp[t] => u = t

(* CRYPTO_F_DONE tells the two halves of a request's life apart: whoever    *)
(* has it before crypto_done finds the flag clear, whoever has it after    *)
(* finds it set, so it is completed once and called back once.             *)
DoneOnce ==
  /\ \A r \in Elems(crpQ) \cup OnRing : r \in busy /\ ~done[r]
  /\ \A r \in Elems(retQ) : r \in busy /\ done[r]
  /\ \A t \in Threads : HoldsPending(t) => crp[t] \in busy /\ ~done[crp[t]]
  /\ \A t \in Threads : HoldsDone(t) => crp[t] \in busy /\ done[crp[t]]

(* crypto_q_cnt, which crypto_dispatch raises under crypto_q_lock and       *)
(* crypto_done lowers after testing a flag outside it, is exactly the       *)
(* number of accepted requests that are not done, and never above          *)
(* crypto_q_max.                                                           *)
OutstandingCount ==
  /\ qCnt = Cardinality({r \in busy : ~done[r]})
  /\ qCnt <= QMax

(* A thread whose driver answered ERESTART does not complete the request:   *)
(* what it puts back on crp_q it has not also handed to crypto_done.       *)
NotRestarted ==
  \A t \in Callers \cup Procs :
     pc[t] \in {"done", "wake", "insert", "callback"} => res[t] # "restart"

(* The inductive invariant of OcfSymProofs. *)
IInv == /\ TypeOK /\ DoneOnce /\ OneOwner /\ NotRestarted
        /\ OutstandingCount /\ NeverLost

(* When every crypto_proc sleeps, what is left on crp_q waits for a blocked *)
(* driver: crypto_all_qblocked may keep the threads asleep only when they   *)
(* "can do nothing on any driver or Q".                                    *)
NoStrandedWork ==
  (\A p \in Procs : pc[p] = "asleep") =>
     \A i \in DOMAIN crpQ : DriverOf[crpQ[i]] \in qBlocked

(* "If so we wait for an unblock": a driver that is marked blocked has a    *)
(* call of crypto_unblock to come.                                         *)
BlockedOwesUnblock ==
  \A d \in qBlocked : d \in needWake \/ pc[d] = "unblock"

(* When every crypto_ret_proc sleeps there is no callback to make: a wake-up*)
(* by crypto_done is never lost.                                           *)
NoStrandedReturn ==
  (\A t \in Rets : pc[t] = "asleep") /\ retLock = None => retQ = <<>>

(* Every request crypto_dispatch accepts is called back. *)
Served == \A r \in Reqs : r \in busy ~> r \notin busy

(* What a client can see of a request, for the abstract OcfService. *)
ServiceStatus ==
  [r \in Reqs |-> IF r \notin busy THEN "idle"
                  ELSE IF done[r] THEN "processed" ELSE "outstanding"]

Service == INSTANCE OcfService WITH status <- ServiceStatus

(* The two queues, the threads and the interrupts together keep the promise *)
(* of OcfService: each accepted request is completed once and handed back   *)
(* once, and crypto_q_max bounds those outstanding.                         *)
ImplementsService == Service!Spec

=============================================================================
