------------------------------- MODULE OcfAsym -------------------------------
(***************************************************************************)
(* The asymmetric (public key) path of the OCF framework                   *)
(* (crypto/ocf/crypto.c): crypto_kdispatch, crypto_kinvoke, crypto_kdone,  *)
(* crypto_unblock(CRYPTO_ASYMQ), the second half of crypto_proc's loop and *)
(* of crypto_ret_proc's.  There are no sessions: an operation chooses its  *)
(* driver each time it is invoked, and cc_koperations counts those a       *)
(* driver has.                                                             *)
(*                                                                         *)
(* A step is a section under one lock or a call with none held.  One CPU:  *)
(* an interrupt may come between any two steps, but a client that waits    *)
(* runs again only when no other thread has its operation in hand.         *)
(***************************************************************************)
EXTENDS OcfTable, OcfQueues

CONSTANTS
  Kops,         \* the struct cryptkop; each is also the client that owns it
  Procs, Rets,  \* the crypto_proc and crypto_ret_proc threads
  CbImm,        \* operations with CRYPTO_KF_CBIMM
  Crids,        \* the krp_crid arguments: flags, or a slot
  Slots,        \* the number of slots of the table
  AllowSoft,    \* crypto_devallowsoft
  Removable,    \* devices whose module may be unloaded
  RestartDevs,  \* devices whose kprocess may answer ERESTART
  FaultyDevs,   \* devices whose kprocess may fail and complete at once
  RingSize,     \* operations a RestartDevs device holds
  CountMod      \* cc_koperations is unsigned: its values are 0..CountMod-1

Threads == Kops \cup Procs \cup Rets \cup Devs
Hids == 0 .. Slots - 1

ASSUME AsymAssumption ==
  /\ CbImm \subseteq Kops /\ RestartDevs \subseteq Devs
  /\ FaultyDevs \subseteq Devs /\ Removable \subseteq Devs
  /\ AllowSoft \in BOOLEAN
  /\ Slots \in Nat \ {0} /\ RingSize \in Nat \ {0} /\ CountMod \in Nat \ {0}
ASSUME KindsAssumption ==
  /\ Kops \cap (Procs \cup Rets \cup Devs) = {}
  /\ Procs \cap (Rets \cup Devs) = {} /\ Rets \cap Devs = {}
  /\ None \notin Kops

VARIABLES
  krpQ,          \* crp_kq
  allKQBlocked,  \* crypto_all_kqblocked
  kqBlocked,     \* the slots with cc_kqblocked
  retKQ,         \* crp_ret_kq
  table,         \* crypto_drivers
  ring,          \* the operations each device has accepted and not finished
  needWake,      \* the devices that owe a crypto_unblock
  hid, crid,     \* krp_hid, krp_crid of each operation
  status, done,  \* krp_status, CRYPTO_KF_DONE
  busy,          \* operations dispatched whose callback was not called
  pc, krp        \* of each thread: where it is and its operation

queueVars  == <<krpQ, allKQBlocked, kqBlocked>>
driverVars == <<ring, needWake>>
kopVars    == <<hid, crid, status, done>>
threadVars == <<pc, krp>>
vars == <<queueVars, retKQ, table, driverVars, kopVars, busy, threadVars>>

AtSlot(h) == [flags |-> {}, slot |-> h]

Start(t) == CASE t \in Kops  -> "ready"
              [] t \in Procs -> "scan"
              [] t \in Rets  -> "harvest"
              [] t \in Devs  -> "idle"

Init ==
  /\ krpQ = <<>> /\ allKQBlocked = FALSE /\ kqBlocked = {} /\ retKQ = <<>>
  /\ table = [h \in Hids |-> Zeroed]
  /\ ring = [d \in Devs |-> {}] /\ needWake = {}
  /\ hid = [k \in Kops |-> 0] /\ crid = [k \in Kops |-> AtSlot(0)]
  /\ status = [k \in Kops |-> "ok"] /\ done = [k \in Kops |-> FALSE]
  /\ busy = {}
  /\ pc = [t \in Threads |-> Start(t)]
  /\ krp = [t \in Threads |-> IF t \in Kops THEN t ELSE None]

Goto(t, label) == pc' = [pc EXCEPT ![t] = label]
MissedWakeUp(sleepers, at) == at
WakeUp(sleepers, at) ==
  [t \in Threads |->
     IF t \in sleepers /\ at[t] = "asleep" THEN "wait" ELSE at[t]]

Dropped(t) == [krp EXCEPT ![t] = None]

SlotsOf(d) == {h \in Hids : table[h].dev = d}

-----------------------------------------------------------------------------
(* A driver attaches (crypto_get_driverid, crypto_register, ...: one step   *)
(* here, OcfSession takes it apart) and is removed, with no regard to the  *)
(* operations it still has: nobody finishes those, and the model does not   *)
(* attach such a device again.                                             *)
Attach(d) ==
  /\ SlotsOf(d) = {} /\ ring[d] = {}
  /\ \E h \in FirstUnused(table) :
       table' = [table EXCEPT ![h].dev = d, ![h].algs = Algs]
  /\ UNCHANGED <<queueVars, retKQ, driverVars, kopVars, busy, threadVars>>

Detach(d) ==
  /\ d \in Removable /\ pc[d] = "idle"
  /\ \E h \in SlotsOf(d) :
       /\ table' = [table EXCEPT ![h] = Finis(@)]
       /\ kqBlocked' = kqBlocked \ {h}
  /\ UNCHANGED <<krpQ, allKQBlocked, retKQ, driverVars, kopVars, busy,
                 threadVars>>

-----------------------------------------------------------------------------
(* cryptodev_key: a client fills in a new operation, dispatches it, waits   *)
(* and frees it.                                                           *)
KDispatch(k, c) ==
  /\ pc[k] = "ready"
  /\ crid' = [crid EXCEPT ![k] = c]
  /\ busy' = busy \cup {k}
  /\ Goto(k, "kinvoke")
  /\ UNCHANGED <<queueVars, retKQ, table, driverVars, hid, status, done, krp>>

(* The client finds its operation finished and frees it, a zeroed one being *)
(* the next.  On one CPU without preemption it runs only when the thread    *)
(* or the interrupt that finished the operation is through with it.         *)
Finished(k) == IF k \in CbImm THEN done[k] ELSE k \notin busy

KWait(k) ==
  /\ pc[k] = "kwait"
  /\ Finished(k) /\ \A t \in Threads \ {k} : krp[t] # k
  /\ hid' = [hid EXCEPT ![k] = 0] /\ crid' = [crid EXCEPT ![k] = AtSlot(0)]
  /\ status' = [status EXCEPT ![k] = "ok"] /\ done' = [done EXCEPT ![k] = FALSE]
  /\ Goto(k, "ready")
  /\ UNCHANGED <<queueVars, retKQ, table, driverVars, busy, krp>>

-----------------------------------------------------------------------------
(* crypto_kinvoke, called by crypto_kdispatch with krp_crid and by          *)
(* crypto_proc with krp_hid                                                *)

Asked(t) == IF t \in Procs THEN AtSlot(hid[krp[t]]) ELSE crid[krp[t]]

Chosen(c) ==
  IF c.flags = {}
    THEN {h \in Hids \cap {c.slot} :
            /\ Suitable(table[h], Algs)
            /\ AllowSoft \/ table[h].dev \in Hardware}
    ELSE Select(table, c.flags \ (IF AllowSoft THEN {} ELSE {"sw"}), Algs,
                KopLoad(table))

LessSigned(n) == n - 1
Less(n) == (n - 1) % CountMod
More(n) == (n + 1) % CountMod

KInvoke(t, h) ==
  LET k == krp[t] IN
  /\ pc[t] = "kinvoke"
  /\ h \in Chosen(Asked(t)) \ kqBlocked
  /\ hid' = [hid EXCEPT ![k] = h]
  /\ table' = [table EXCEPT ![h].kops = More(@)]
  /\ Goto(t, "kprocess")
  /\ UNCHANGED <<queueVars, retKQ, driverVars, crid, status, done, busy, krp>>

(* No driver, or a blocked one: the operation fails with ENODEV or ERESTART.*)
KInvokeFails(t) ==
  LET k == krp[t] IN
  /\ pc[t] = "kinvoke"
  /\ Chosen(Asked(t)) \subseteq kqBlocked
  /\ status' = [status EXCEPT
       ![k] = IF Chosen(Asked(t)) = {} THEN "nodev" ELSE "restart"]
  /\ Goto(t, "kdone")
  /\ UNCHANGED <<queueVars, retKQ, table, driverVars, hid, crid, done, busy,
                 krp>>

(* CRYPTODEV_KPROCESS(cap->cc_dev) *)
KProcess(t) ==
  LET k == krp[t]
      d == table[hid[k]].dev
      full == d \in RestartDevs /\ Cardinality(ring[d]) >= RingSize
  IN
  /\ pc[t] = "kprocess"
  /\ \/ /\ d = None /\ Goto(t, "oops")
        /\ UNCHANGED <<driverVars, status>>
     \/ /\ d # None /\ ~full
        /\ ring' = [ring EXCEPT ![d] = @ \cup {k}] /\ Goto(t, "kaccepted")
        /\ UNCHANGED <<needWake, status>>
     \/ /\ d # None /\ full
        /\ needWake' = needWake \cup {d} /\ Goto(t, "krestart")
        /\ UNCHANGED <<ring, status>>
     \/ /\ d \in FaultyDevs
        /\ status' = [status EXCEPT ![k] = "error"]
        /\ Goto(t, "kdone")
        /\ UNCHANGED driverVars
  /\ UNCHANGED <<queueVars, retKQ, table, hid, crid, done, busy, krp>>

KAccepted(t) ==
  LET k == krp[t] IN
  /\ pc[t] = "kaccepted"
  /\ crid' = [crid EXCEPT ![k] = AtSlot(hid[k])]
  /\ Goto(t, "kend")
  /\ UNCHANGED <<queueVars, retKQ, table, driverVars, hid, status, done, busy,
                 krp>>

KRestarted(t) ==
  /\ pc[t] = "krestart"
  /\ table' = [table EXCEPT ![hid[krp[t]]].kops = Less(@)]
  /\ Goto(t, "krequeue")
  /\ UNCHANGED <<queueVars, retKQ, driverVars, kopVars, busy, krp>>

(* Back in crypto_kdispatch. *)
LeftOut(k) == krpQ
Queued(k) == Append(krpQ, k)

KDispatchQueue(k) ==
  /\ pc[k] = "krequeue"
  /\ krpQ' = Queued(k)
  /\ pc' = [WakeUp(Procs, pc) EXCEPT ![k] = "kwait"]
  /\ UNCHANGED <<allKQBlocked, kqBlocked, retKQ, table, driverVars, kopVars,
                 busy, krp>>

KDispatchEnd(k) ==
  /\ k \in Kops /\ pc[k] = "kend"
  /\ Goto(k, "kwait")
  /\ UNCHANGED <<queueVars, retKQ, table, driverVars, kopVars, busy, krp>>

-----------------------------------------------------------------------------
(* crypto_kdone *)

(* Where its caller goes on. *)
Back(t) == CASE t \in Devs -> "drain"
             [] t \in Rets -> "harvest"
             [] OTHER -> IF status[krp[t]] = "error" THEN "kaccepted" ELSE "kend"

KMark(t) ==
  /\ pc[t] = "kdone"
  /\ done' = [done EXCEPT ![krp[t]] = TRUE]
  /\ Goto(t, "kcount")
  /\ UNCHANGED <<queueVars, retKQ, table, driverVars, hid, crid, status, busy,
                 krp>>

(* It takes the operation off whatever slot krp_hid names.  A slot that is  *)
(* given up is zeroed with its blocked flag.                               *)
Uncounted(slot) == IF slot.cleanup THEN Remove([slot EXCEPT !.kops = Less(@)])
                   ELSE [slot EXCEPT !.kops = Less(@)]

KCount(t) ==
  LET h == hid[krp[t]] IN
  /\ pc[t] = "kcount"
  /\ table' = [table EXCEPT ![h] = Uncounted(@)]
  /\ kqBlocked' = IF table[h].cleanup /\ Uncounted(table[h]) = Zeroed
                    THEN kqBlocked \ {h} ELSE kqBlocked
  /\ Goto(t, IF krp[t] \in CbImm THEN "kcallback" ELSE "kreturn")
  /\ UNCHANGED <<krpQ, allKQBlocked, retKQ, driverVars, kopVars, busy, krp>>

KReturn(t) ==
  /\ pc[t] = "kreturn"
  /\ retKQ' = Append(retKQ, krp[t])
  /\ pc' = [WakeUp(Rets, pc) EXCEPT ![t] = Back(t)]
  /\ UNCHANGED <<queueVars, table, driverVars, kopVars, busy, krp>>

(* krp_callback *)
KCallback(t) ==
  /\ pc[t] = "kcallback"
  /\ busy' = busy \ {krp[t]}
  /\ Goto(t, Back(t))
  /\ krp' = IF t \in Rets THEN Dropped(t) ELSE krp
  /\ UNCHANGED <<queueVars, retKQ, table, driverVars, kopVars>>

-----------------------------------------------------------------------------
(* crypto_proc, "As above, but for key ops" *)

NoDriver(i) == table[hid[krpQ[i]]].dev = None
Ready(i) == hid[krpQ[i]] \notin kqBlocked

(* The scan stops at an operation whose driver has gone, before it has set  *)
(* krp: it then writes through the null pointer.                           *)
StillLinked(i) == krpQ
Unlinked(i) == SubSeq(krpQ, 1, i - 1) \o SubSeq(krpQ, i + 1, Len(krpQ))

ProcSubmit(p, i) ==
  /\ pc[p] = "scan"
  /\ i \in DOMAIN krpQ
  /\ NoDriver(i) \/ Ready(i)
  /\ \A j \in 1 .. i - 1 : ~NoDriver(j) /\ ~Ready(j)
  /\ IF NoDriver(i)
       THEN Goto(p, "oops") /\ UNCHANGED <<queueVars, krp>>
       ELSE /\ allKQBlocked' = FALSE
            /\ krpQ' = Unlinked(i)
            /\ kqBlocked' = kqBlocked \cup {hid[krpQ[i]]}
            /\ krp' = [krp EXCEPT ![p] = krpQ[i]]
            /\ Goto(p, "kinvoke")
  /\ UNCHANGED <<retKQ, table, driverVars, kopVars, busy>>

ProcIdle(p) ==
  /\ pc[p] = "scan"
  /\ \A i \in DOMAIN krpQ : ~NoDriver(i) /\ ~Ready(i)
  /\ allKQBlocked' = (krpQ # <<>>)
  /\ Goto(p, "wait")
  /\ UNCHANGED <<krpQ, kqBlocked, retKQ, table, driverVars, kopVars, busy, krp>>

ProcWait(p) ==
  /\ p \in Procs /\ pc[p] = "wait"
  /\ Goto(p, IF krpQ # <<>> /\ ~allKQBlocked THEN "scan" ELSE "asleep")
  /\ UNCHANGED <<queueVars, retKQ, table, driverVars, kopVars, busy, krp>>

ProcRequeue(p) ==
  /\ p \in Procs /\ pc[p] = "krequeue"
  /\ krpQ' = <<krp[p]>> \o krpQ
  /\ Goto(p, "scan") /\ krp' = Dropped(p)
  /\ UNCHANGED <<allKQBlocked, kqBlocked, retKQ, table, driverVars, kopVars,
                 busy>>

Released(h) == kqBlocked \ {h}

ProcEnd(p) ==
  /\ p \in Procs /\ pc[p] = "kend"
  /\ kqBlocked' = Released(hid[krp[p]])
  /\ Goto(p, "scan") /\ krp' = Dropped(p)
  /\ UNCHANGED <<krpQ, allKQBlocked, retKQ, table, driverVars, kopVars, busy>>

-----------------------------------------------------------------------------
(* crypto_ret_proc *)

RetHarvest(t) ==
  /\ pc[t] = "harvest"
  /\ IF retKQ # <<>>
       THEN /\ krp' = [krp EXCEPT ![t] = Head(retKQ)]
            /\ retKQ' = Tail(retKQ)
            /\ Goto(t, "kcallback")
       ELSE Goto(t, "wait") /\ UNCHANGED <<krp, retKQ>>
  /\ UNCHANGED <<queueVars, table, driverVars, kopVars, busy>>

RetWait(t) ==
  /\ t \in Rets /\ pc[t] = "wait"
  /\ Goto(t, IF retKQ # <<>> THEN "harvest" ELSE "asleep")
  /\ UNCHANGED <<queueVars, retKQ, table, driverVars, kopVars, busy, krp>>

-----------------------------------------------------------------------------
(* A driver's timer or interrupt (safe_kpoll): one operation is finished,   *)
(* and a driver that refused one unblocks.                                 *)

Poll(d, k) ==
  /\ pc[d] \in {"idle", "drain"} /\ SlotsOf(d) # {}
  /\ k \in ring[d]
  /\ ring' = [ring EXCEPT ![d] = @ \ {k}]
  /\ krp' = [krp EXCEPT ![d] = k]
  /\ status' = [status EXCEPT ![k] = "ok"]
  /\ Goto(d, "kdone")
  /\ UNCHANGED <<queueVars, retKQ, table, needWake, hid, crid, done, busy>>

Drained(d) ==
  /\ pc[d] = "drain"
  /\ needWake' = needWake \ {d}
  /\ Goto(d, IF d \in needWake THEN "unblock" ELSE "idle")
  /\ krp' = Dropped(d)
  /\ UNCHANGED <<queueVars, retKQ, table, ring, kopVars, busy>>

(* crypto_unblock(d, CRYPTO_ASYMQ) *)
Unblock(d) ==
  /\ pc[d] = "unblock"
  /\ kqBlocked' = kqBlocked \ SlotsOf(d)
  /\ allKQBlocked' = FALSE
  /\ pc' = [WakeUp(Procs, pc) EXCEPT ![d] = "idle"]
  /\ UNCHANGED <<krpQ, retKQ, table, driverVars, kopVars, busy, krp>>

-----------------------------------------------------------------------------
Invoke(t) ==
  \/ \E h \in Hids : KInvoke(t, h)
  \/ KInvokeFails(t) \/ KProcess(t) \/ KAccepted(t) \/ KRestarted(t)
Finish(t) == KMark(t) \/ KCount(t) \/ KReturn(t) \/ KCallback(t)

ClientStep(k) ==
  Invoke(k) \/ Finish(k) \/ KDispatchQueue(k) \/ KDispatchEnd(k) \/ KWait(k)
ProcStep(p) ==
  \/ \E i \in DOMAIN krpQ : ProcSubmit(p, i)
  \/ ProcIdle(p) \/ ProcWait(p) \/ Invoke(p) \/ Finish(p)
  \/ ProcRequeue(p) \/ ProcEnd(p)
RetStep(t) == RetHarvest(t) \/ RetWait(t) \/ KCallback(t)
DriverStep(d) ==
  (\E k \in ring[d] : Poll(d, k)) \/ Drained(d) \/ Finish(d) \/ Unblock(d)

(* The model stops where the kernel would follow a null pointer. *)
NoOops == \A t \in Threads : pc[t] # "oops"

Next ==
  /\ NoOops
  /\ \/ \E d \in Devs : Attach(d) \/ Detach(d) \/ DriverStep(d)
     \/ \E k \in Kops : ClientStep(k) \/ \E c \in Crids : KDispatch(k, c)
     \/ \E p \in Procs : ProcStep(p)
     \/ \E t \in Rets : RetStep(t)

Spec == Init /\ [][Next]_vars

(* Threads that can run are scheduled and the hardware finishes what it has.*)
Fairness ==
  /\ \A k \in Kops : WF_vars(ClientStep(k))
  /\ \A p \in Procs : WF_vars(ProcStep(p))
  /\ \A t \in Rets : WF_vars(RetStep(t))
  /\ \A d \in Devs : WF_vars(DriverStep(d))
FairSpec == Spec /\ Fairness

-----------------------------------------------------------------------------
(* Properties *)

Labels ==
  {"ready", "kwait", "idle", "scan", "wait", "asleep", "harvest",
   "kinvoke", "kprocess", "kaccepted", "krestart", "krequeue", "kend",
   "kdone", "kcount", "kreturn", "kcallback", "drain", "unblock", "oops"}

(* Every variable keeps its type; cc_koperations stays an unsigned number. *)
TypeOK ==
  /\ krpQ \in Seq(Kops) /\ retKQ \in Seq(Kops)
  /\ allKQBlocked \in BOOLEAN /\ kqBlocked \subseteq Hids
  /\ table \in [Hids -> Slot] /\ \A h \in Hids : table[h].kops < CountMod
  /\ ring \in [Devs -> SUBSET Kops] /\ needWake \subseteq Devs
  /\ hid \in [Kops -> Hids] /\ busy \subseteq Kops
  /\ status \in [Kops -> {"ok", "error", "nodev", "restart"}]
  /\ done \in [Kops -> BOOLEAN]
  /\ pc \in [Threads -> Labels] /\ krp \in [Threads -> Kops \cup {None}]

HoldsPending(t) == pc[t] \in {"kinvoke", "kprocess", "krestart", "krequeue", "kdone"}
HoldsDone(t) == pc[t] \in {"kcount", "kreturn", "kcallback"}
Holds(t) == HoldsPending(t) \/ HoldsDone(t)
OnRing == UNION {ring[d] : d \in Devs}

(* An operation that was dispatched and not called back is somewhere: on a  *)
(* queue, with a driver, or in a thread's hands.                           *)
KopNeverLost ==
  NoOops => \A k \in busy : \/ k \in Elems(krpQ) \cup Elems(retKQ) \cup OnRing
                            \/ \E t \in Threads : Holds(t) /\ krp[t] = k

(* It is in one place only, and CRYPTO_KF_DONE is set exactly from          *)
(* crypto_kdone on: none is completed, counted down or called back twice.  *)
KopOneOwner ==
  /\ NoRepeats(krpQ) /\ NoRepeats(retKQ)
  /\ Elems(krpQ) \cap OnRing = {} /\ Elems(retKQ) \cap (Elems(krpQ) \cup OnRing) = {}
  /\ \A k \in Elems(krpQ) \cup OnRing : ~done[k]
  /\ \A k \in Elems(retKQ) : done[k]
  /\ \A t \in Threads : Holds(t) =>
       /\ krp[t] \notin Elems(krpQ) \cup Elems(retKQ) \cup OnRing
       /\ done[krp[t]] <=> HoldsDone(t)
       /\ \A u \in Threads : Holds(u) /\ krp[u] = krp[t] => u = t

(* When every crypto_proc sleeps, what is on crp_kq waits for a blocked     *)
(* driver.                                                                 *)
NoStrandedKop ==
  (\A p \in Procs : pc[p] = "asleep") =>
     \A i \in DOMAIN krpQ : hid[krpQ[i]] \in kqBlocked

(* A slot marked for cleanup still counts an operation or a session. *)
KopCleanupEnds == \A h \in Hids : table[h].cleanup => Busy(table[h])

(* "return ERESTART so the operation is resubmitted if possible": a client  *)
(* is never told that its operation failed with ERESTART.                  *)
RestartIsResubmitted ==
  \A k \in Kops : done[k] => status[k] # "restart"

(* "# os asym operations": cc_koperations is the number of operations the   *)
(* driver of the slot has been given and has not finished.                 *)
HasOneOf(t, h) ==
  /\ krp[t] # None /\ hid[krp[t]] = h
  /\ \/ pc[t] \in {"kprocess", "krestart"}
     \/ pc[t] \in {"kdone", "kcount"} /\ status[krp[t]] \in {"ok", "error"}
KopCount ==
  \A h \in Hids : table[h].kops =
    Cardinality({k \in OnRing : hid[k] = h})
    + Cardinality({t \in Threads : HasOneOf(t, h)})

(* Every operation is answered: its client comes out of cryptodev_key once  *)
(* the others dispatch no more.  (While they do, one that was put back may  *)
(* find the driver full each time crypto_proc retries it.)                 *)
OthersStop(k) ==
  <>[][\A j \in Kops \ {k} : pc[j] = "ready" => pc'[j] = "ready"]_vars
KopServed ==
  \A k \in Kops : OthersStop(k) => (pc[k] # "ready" ~> pc[k] = "ready")

=============================================================================
