-------------------------------- MODULE Htc ---------------------------------
(***************************************************************************)
(* Transmission through the HTC layer of the AR6000 driver (htc_send.c),    *)
(* with its credit distribution (credit_dist.c) and the flow control of     *)
(* the driver above it (ar6000_drv.c).                                     *)
(*                                                                         *)
(* A packet costs credits of its endpoint.  The target holds the credits of *)
(* a packet it has received and gives them back in reports.  An endpoint    *)
(* without credits seeks some: from the free pool, then from endpoints of   *)
(* lower priority.  Endpoint 0 (HTC's own control messages, sent one by one *)
(* at start-up) is left out.                                               *)
(*                                                                         *)
(* The board has one CPU and a preemptible kernel.  A section under the TX  *)
(* lock is one step.  The network stack sends with bottom halves off: once  *)
(* "net" has begun, it ends before anything else runs.  The threads of the  *)
(* SDIO driver have real-time priority: once "irq" has begun a report, it   *)
(* yields only to "net" and to the I/O thread, whose completions are single *)
(* steps.  Processes that send commands are preempted anywhere.            *)
(***************************************************************************)
EXTENDS Integers, FiniteSetsExt, SequencesExt

CONSTANTS
  Prio,            \* the endpoints by priority: the control service, then data services
  Packets,         \* the packets there are (ar_cookie)
  EpOf, Cost,      \* of each packet: its endpoint, its credits
  Procs,           \* processes that send commands
  Total,           \* credits of the target
  PerMax,          \* TxCreditsPerMaxMsg
  MaxDepth,        \* MaxTxQueueDepth
  MaxTroubles,     \* bound: failed requests, changes of activity, disconnections, a stop
  None

Eps == {Prio[i] : i \in DOMAIN Prio}
Control == Prio[1]
Data == Eps \ {Control}
Threads == Procs \cup {"net", "irq"}

ASSUME HtcAssumption ==
  /\ Prio \in Seq(Range(Prio)) /\ Len(Prio) >= 2 /\ IsInjective(Prio)
  /\ IsFiniteSet(Packets) /\ EpOf \in [Packets -> Eps] /\ Cost \in [Packets -> 1 .. PerMax]
  /\ PerMax \in Nat \ {0} /\ Total \in Nat /\ PerMax < Total
  /\ MaxDepth \in Nat \ {0} /\ MaxTroubles \in Nat
  /\ None \notin Packets /\ Procs \cap {"net", "irq"} = {}

VARIABLES
  pkt,             \* per packet: "free", "queued", "taken" by a thread, "hif"
  q,               \* per endpoint: TxQueue
  hif,             \* the queue of the I/O thread
  cr,              \* the credits: [tx, asg: per endpoint TxCredits and TxCreditsAssigned,
                   \* free: CurrentFreeCredits]
  owed, lost,      \* per endpoint: credits the target holds; credits of failed requests
  active,          \* endpoints with HTC_EP_ACTIVE
  th,              \* per thread: [at, ep, pkt, walk]
  ctlFull,         \* arWMIControlEpFull
  netStopped, connected,
  stop,            \* of HTCStop: "no", "flag", "masked", "done"
  fails, acts, events

vars == <<pkt, q, hif, cr, owed, lost, active, th, ctlFull, netStopped, connected, stop,
          fails, acts, events>>
queues == <<pkt, q, hif>>
credits == <<cr, owed, lost, active>>
flow == <<ctlFull, netStopped, connected>>
bounds == <<fails, acts, events>>

Trouble == fails + acts + events + (IF stop = "no" THEN 0 ELSE 1) < MaxTroubles

Idle == [at |-> "idle", ep |-> None, pkt |-> None, walk |-> << >>]

\* Who may run: "net" runs to its end, then "irq".
NetIdle == th["net"].at = "idle"
MayRun(t) == \/ t = "net"
             \/ t = "irq" /\ NetIdle
             \/ t \in Procs /\ NetIdle /\ th["irq"].at = "idle"

----------------------------------------------------------------------------
(* Credit distribution (credit_dist.c) *)

TxCreditsNorm(e) ==
  IF e = Control THEN PerMax
  ELSE Max({PerMax, (((Total - PerMax) \div PerMax) * PerMax) \div 2})

\* Mutant: the credits over the limit are not put into the free pool.
ReduceCreditsDrops(c, e, limit) ==
  [c EXCEPT !.asg[e] = limit, !.tx[e] = Min({@, limit})]

ReduceCredits(c, e, limit) ==
  [c EXCEPT !.asg[e] = limit, !.tx[e] = Min({@, limit}),
            !.free = @ + Max({0, c.tx[e] - limit})]

GiveCredits(c, e, n) == [c EXCEPT !.tx[e] = @ + n, !.asg[e] = @ + n, !.free = @ - n]

\* HTC_CREDIT_DIST_SEND_COMPLETE for one endpoint, with n credits to distribute.
Returned(c, e, n) ==
  LET back == [c EXCEPT !.tx[e] = @ + n]
      kept == IF back.tx[e] > c.asg[e] THEN ReduceCredits(back, e, c.asg[e]) ELSE back
  IN  IF n = 0 THEN c
      ELSE IF kept.tx[e] > TxCreditsNorm(e) THEN ReduceCredits(kept, e, TxCreditsNorm(e))
      ELSE kept

SendComplete(rpt) == FoldLeft(LAMBDA c, e : Returned(c, e, rpt[e]), cr, Prio)

\* RedistributeCredits: endpoints that are not active lose their credits.
RedistributeCredits(on) ==
  FoldLeft(LAMBDA c, e : IF e \in on THEN c ELSE ReduceCredits(c, e, 0), cr, Tail(Prio))

\* SeekCredits: the free pool, then what endpoints of lower priority, the lowest first,
\* have been assigned above the minimum.
Rank(e) == CHOOSE i \in DOMAIN Prio : Prio[i] = e
Lower(e) == Reverse(SubSeq(Prio, Rank(e) + 1, Len(Prio)))

Take(c, e, seek) ==
  LET need == seek - c.free
  IN  IF need > 0 /\ c.asg[e] - need > PerMax THEN ReduceCredits(c, e, c.asg[e] - need)
      ELSE c

TakeFrom(c, es, seek) == FoldLeft(LAMBDA a, f : Take(a, f, seek), c, es)

SeekCredits(c, e, seek) ==
  IF e = Control THEN c
  ELSE IF c.free >= 2 * seek THEN GiveCredits(c, e, 2 * seek)
  ELSE LET t == TakeFrom(c, Lower(e), seek)
       IN  GiveCredits(t, e, Min({t.free, seek}))

----------------------------------------------------------------------------
(* HTCTrySend *)

\* The credits after the head packet x has asked for what it lacks.
Sought(e, x) ==
  IF cr.tx[e] < Cost[x] THEN SeekCredits(cr, e, Cost[x] - cr.tx[e]) ELSE cr

\* One section under the TX lock: the caller's packet joins the queue the first time; the
\* head packet is taken out when there are credits for it.
Try(t) ==
  /\ MayRun(t) /\ th[t].at = "try"
  /\ LET e == th[t].ep
         mine == IF th[t].pkt = None THEN q[e] ELSE Append(q[e], th[t].pkt)
         done == [th[t] EXCEPT !.pkt = None,
                               !.at = IF Len(mine) >= MaxDepth THEN "full" ELSE "avail"]
         joined == IF th[t].pkt = None THEN pkt ELSE [pkt EXCEPT ![th[t].pkt] = "queued"]
     IN  \/ /\ mine = << >>
            /\ th' = [th EXCEPT ![t] = done]
            /\ UNCHANGED <<pkt, q, cr>>
         \/ /\ mine # << >> /\ q' = [q EXCEPT ![e] = mine] /\ pkt' = joined
            /\ cr' = Sought(e, Head(mine))
            /\ cr'.tx[e] < Cost[Head(mine)]
            /\ th' = [th EXCEPT ![t] = done]
         \/ LET x == Head(mine) IN
            /\ mine # << >> /\ Sought(e, x).tx[e] >= Cost[x]
            /\ cr' = [Sought(e, x) EXCEPT !.tx[e] = @ - Cost[x]]
            /\ q' = [q EXCEPT ![e] = Tail(mine)]
            /\ pkt' = [joined EXCEPT ![x] = "taken"]
            /\ th' = [th EXCEPT ![t] = [@ EXCEPT !.at = "issue", !.pkt = x]]
  /\ UNCHANGED <<hif, owed, lost, active, flow, stop, bounds>>

\* HTCIssueSend: the packet joins the queue of the I/O thread; without memory for the
\* request it is completed at once, with an error.
Issue(t) ==
  /\ MayRun(t) /\ th[t].at = "issue"
  /\ LET x == th[t].pkt IN
     \/ /\ hif' = Append(hif, x) /\ pkt' = [pkt EXCEPT ![x] = "hif"]
        /\ UNCHANGED <<lost, fails, ctlFull>>
     \/ /\ Trouble /\ fails' = fails + 1
        /\ pkt' = [pkt EXCEPT ![x] = "free"]
        /\ lost' = [lost EXCEPT ![EpOf[x]] = @ + Cost[x]]
        /\ ctlFull' = (ctlFull /\ EpOf[x] # Control)
        /\ hif' = hif
  /\ th' = [th EXCEPT ![t] = [@ EXCEPT !.at = "try", !.pkt = None]]
  /\ UNCHANGED <<q, cr, owed, active, netStopped, connected, stop, acts, events>>

\* After its last endpoint a thread is idle; "irq" walks on through the list.
After(t) == IF th[t].walk = << >> THEN Idle ELSE [th[t] EXCEPT !.at = "walk", !.ep = None]

\* ar6000_tx_queue_full, ar6000_tx_queue_avail
Callback(t) ==
  /\ MayRun(t) /\ th[t].at \in {"full", "avail"}
  /\ LET e == th[t].ep IN
     \/ e = Control /\ th[t].at = "full" /\ ctlFull' = TRUE /\ UNCHANGED netStopped
     \/ e = Control /\ th[t].at = "avail" /\ UNCHANGED <<ctlFull, netStopped>>
     \/ e # Control /\ th[t].at = "full" /\ netStopped' = TRUE /\ UNCHANGED ctlFull
     \/ /\ e # Control /\ th[t].at = "avail"
        /\ netStopped' = (netStopped /\ ~connected) /\ UNCHANGED ctlFull
  /\ th' = [th EXCEPT ![t] = After(t)]
  /\ UNCHANGED <<queues, credits, connected, stop, bounds>>

----------------------------------------------------------------------------
(* Callers *)

\* ar6000_control_tx: while the control endpoint is full, commands are dropped.
ControlTx(t, x) ==
  /\ MayRun(t) /\ th[t].at = "idle" /\ pkt[x] = "free" /\ EpOf[x] = Control
  /\ ~ctlFull
  /\ pkt' = [pkt EXCEPT ![x] = "taken"]
  /\ th' = [th EXCEPT ![t] = [Idle EXCEPT !.at = "check", !.ep = EpOf[x], !.pkt = x]]
  /\ UNCHANGED <<q, hif, credits, flow, stop, bounds>>

\* ar6000_data_tx and HTCSendPkt: once HTC is stopping, the packet is only completed.
DataTx(x) ==
  /\ NetIdle /\ ~netStopped /\ pkt[x] = "free" /\ EpOf[x] # Control /\ stop = "no"
  /\ pkt' = [pkt EXCEPT ![x] = "taken"]
  /\ th' = [th EXCEPT !["net"] = [Idle EXCEPT !.at = "try", !.ep = EpOf[x], !.pkt = x]]
  /\ UNCHANGED <<q, hif, credits, flow, stop, bounds>>

\* HTCSendPkt: once HTC is stopping, the command is completed as cancelled.
Check(t) ==
  /\ MayRun(t) /\ th[t].at = "check"
  /\ IF stop = "no"
       THEN /\ th' = [th EXCEPT ![t].at = "try"] /\ UNCHANGED <<pkt, ctlFull>>
       ELSE /\ th' = [th EXCEPT ![t] = Idle]
            /\ pkt' = [pkt EXCEPT ![th[t].pkt] = "free"]
            /\ ctlFull' = FALSE
  /\ UNCHANGED <<q, hif, credits, netStopped, connected, stop, bounds>>

\* The I/O thread writes a packet to the target and completes it (ar6000_tx_complete).  A
\* packet the target has received holds its credits there.
IoDone ==
  /\ NetIdle /\ hif # << >>
  /\ LET x == Head(hif) IN
     /\ hif' = Tail(hif) /\ pkt' = [pkt EXCEPT ![x] = "free"]
     /\ ctlFull' = (ctlFull /\ EpOf[x] # Control)
     /\ \/ owed' = [owed EXCEPT ![EpOf[x]] = @ + Cost[x]] /\ UNCHANGED <<lost, fails>>
        \/ /\ Trouble /\ fails' = fails + 1
           /\ lost' = [lost EXCEPT ![EpOf[x]] = @ + Cost[x]] /\ owed' = owed
  /\ UNCHANGED <<q, cr, active, th, netStopped, connected, stop, acts, events>>

----------------------------------------------------------------------------
(* What the interrupt thread does *)

IrqReady == MayRun("irq") /\ th["irq"].at = "idle" /\ stop \in {"no", "flag"}

\* Mutant: the queues are looked at only when credits came for data.
WalkAfterData(rpt) == IF \E e \in Data : rpt[e] > 0 THEN Prio ELSE << >>

\* The list HTCCheckEndpointTxQueues walks.
Walk(rpt) == Prio

\* HTCProcessCreditRpt
Report(rpt) ==
  /\ IrqReady
  /\ \E e \in Eps : rpt[e] > 0
  /\ cr' = SendComplete(rpt)
  /\ owed' = [e \in Eps |-> owed[e] - rpt[e]]
  /\ th' = [th EXCEPT !["irq"] = IF Walk(rpt) = << >> THEN Idle
                                 ELSE [Idle EXCEPT !.at = "walk", !.walk = Walk(rpt)]]
  /\ UNCHANGED <<queues, lost, active, flow, stop, bounds>>

\* HTCCheckEndpointTxQueues, one endpoint: its depth is read without the lock.
WalkOn ==
  /\ MayRun("irq") /\ th["irq"].at = "walk"
  /\ LET e == Head(th["irq"].walk)
         rest == Tail(th["irq"].walk)
     IN  th' = [th EXCEPT !["irq"] =
                  IF q[e] # << >> THEN [Idle EXCEPT !.at = "try", !.ep = e, !.walk = rest]
                  ELSE IF rest # << >> THEN [Idle EXCEPT !.at = "walk", !.walk = rest]
                  ELSE Idle]
  /\ UNCHANGED <<queues, credits, flow, stop, bounds>>

\* HTCIndicateActivityChange
ActivityChange(e) ==
  /\ (\E t \in Procs : MayRun(t)) /\ Trouble /\ acts' = acts + 1
  /\ LET on == IF e \in active THEN active \ {e} ELSE active \cup {e}
     IN  active' = on /\ cr' = RedistributeCredits(on)
  /\ UNCHANGED <<queues, owed, lost, th, flow, stop, fails, events>>

\* Mutant: the packets of the last endpoint are completed and stay in its queue.
FlushForgets(es) ==
  /\ q' = [e \in Eps |-> IF e \in es \ {Last(Prio)} THEN << >> ELSE q[e]]
  /\ pkt' = [x \in Packets |-> IF pkt[x] = "queued" /\ EpOf[x] \in es THEN "free" ELSE pkt[x]]

\* HTCFlushEndpointTX for the endpoints of es: the packets are completed as cancelled.
Flush(es) ==
  /\ q' = [e \in Eps |-> IF e \in es THEN << >> ELSE q[e]]
  /\ pkt' = [x \in Packets |-> IF pkt[x] = "queued" /\ EpOf[x] \in es THEN "free" ELSE pkt[x]]

\* ar6000_disconnect_event and ar6000_connect_event, with ar6000_TxDataCleanup
Disconnect ==
  /\ IrqReady /\ connected /\ Trouble /\ events' = events + 1
  /\ connected' = FALSE /\ netStopped' = TRUE
  /\ Flush(Data)
  /\ UNCHANGED <<hif, credits, th, ctlFull, stop, fails, acts>>

Connect ==
  /\ IrqReady /\ ~connected
  /\ connected' = TRUE /\ netStopped' = FALSE
  /\ Flush(Data)
  /\ UNCHANGED <<hif, credits, th, ctlFull, stop, bounds>>

----------------------------------------------------------------------------
(* HTCStop *)

ProcTurn == NetIdle /\ th["irq"].at = "idle"

StopFlag ==
  /\ ProcTurn /\ Trouble /\ stop = "no" /\ stop' = "flag"
  /\ UNCHANGED <<queues, credits, th, flow, bounds>>

\* HIFMaskInterrupt waits for the interrupt thread, not for the I/O thread.
StopMask ==
  /\ ProcTurn /\ stop = "flag" /\ stop' = "masked"
  /\ UNCHANGED <<queues, credits, th, flow, bounds>>

StopFlush ==
  /\ ProcTurn /\ stop = "masked" /\ stop' = "done"
  /\ Flush(Eps)
  /\ ctlFull' = (ctlFull /\ q[Control] = << >>)
  /\ UNCHANGED <<hif, credits, th, netStopped, connected, bounds>>

----------------------------------------------------------------------------
Init ==
  /\ pkt = [x \in Packets |-> "free"] /\ q = [e \in Eps |-> << >>] /\ hif = << >>
  /\ cr = [tx |-> [e \in Eps |-> IF e = Control THEN PerMax ELSE 0],
           asg |-> [e \in Eps |-> IF e = Control THEN PerMax ELSE 0],
           free |-> Total - PerMax]
  /\ owed = [e \in Eps |-> 0] /\ lost = [e \in Eps |-> 0] /\ active = {Control}
  /\ th = [t \in Threads |-> Idle]
  /\ ctlFull = FALSE /\ netStopped = FALSE /\ connected = TRUE /\ stop = "no"
  /\ fails = 0 /\ acts = 0 /\ events = 0

Thread(t) == Try(t) \/ Issue(t) \/ Callback(t) \/ Check(t)
Reports == {r \in [Eps -> 0 .. Max(Range(owed))] : \A e \in Eps : r[e] <= owed[e]}
SomeReport == IrqReady /\ \E rpt \in Reports : Report(rpt)
Stop == StopFlag \/ StopMask \/ StopFlush

Next ==
  \/ \E t \in Threads : Thread(t)
  \/ \E t \in Procs, x \in Packets : ControlTx(t, x)
  \/ \E x \in Packets : DataTx(x)
  \/ IoDone \/ SomeReport \/ WalkOn
  \/ \E e \in Data : ActivityChange(e)
  \/ Disconnect \/ Connect \/ Stop

Spec == Init /\ [][Next]_vars

ControlReport ==
  /\ IrqReady /\ owed[Control] > 0
  /\ \E rpt \in Reports : rpt[Control] > 0 /\ Report(rpt)

\* The CPU does not idle while the network stack, the interrupt thread or the I/O thread
\* has work, whichever it runs; the target gives back the control credits it holds.  Nothing
\* is asked of processes, of data credits or of connections.
KernelWork == Thread("net") \/ Thread("irq") \/ WalkOn \/ IoDone

FairSpec == Spec /\ WF_vars(KernelWork) /\ SF_vars(ControlReport)

----------------------------------------------------------------------------
(* Properties *)

Quiet == \A t \in Threads : th[t].at = "idle"

\* The types of the variables; and a packet is in one place, once: the queue of its
\* endpoint, the hands of one thread, or the queue of the I/O thread, however senders, the
\* walk over the queues, errors and flushes interleave.  So it is completed once, and its
\* cookie is not given to two owners.
TypeOK ==
  /\ pkt \in [Packets -> {"free", "queued", "taken", "hif"}]
  /\ \A e \in Eps : IsInjective(q[e]) /\ \A i \in DOMAIN q[e] : EpOf[q[e][i]] = e
  /\ cr.tx \in [Eps -> 0 .. Total] /\ cr.asg \in [Eps -> 0 .. Total] /\ cr.free \in 0 .. Total
  /\ owed \in [Eps -> 0 .. Total] /\ lost \in [Eps -> 0 .. Total]
  /\ active \subseteq Eps /\ Control \in active
  /\ \A t \in Threads : /\ th[t].at \in {"idle", "check", "try", "issue", "full", "avail", "walk"}
                        /\ th[t].ep \in Eps \cup {None} /\ th[t].pkt \in Packets \cup {None}
  /\ {ctlFull, netStopped, connected} \subseteq BOOLEAN
  /\ stop \in {"no", "flag", "masked", "done"}
  /\ {fails, acts, events} \subseteq 0 .. MaxTroubles
  /\ \A x \in Packets :
       /\ pkt[x] = "queued" <=> x \in Range(q[EpOf[x]])
       /\ pkt[x] = "hif" <=> x \in Range(hif)
       /\ Cardinality({t \in Threads : th[t].pkt = x}) = IF pkt[x] = "taken" THEN 1 ELSE 0

\* The credits of packets that have been paid for and have not reached the target.
UnderWay(e) ==
  SumFunctionOnSet(Cost,
    {x \in Packets : EpOf[x] = e /\ (pkt[x] = "hif" \/
                       \E t \in Threads : th[t].at = "issue" /\ th[t].pkt = x)})
Held(e) == cr.tx[e] + owed[e] + UnderWay(e) + lost[e]

\* No step of the distribution makes or loses a credit (credit_dist.c asserts that the
\* free ones never exceed the total), however giving, taking back and clipping interleave
\* with packets on their way; and what an endpoint has been assigned it has: at hand, on
\* the way, at the target, or lost with a failed request.
CreditsConserved ==
  /\ cr.free + SumFunctionOnSet([e \in Eps |-> Held(e)], Eps) = Total
  /\ \A e \in Eps : cr.tx[e] <= cr.asg[e] /\ cr.asg[e] <= Held(e)

\* When no thread is at work, a waiting packet waits for a reason: its endpoint has too
\* few credits, and, unless a change of activity has freed some, a data endpoint has
\* found the free pool empty.
NotStranded ==
  Quiet /\ stop = "no" =>
    \A e \in Eps : q[e] # << >> =>
      /\ cr.tx[e] < Cost[Head(q[e])]
      /\ e # Control /\ acts = 0 => cr.free = 0

\* A command in the queue of the control endpoint leaves it, whatever the data endpoints
\* do: unless HTC stops, or a failed request has taken control credits away for good.
ControlServed ==
  \A x \in Packets :
    (pkt[x] = "queued" /\ EpOf[x] = Control)
      ~> (pkt[x] # "queued" \/ stop # "no" \/ lost[Control] > 0)

\* ar6000_tx_queue_full says of a stopped network queue that "the queue will resume after
\* credits received".
NetResumes == (netStopped /\ connected) ~> (~netStopped \/ ~connected \/ stop # "no")

\* ar6000_tx_complete says of the control endpoint that it is no longer full once a packet
\* has completed.
FullHasPending ==
  ctlFull /\ Quiet /\ stop = "no" => \E x \in Packets : EpOf[x] = Control /\ pkt[x] # "free"

\* HTCStop says that once interrupts are masked "all pending HIF I/O has completed".
MaskedIsQuiet == stop \in {"masked", "done"} => hif = << >>
=============================================================================
