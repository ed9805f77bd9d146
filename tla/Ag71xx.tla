------------------------------- MODULE Ag71xx -------------------------------
(***************************************************************************)
(* The ag71xx Ethernet driver (ag71xx_main.c, ag71xx_phy.c) with the MAC    *)
(* it drives.                                                              *)
(*                                                                         *)
(* The targets have one CPU and a kernel without preemption.  Software      *)
(* interrupts (the NAPI poll, the timer, a transmission) run one at a time  *)
(* and to the end; the work queue runs when none does; the interrupt        *)
(* handler and the MAC run at any time.  A poll is therefore split where it *)
(* reads or writes a register that the MAC or the handler changes.         *)
(*                                                                         *)
(* A ring is what ag71xx_ring holds: two counters that wrap, curr and       *)
(* dirty, and per slot whether the descriptor is EMPTY and whether there is *)
(* a buffer.  Frames have no content here.  stage says how far a restart    *)
(* (ag71xx_stop, then ag71xx_open) has come.  fatal says that the driver    *)
(* met its own assertion, lost its rings, used rings it had freed or put a   *)
(* packet over another; the model stops there.                             *)
(***************************************************************************)
EXTENDS Naturals, FiniteSetsExt

CONSTANTS
  TxSize, RxSize,  \* ring sizes
  Wrap,            \* counters are unsigned integers modulo Wrap
  Weight,          \* AG71XX_NAPI_WEIGHT
  FixedLink,       \* no PHY to wait for
  MaxFails,        \* bound: allocations that fail
  MaxDrops         \* bound: times the link goes down

ASSUME Ag71xxAssumption ==
  /\ TxSize \in Nat \ {0} /\ RxSize \in Nat \ {0} /\ Weight \in Nat \ {0}
  /\ Wrap \in Nat \ {0} /\ TxSize < Wrap /\ RxSize < Wrap
  /\ FixedLink \in BOOLEAN /\ MaxFails \in Nat /\ MaxDrops \in Nat

VARIABLES
  tx, rx,          \* ag->tx_ring, ag->rx_ring: [curr, dirty, empty, buf]
  rings,           \* the rings are allocated
  mac,             \* the registers: interrupts enabled, engines on, packets received and
                   \* sent, overflow, at the rings (or at stop_desc), current descriptors
  napi,            \* NAPI_STATE_SCHED: "idle", "sched", or "disabled"
  poll,            \* where ag71xx_poll is: [at, done]
  oom,             \* oom_timer is pending
  stopped,         \* the queue is stopped: netif_stop_queue
  link,            \* ag->link
  stage,           \* of the restart work
  woken,           \* a poll has woken the queue that ag71xx_stop had stopped
  fatal, fails, drops

vars == <<tx, rx, rings, mac, napi, poll, oom, stopped, link, stage, woken, fatal, fails, drops>>

----------------------------------------------------------------------------
(* Rings and registers *)

Slots(size) == 0 .. size - 1
Used(r) == (r.curr + Wrap - r.dirty) % Wrap
Nth(r, k, size) == ((r.dirty + k) % Wrap) % size
Window(r, size) == {Nth(r, k, size) : k \in 0 .. Used(r) - 1}

FreshTx == [curr |-> 0, dirty |-> 0,
            empty |-> [i \in Slots(TxSize) |-> TRUE], buf |-> [i \in Slots(TxSize) |-> FALSE]]
FreshRx == [curr |-> 0, dirty |-> 0,
            empty |-> [i \in Slots(RxSize) |-> TRUE], buf |-> [i \in Slots(RxSize) |-> TRUE]]
NoPoll == [at |-> "off", done |-> 0]

\* Mutant: the reset leaves the counts of packets received and sent.
DmaResetKeeps(m) == [m EXCEPT !.rxOn = FALSE, !.txOn = FALSE, !.atRings = FALSE,
                              !.rxPos = 0, !.txPos = 0]

\* ag71xx_hw_stop, ag71xx_dma_reset, ag71xx_hw_start
HwStop(m) == [m EXCEPT !.int = FALSE, !.rxOn = FALSE, !.txOn = FALSE]
DmaReset(m) == [m EXCEPT !.rxOn = FALSE, !.txOn = FALSE, !.atRings = FALSE,
                         !.rxPos = 0, !.txPos = 0, !.pr = 0, !.ps = 0, !.of = FALSE]
HwStart(m) == [m EXCEPT !.rxOn = TRUE, !.int = TRUE]

\* Something the poll interrupts report.
Asserted == mac.pr > 0 \/ mac.ps > 0 \/ mac.of

\* napi_schedule; while napi_disable waits it has no effect.
Scheduled == IF napi = "idle" /\ stage # "drain" THEN "sched" ELSE napi

----------------------------------------------------------------------------
(* The MAC *)

\* It takes a full descriptor, sends, marks it empty, counts; at an empty one it stops.
MacSend ==
  /\ mac.txOn /\ mac.atRings
  /\ IF tx.empty[mac.txPos]
       THEN mac' = [mac EXCEPT !.txOn = FALSE] /\ tx' = tx
       ELSE /\ tx' = [tx EXCEPT !.empty[mac.txPos] = TRUE]
            /\ mac' = [mac EXCEPT !.ps = @ + 1, !.txPos = (@ + 1) % TxSize]
  /\ UNCHANGED <<rx, rings, napi, poll, oom, stopped, link, stage, woken, fatal, fails, drops>>

\* A frame arrives; with no empty descriptor the MAC reports an overflow and stops.
MacReceive ==
  /\ link /\ mac.rxOn
  /\ IF ~mac.atRings \/ ~rx.empty[mac.rxPos]
       THEN mac' = [mac EXCEPT !.of = TRUE, !.rxOn = FALSE] /\ rx' = rx
       ELSE /\ rx' = [rx EXCEPT !.empty[mac.rxPos] = FALSE]
            /\ mac' = [mac EXCEPT !.pr = @ + 1, !.rxPos = (@ + 1) % RxSize]
  /\ UNCHANGED <<tx, rings, napi, poll, oom, stopped, link, stage, woken, fatal, fails, drops>>

\* ag71xx_interrupt
Interrupt ==
  /\ mac.int /\ Asserted
  /\ mac' = [mac EXCEPT !.int = FALSE]
  /\ napi' = Scheduled
  /\ UNCHANGED <<tx, rx, rings, poll, oom, stopped, link, stage, woken, fatal, fails, drops>>

----------------------------------------------------------------------------
(* Transmission *)

\* Mutant: the queue is not stopped when the ring is full.
NowFullNever(t) == FALSE

NowFull(t) == Used(t) = TxSize

\* ag71xx_hard_start_xmit
Xmit ==
  /\ poll.at = "off" /\ ~stopped
  /\ LET i == tx.curr % TxSize
         sent == [tx EXCEPT !.curr = (@ + 1) % Wrap, !.empty[i] = FALSE, !.buf[i] = TRUE]
     IN  \/ /\ ~rings
            /\ fatal' = "freed rings" /\ UNCHANGED <<tx, mac, stopped>>
         \/ /\ rings /\ tx.empty[i] /\ tx.buf[i]
            /\ fatal' = "lost packet" /\ UNCHANGED <<tx, mac, stopped>>
         \/ /\ rings /\ tx.empty[i] /\ ~tx.buf[i]
            /\ tx' = sent
            /\ stopped' = NowFull(sent)
            /\ mac' = [mac EXCEPT !.txOn = TRUE]
            /\ fatal' = fatal
  /\ UNCHANGED <<rx, rings, napi, poll, oom, link, stage, woken, fails, drops>>

----------------------------------------------------------------------------
(* ag71xx_poll *)

\* ag71xx_tx_packets: the sent packets, oldest first.
Reaped == Max({k \in 0 .. Used(tx) : \A j \in 0 .. k - 1 : tx.empty[Nth(tx, j, TxSize)]})

\* Mutant: a full ring that is emptied half way does not wake the queue.
WakesNever(t) == FALSE

Wakes(t) == Used(t) < (TxSize * 3) \div 4

PollTx ==
  /\ poll.at = "off" /\ napi = "sched"
  /\ LET n == Reaped
         gone == {Nth(tx, k, TxSize) : k \in 0 .. n - 1}
         t == [tx EXCEPT !.dirty = (@ + n) % Wrap,
                         !.buf = [i \in Slots(TxSize) |-> @[i] /\ i \notin gone]]
     IN  /\ tx' = t
         /\ mac' = [mac EXCEPT !.ps = IF @ >= n THEN @ - n ELSE 0]
         /\ stopped' = (stopped /\ ~(n > 0 /\ Wakes(t)))
         /\ woken' = (woken \/ (stage = "drain" /\ n > 0 /\ Wakes(t)))
  /\ poll' = [at |-> "rx", done |-> 0]
  /\ UNCHANGED <<rx, rings, napi, oom, link, stage, fatal, fails, drops>>

\* The frames ag71xx_rx_packets takes, and its assertion: it meets a full descriptor
\* with every buffer of the ring taken and none put back.
At(k) == Nth(rx, Used(rx) + k, RxSize)
Found == Max({k \in 0 .. Weight :
                Used(rx) + k <= RxSize /\ \A j \in 0 .. k - 1 : ~rx.empty[At(j)]})
Overrun == Found < Weight /\ Used(rx) + Found = RxSize /\ ~rx.empty[At(Found)]

\* Mutant: a descriptor is handed to the MAC before it has a buffer.
RefilledEarly(r, k) ==
  LET back == {Nth(r, j, RxSize) : j \in 0 .. k - 1}
      next == IF k < Used(r) THEN {Nth(r, k, RxSize)} ELSE {}
  IN  [r EXCEPT !.dirty = (@ + k) % Wrap,
                !.buf = [i \in Slots(RxSize) |-> @[i] \/ i \in back],
                !.empty = [i \in Slots(RxSize) |-> @[i] \/ i \in back \cup next]]

\* ag71xx_ring_rx_refill, with memory for k buffers.
Refilled(r, k) ==
  LET back == {Nth(r, j, RxSize) : j \in 0 .. k - 1}
  IN  [r EXCEPT !.dirty = (@ + k) % Wrap,
                !.buf = [i \in Slots(RxSize) |-> @[i] \/ i \in back],
                !.empty = [i \in Slots(RxSize) |-> @[i] \/ i \in back]]

\* Mutant: out of memory, the poll ends without a timer.
OutOfMemoryForgets == napi' = "idle" /\ oom' = oom

\* The end of a poll without memory.
OutOfMemory == napi' = "idle" /\ oom' = TRUE

PollRx ==
  /\ poll.at = "rx"
  /\ LET n == Found
         taken == {At(k) : k \in 0 .. n - 1}
         r == [rx EXCEPT !.curr = (@ + n) % Wrap,
                         !.buf = [i \in Slots(RxSize) |-> @[i] /\ i \notin taken]]
     IN  IF Overrun
           THEN fatal' = "assertion" /\ UNCHANGED <<rx, mac, napi, poll, oom, fails>>
           ELSE \E k \in 0 .. Used(r) :
                  /\ k < Used(r) => fails < MaxFails
                  /\ fails' = IF k < Used(r) THEN fails + 1 ELSE fails
                  /\ rx' = Refilled(r, k)
                  /\ mac' = [mac EXCEPT !.pr = IF @ >= n THEN @ - n ELSE 0]
                  /\ IF k < Used(r) THEN OutOfMemory /\ poll' = NoPoll
                     ELSE poll' = [at |-> "status", done |-> n] /\ UNCHANGED <<napi, oom>>
                  /\ fatal' = fatal
  /\ UNCHANGED <<tx, rings, stopped, link, stage, woken, drops>>

\* Mutant: the overflow is cleared and the receiver stays off.
RxRestartedNot(m) == [m EXCEPT !.of = FALSE]

RxRestarted(m) == [m EXCEPT !.of = FALSE, !.rxOn = TRUE]

\* RX_STATUS: an overflow stopped the receiver; more frames keep the poll going, except
\* that the kernel ends a poll of full weight while napi_disable waits.
PollStatus ==
  /\ poll.at = "status"
  /\ mac' = IF mac.of THEN RxRestarted(mac) ELSE mac
  /\ poll' = IF poll.done < Weight /\ mac.pr = 0 THEN [poll EXCEPT !.at = "sent"] ELSE NoPoll
  /\ napi' = IF poll.done = Weight /\ stage = "drain" THEN "idle" ELSE napi
  /\ UNCHANGED <<tx, rx, rings, oom, stopped, link, stage, woken, fatal, fails, drops>>

\* TX_STATUS, and napi_complete.
PollSent ==
  /\ poll.at = "sent"
  /\ IF mac.ps > 0 THEN poll' = NoPoll /\ napi' = napi
     ELSE poll' = [poll EXCEPT !.at = "enable"] /\ napi' = "idle"
  /\ UNCHANGED <<tx, rx, rings, mac, oom, stopped, link, stage, woken, fatal, fails, drops>>

PollEnable ==
  /\ poll.at = "enable"
  /\ mac' = [mac EXCEPT !.int = TRUE]
  /\ poll' = NoPoll
  /\ UNCHANGED <<tx, rx, rings, napi, oom, stopped, link, stage, woken, fatal, fails, drops>>

\* ag71xx_oom_timer_handler
OomTimer ==
  /\ oom /\ poll.at = "off"
  /\ oom' = FALSE /\ napi' = Scheduled
  /\ UNCHANGED <<tx, rx, rings, mac, poll, stopped, link, stage, woken, fatal, fails, drops>>

----------------------------------------------------------------------------
(* The link, the watchdog and the restart.  All run in processes. *)

Process == poll.at = "off"
PhyRuns == stage \in {"none", "queued", "desc", "start"}

\* ag71xx_link_adjust
LinkDown ==
  /\ Process /\ PhyRuns /\ ~FixedLink /\ link /\ drops < MaxDrops
  /\ drops' = drops + 1
  /\ link' = FALSE /\ mac' = HwStop(mac)
  /\ UNCHANGED <<tx, rx, rings, napi, poll, oom, stopped, stage, woken, fatal, fails>>

LinkUp ==
  /\ Process /\ PhyRuns /\ ~FixedLink /\ ~link
  /\ link' = TRUE /\ mac' = HwStart(mac)
  /\ UNCHANGED <<tx, rx, rings, napi, poll, oom, stopped, stage, woken, fatal, fails, drops>>

\* The kernel's watchdog finds the queue stopped: ag71xx_tx_timeout queues the restart.
Watchdog ==
  /\ poll.at = "off" /\ link /\ stopped /\ stage = "none"
  /\ stage' = "queued"
  /\ UNCHANGED <<tx, rx, rings, mac, napi, poll, oom, stopped, link, woken, fatal, fails, drops>>

\* ag71xx_stop
StopPhy ==
  /\ Process /\ stage = "queued"
  /\ stage' = "reset"
  /\ link' = FALSE /\ mac' = IF link THEN HwStop(mac) ELSE mac
  /\ UNCHANGED <<tx, rx, rings, napi, poll, oom, stopped, woken, fatal, fails, drops>>

StopMac ==
  /\ Process /\ stage = "reset"
  /\ stage' = "drain"
  /\ stopped' = TRUE /\ mac' = DmaReset(HwStop(mac))
  /\ UNCHANGED <<tx, rx, rings, napi, poll, oom, link, woken, fatal, fails, drops>>

\* napi_disable returns when no poll is scheduled; then del_timer_sync.
StopNapi ==
  /\ Process /\ stage = "drain" /\ napi = "idle"
  /\ stage' = "clean"
  /\ napi' = "disabled" /\ oom' = FALSE
  /\ UNCHANGED <<tx, rx, rings, mac, poll, stopped, link, woken, fatal, fails, drops>>

\* ag71xx_rings_cleanup
StopRings ==
  /\ Process /\ stage = "clean"
  /\ stage' = "open"
  /\ rings' = FALSE /\ tx' = FreshTx /\ rx' = FreshRx
  /\ UNCHANGED <<mac, napi, poll, oom, stopped, link, woken, fatal, fails, drops>>

\* ag71xx_open; ag71xx_restart_work_func does not look at its result.
OpenRings ==
  /\ Process /\ stage = "open"
  /\ \/ rings' = TRUE /\ napi' = "idle" /\ stage' = "phy" /\ UNCHANGED <<fatal, fails>>
     \/ /\ fails < MaxFails /\ fails' = fails + 1
        /\ fatal' = "no rings" /\ UNCHANGED <<rings, napi, stage>>
  /\ UNCHANGED <<tx, rx, mac, poll, oom, stopped, link, woken, drops>>

OpenPhy ==
  /\ Process /\ stage = "phy"
  /\ stage' = "desc"
  /\ IF FixedLink THEN link' = TRUE /\ mac' = HwStart(mac) ELSE UNCHANGED <<link, mac>>
  /\ UNCHANGED <<tx, rx, rings, napi, poll, oom, stopped, woken, fatal, fails, drops>>

OpenDesc ==
  /\ Process /\ stage = "desc"
  /\ stage' = "start"
  /\ mac' = [mac EXCEPT !.atRings = TRUE]
  /\ UNCHANGED <<tx, rx, rings, napi, poll, oom, stopped, link, woken, fatal, fails, drops>>

\* Mutant: the queue is left as the stop left it.
QueueStartedNot == stopped' = stopped

QueueStarted == stopped' = FALSE

OpenQueue ==
  /\ Process /\ stage = "start"
  /\ stage' = "none" /\ QueueStarted
  /\ UNCHANGED <<tx, rx, rings, mac, napi, poll, oom, link, woken, fatal, fails, drops>>

Restart == StopPhy \/ StopMac \/ StopNapi \/ StopRings
           \/ OpenRings \/ OpenPhy \/ OpenDesc \/ OpenQueue

----------------------------------------------------------------------------
Init ==
  /\ tx = FreshTx /\ rx = FreshRx /\ rings = TRUE
  /\ mac = [int |-> TRUE, rxOn |-> TRUE, txOn |-> FALSE, pr |-> 0, ps |-> 0, of |-> FALSE,
            atRings |-> TRUE, rxPos |-> 0, txPos |-> 0]
  /\ napi = "idle" /\ poll = NoPoll /\ oom = FALSE /\ stopped = FALSE
  /\ link = TRUE /\ stage = "none" /\ woken = FALSE /\ fatal = "none" /\ fails = 0 /\ drops = 0

Polls == PollTx \/ PollRx \/ PollStatus \/ PollSent \/ PollEnable
Next ==
  /\ fatal = "none"
  /\ \/ MacSend \/ MacReceive \/ Interrupt \/ Xmit \/ Polls \/ OomTimer
     \/ LinkDown \/ LinkUp \/ Watchdog \/ Restart

Spec == Init /\ [][Next]_vars

\* The MAC sends, interrupts are taken, software interrupts, the timer and the work queue
\* run, the kernel calls the watchdog while a queue stays stopped and the carrier is on,
\* and the link comes back.  A flood of frames keeps the poll busy but leaves the others
\* their turn between polls (ksoftirqd is a process like them): strong fairness.  Nothing makes the network send frames or the stack packets.
Runs(A) == fatal = "none" /\ A
FairSpec ==
  /\ Spec
  /\ WF_vars(Runs(MacSend)) /\ WF_vars(Runs(Interrupt))
  /\ WF_vars(Runs(Polls)) /\ SF_vars(Runs(OomTimer))
  /\ SF_vars(Runs(Watchdog)) /\ SF_vars(Runs(LinkUp)) /\ SF_vars(Runs(Restart))

----------------------------------------------------------------------------
(* Properties *)

RingType(size) == [curr : 0 .. Wrap - 1, dirty : 0 .. Wrap - 1,
                   empty : [Slots(size) -> BOOLEAN], buf : [Slots(size) -> BOOLEAN]]
MacType == [int : BOOLEAN, rxOn : BOOLEAN, txOn : BOOLEAN, pr : Nat, ps : Nat,
            of : BOOLEAN, atRings : BOOLEAN, rxPos : Slots(RxSize), txPos : Slots(TxSize)]

\* The types of the variables.  The counts of packets stay within the rings.
TypeOK ==
  /\ tx \in RingType(TxSize) /\ rx \in RingType(RxSize) /\ rings \in BOOLEAN
  /\ mac \in MacType /\ mac.pr <= RxSize /\ mac.ps <= TxSize
  /\ napi \in {"idle", "sched", "disabled"}
  /\ poll \in [at : {"off", "rx", "status", "sent", "enable"}, done : 0 .. Weight]
  /\ oom \in BOOLEAN /\ stopped \in BOOLEAN /\ link \in BOOLEAN /\ woken \in BOOLEAN
  /\ stage \in {"none", "queued", "reset", "drain", "clean", "open", "phy", "desc", "start"}
  /\ fatal \in {"none", "assertion", "freed rings", "lost packet", "no rings"}
  /\ fails \in 0 .. MaxFails /\ drops \in 0 .. MaxDrops

\* ag71xx_hard_start_xmit never puts a packet where one waits to be freed, and
\* ag71xx_tx_packets frees each packet once: the slots that hold a packet are those from
\* dirty to curr, and while the queue runs there is room for one more.  (The room is not
\* promised after a poll that napi_disable waits for has woken the queue.)
TxWindow ==
  fatal = "none" =>
    /\ Used(tx) <= TxSize
    /\ \A i \in Slots(TxSize) : tx.buf[i] <=> i \in Window(tx, TxSize)
    /\ ~stopped /\ ~woken => Used(tx) < TxSize

\* The MAC never writes through a descriptor without a buffer, also when the refill runs
\* out of memory half way: the slots without one are those from dirty to curr, and none
\* of them is EMPTY.  The driver takes the frames in the order the MAC fills the ring, and
\* has as many before it as RX_STATUS counts.
RxWindow ==
  fatal = "none" =>
    /\ Used(rx) <= RxSize
    /\ \A i \in Slots(RxSize) : ~rx.buf[i] <=> i \in Window(rx, RxSize)
    /\ \A i \in Slots(RxSize) : rx.empty[i] => rx.buf[i]
    /\ mac.atRings => mac.rxPos = (rx.curr + mac.pr) % RxSize

\* The handler turns the interrupts off and the poll turns them on, leaves them to the
\* next poll, or leaves the next poll to the timer: with the link up, one of the three is
\* always pending, whatever restart, link change or lack of memory comes between.
WorkWatched ==
  link => mac.int \/ napi = "sched" \/ poll.at = "enable" \/ oom

\* Only ag71xx_tx_packets wakes a queue that a full ring has stopped, and only when it
\* frees packets: except during a restart, a stopped queue has packets in the ring.
NotStoppedEmpty ==
  stopped /\ stage \in {"none", "queued"} /\ fatal = "none" => Used(tx) > 0

\* A queue stopped by a full ring is started again, by the poll that frees its packets,
\* or, when the MAC was stopped with packets in the ring (ag71xx_link_adjust) and nothing
\* starts its transmitter, by the watchdog and the restart.
QueueResumes == stopped ~> (~stopped \/ fatal # "none")

\* A receiver that the MAC stopped on an overflow is started again by a poll, unless the
\* link goes down or the driver fails: no lost interrupt or failed allocation leaves the
\* driver deaf.
ReceiverRestarts == (link /\ ~mac.rxOn) ~> (mac.rxOn \/ ~link \/ fatal # "none")

\* ag71xx_assert(0) in ag71xx_rx_packets states that a poll never meets a full descriptor
\* with the whole ring waiting for buffers.
NoAssertion == fatal # "assertion"
=============================================================================
