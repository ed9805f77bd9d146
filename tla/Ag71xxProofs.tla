---------------------------- MODULE Ag71xxProofs ----------------------------
(***************************************************************************)
(* Proofs about Ag71xx for every size of the rings, every weight, any      *)
(* width of the counters and any number of link changes and failed         *)
(* allocations.                                                            *)
(*                                                                         *)
(* With the link up the driver is never without a source of work.          *)
(* WorkWatched alone is not inductive: that the handler schedules a poll   *)
(* when it turns the interrupts off depends on NAPI not being disabled,    *)
(* and that is so because the link is down all the time it is (WatchInv).  *)
(*                                                                         *)
(* The driver and the MAC agree on which slots of the rings hold a packet, *)
(* a frame or a buffer, whatever restart, link change or lack of memory    *)
(* comes between, if the sizes divide the range of the counters.           *)
(* The windows are not inductive alone: where the MAC is, and how many     *)
(* packets it has counted, say which descriptors are EMPTY (TxMac, RxMac), *)
(* and how far a restart has come says whether the MAC is at the rings     *)
(* (Stages) and the transmit ring has room (Room).  RingInv counts slots   *)
(* from dirty on, as the driver does, and not by their index.              *)
(***************************************************************************)
EXTENDS Ag71xx, NatLemmas

----------------------------------------------------------------------------
(* A source of work *)

\* A poll that has begun and not ended is scheduled.
PollScheduled == poll.at \in {"rx", "status", "sent"} => napi = "sched"

\* NAPI is disabled only between ag71xx_stop and ag71xx_open, and the link is down from
\* ag71xx_phy_stop to ag71xx_phy_start.
RestartIsDark ==
  /\ napi = "disabled" => stage \in {"clean", "open"}
  /\ stage \in {"reset", "drain", "clean", "open", "phy"} => ~link

\* What the registers, the poll and NAPI can be.
Shape ==
  /\ DOMAIN mac = {"int", "rxOn", "txOn", "pr", "ps", "of", "atRings", "rxPos", "txPos"}
  /\ DOMAIN poll = {"at", "done"}
  /\ mac.int \in BOOLEAN /\ link \in BOOLEAN
  /\ napi \in {"idle", "sched", "disabled"}

\* The invariant.
WatchInv == Shape /\ PollScheduled /\ RestartIsDark /\ WorkWatched

\* At first the link is up and the interrupts are on.
LEMMA InitWatchInv == Init => WatchInv
  BY DEF Init, WatchInv, Shape, PollScheduled, RestartIsDark, WorkWatched, NoPoll

\* The MAC changes counts and engines, not the interrupt enable.
LEMMA MacKeepsWatch == WatchInv /\ (MacSend \/ MacReceive) => WatchInv'
  <1>. SUFFICES ASSUME WatchInv, MacSend \/ MacReceive PROVE WatchInv'
    OBVIOUS
  <1>. USE DEF WatchInv, Shape, PollScheduled, RestartIsDark, WorkWatched
  <1>1. CASE MacSend
    BY <1>1 DEF MacSend
  <1>2. CASE MacReceive
    BY <1>2 DEF MacReceive
  <1>. QED
    BY <1>1, <1>2

\* napi_schedule schedules a poll whenever the link is up.
LEMMA SchedulesWhenUp ==
  ASSUME WatchInv
  PROVE  /\ Scheduled \in {"idle", "sched", "disabled"}
         /\ link => Scheduled = "sched"
         /\ napi = "sched" => Scheduled = "sched"
         /\ Scheduled = "disabled" => napi = "disabled"
  BY DEF WatchInv, Shape, RestartIsDark, Scheduled

\* The handler turns the interrupts off and schedules; so does the timer.
LEMMA SchedulersKeepWatch == WatchInv /\ (Interrupt \/ OomTimer) => WatchInv'
  <1>. SUFFICES ASSUME WatchInv, Interrupt \/ OomTimer PROVE WatchInv'
    OBVIOUS
  <1>. USE SchedulesWhenUp DEF WatchInv, Shape, PollScheduled, RestartIsDark, WorkWatched
  <1>1. CASE Interrupt
    BY <1>1 DEF Interrupt
  <1>2. CASE OomTimer
    BY <1>2 DEF OomTimer
  <1>. QED
    BY <1>1, <1>2

\* A packet is put: the MAC runs, and no source of work goes.
LEMMA XmitKeepsWatch == WatchInv /\ Xmit => WatchInv'
  <1>. SUFFICES ASSUME WatchInv, Xmit PROVE WatchInv'
    OBVIOUS
  <1>1. mac' = mac \/ mac' = [mac EXCEPT !.txOn = TRUE]
    BY DEF Xmit
  <1>2. UNCHANGED <<napi, poll, oom, link, stage>>
    BY DEF Xmit
  <1>. QED
    BY <1>1, <1>2 DEF WatchInv, Shape, PollScheduled, RestartIsDark, WorkWatched

\* The poll ends only by turning the interrupts on or arming the timer.
LEMMA PollKeepsWatch == WatchInv /\ Polls => WatchInv'
  <1>. SUFFICES ASSUME WatchInv, Polls PROVE WatchInv'
    OBVIOUS
  <1>. USE DEF WatchInv, Shape, PollScheduled, RestartIsDark, WorkWatched
  <1>1. CASE PollTx
    <2>1. \E n : mac' = [mac EXCEPT !.ps = n]
      BY <1>1 DEF PollTx
    <2>. QED
      BY <1>1, <2>1 DEF PollTx
  <1>2. CASE PollRx
    <2>1. mac' = mac \/ \E n : mac' = [mac EXCEPT !.pr = n]
      BY <1>2 DEF PollRx
    <2>2. \/ UNCHANGED <<napi, poll, oom>>
          \/ napi' = "idle" /\ oom' = TRUE /\ poll' = NoPoll
          \/ UNCHANGED <<napi, oom>> /\ \E n : poll' = [at |-> "status", done |-> n]
      BY <1>2 DEF PollRx, OutOfMemory
    <2>3. poll.at = "rx" /\ UNCHANGED <<link, stage>>
      BY <1>2 DEF PollRx
    <2>. QED
      BY <2>1, <2>2, <2>3 DEF NoPoll
  <1>3. CASE PollStatus
    BY <1>3, Ag71xxAssumption DEF PollStatus, NoPoll, RxRestarted
  <1>4. CASE PollSent
    BY <1>4 DEF PollSent, NoPoll
  <1>5. CASE PollEnable
    BY <1>5 DEF PollEnable, NoPoll
  <1>. QED
    BY <1>1, <1>2, <1>3, <1>4, <1>5 DEF Polls

\* A link that comes up turns the interrupts on.
LEMMA LinkKeepsWatch == WatchInv /\ (LinkDown \/ LinkUp \/ Watchdog) => WatchInv'
  <1>. SUFFICES ASSUME WatchInv, LinkDown \/ LinkUp \/ Watchdog PROVE WatchInv'
    OBVIOUS
  <1>. USE DEF WatchInv, Shape, PollScheduled, RestartIsDark, WorkWatched
  <1>1. CASE LinkDown
    BY <1>1 DEF LinkDown, HwStop
  <1>2. CASE LinkUp
    BY <1>2 DEF LinkUp, HwStart, PhyRuns
  <1>3. CASE Watchdog
    BY <1>3 DEF Watchdog
  <1>. QED
    BY <1>1, <1>2, <1>3

\* A restart, with the link down while NAPI is disabled.
LEMMA RestartKeepsWatch == WatchInv /\ Restart => WatchInv'
  <1>. SUFFICES ASSUME WatchInv, Restart PROVE WatchInv'
    OBVIOUS
  <1>. USE DEF WatchInv, Shape, PollScheduled, RestartIsDark, WorkWatched, Process
  <1>1. CASE StopPhy
    BY <1>1 DEF StopPhy, HwStop
  <1>2. CASE StopMac
    BY <1>2 DEF StopMac, HwStop, DmaReset
  <1>3. CASE StopNapi
    BY <1>3 DEF StopNapi
  <1>4. CASE StopRings
    BY <1>4 DEF StopRings
  <1>5. CASE OpenRings
    BY <1>5 DEF OpenRings
  <1>6. CASE OpenPhy
    BY <1>6 DEF OpenPhy, HwStart
  <1>7. CASE OpenDesc
    BY <1>7 DEF OpenDesc
  <1>8. CASE OpenQueue
    BY <1>8 DEF OpenQueue
  <1>. QED
    BY <1>1, <1>2, <1>3, <1>4, <1>5, <1>6, <1>7, <1>8 DEF Restart

\* Whenever the link is up, the interrupts are on, a poll is scheduled or about to turn
\* them on, or the timer is pending, for every instance of the driver.
THEOREM WorkIsWatched == Spec => []WorkWatched
  <1>1. WatchInv /\ [Next]_vars => WatchInv'
    <2>. SUFFICES ASSUME WatchInv, [Next]_vars PROVE WatchInv'
      OBVIOUS
    <2>1. CASE Next
      BY <2>1, MacKeepsWatch, SchedulersKeepWatch, XmitKeepsWatch, PollKeepsWatch, LinkKeepsWatch, RestartKeepsWatch DEF Next
    <2>2. CASE UNCHANGED vars
      BY <2>2 DEF vars, WatchInv, Shape, PollScheduled, RestartIsDark, WorkWatched
    <2>. QED
      BY <2>1, <2>2
  <1>2. WatchInv => WorkWatched
    BY DEF WatchInv
  <1>. QED
    BY InitWatchInv, <1>1, <1>2, PTL DEF Spec

----------------------------------------------------------------------------
(* The rings *)

\* The sizes divide the range of the counters: the driver's own do, 32 and 128 of 2^32.
\* Other sizes put two slots that differ by a lap of the counters at different places.
SizesDivide == Wrap % TxSize = 0 /\ Wrap % RxSize = 0
----------------------------------------------------------------------------
(* The invariant *)

\* A restart has taken the MAC off the rings and not put it back.
Dark == {"drain", "clean", "open", "phy", "desc"}

\* How far a restart has come, in the registers, in the rings and in the queue.
Stages ==
  /\ mac.atRings <=> stage \notin Dark
  /\ ~mac.atRings => mac.pr = 0 /\ mac.ps = 0 /\ mac.rxPos = 0 /\ mac.txPos = 0
  /\ stage \in {"open", "phy", "desc"} =>
       rx = FreshRx /\ tx.dirty = 0 /\ \A i \in Slots(TxSize) : tx.buf[i] => ~tx.empty[i]
  /\ stage \in {"clean", "open"} => napi = "disabled" /\ poll.at = "off"

\* While the queue runs there is room; ag71xx_open finds the ring empty before it starts it.
Room ==
  ~woken => /\ ~stopped => Used(tx) < TxSize
            /\ stage \in Dark \cup {"start"} => stopped
            /\ stage \in {"open", "phy", "desc", "start"} => Used(tx) = 0

\* The slots with a packet are the first Used(r) from dirty on, and no other is full.
TxSlots(r) ==
  /\ Used(r) <= TxSize
  /\ \A k \in 0 .. TxSize - 1 :
       /\ r.buf[Nth(r, k, TxSize)] <=> k < Used(r)
       /\ ~r.empty[Nth(r, k, TxSize)] => k < Used(r)

\* The MAC has sent the first of them, as many as TX_STATUS counts, and is at the next.
TxMac(r, m) ==
  m.atRings => /\ m.ps <= Used(r) /\ m.txPos = Nth(r, m.ps, TxSize)
               /\ \A k \in 0 .. Used(r) - 1 : r.empty[Nth(r, k, TxSize)] <=> k < m.ps

\* The slots without a buffer are the first Used(r) from dirty on, and none is EMPTY.
RxSlots(r) ==
  /\ Used(r) <= RxSize
  /\ \A k \in 0 .. RxSize - 1 :
       /\ r.buf[Nth(r, k, RxSize)] <=> k >= Used(r)
       /\ r.empty[Nth(r, k, RxSize)] => k >= Used(r)

\* The MAC has filled those that follow, as many as RX_STATUS counts, and is at the next.
RxMac(r, m) ==
  m.atRings =>
    /\ Used(r) + m.pr <= RxSize /\ m.rxPos = Nth(r, Used(r) + m.pr, RxSize)
    /\ \A k \in 0 .. RxSize - 1 : r.empty[Nth(r, k, RxSize)] <=> k >= Used(r) + m.pr

Rings ==
  /\ TxSlots(tx) /\ TxMac(tx, mac) /\ RxSlots(rx) /\ RxMac(rx, mac)

\* A packet is put over another only when a poll has woken the queue during a restart.
LostOnlyWoken == fatal = "lost packet" => woken

RingInv ==
  TypeOK /\ Stages /\ Room /\ Rings /\ LostOnlyWoken /\ (TxSize > 1 => NotStoppedEmpty)

----------------------------------------------------------------------------
(* Rings *)

\* A ring of a size that divides the range of its counters.
RingOK(r, size) ==
  /\ size \in Nat \ {0} /\ size < Wrap /\ Wrap % size = 0
  /\ r.curr \in 0 .. Wrap - 1 /\ r.dirty \in 0 .. Wrap - 1

\* The difference of the counters, whether or not curr has wrapped.
LEMMA UsedIs ==
  ASSUME NEW r, r.curr \in 0 .. Wrap - 1, r.dirty \in 0 .. Wrap - 1
  PROVE  /\ Used(r) = IF r.curr >= r.dirty THEN r.curr - r.dirty ELSE (r.curr + Wrap) - r.dirty
         /\ Used(r) \in 0 .. Wrap - 1
  <1>. DEFINE x == r.curr + Wrap - r.dirty
  <1>1. Wrap \in Nat \ {0} /\ x \in 0 .. 2 * Wrap - 1
    BY Ag71xxAssumption
  <1>2. x % Wrap = IF x < Wrap THEN x ELSE x - Wrap
    <2>. HIDE DEF x
    <2>. QED
      BY <1>1, ModSmall
  <1>. QED
    BY <1>1, <1>2 DEF Used

\* Counters that wrap and slots that wrap agree, as the size divides the range.
LEMMA NthIs ==
  ASSUME NEW r, NEW size, RingOK(r, size), NEW k \in Nat
  PROVE  Nth(r, k, size) = (r.dirty + k) % size /\ Nth(r, k, size) \in Slots(size)
  <1>1. Wrap \in Nat \ {0} /\ size \in Nat \ {0} /\ r.dirty + k \in Nat /\ Wrap % size = 0
    BY Ag71xxAssumption DEF RingOK
  <1>2. ((r.dirty + k) % Wrap) % size = (r.dirty + k) % size
    BY <1>1, ModOfMod, Zenon
  <1>3. (r.dirty + k) % size \in 0 .. size - 1
    BY <1>1
  <1>. QED
    BY <1>2, <1>3 DEF Nth, Slots

\* The slots from any dirty on are all the slots, each once.
LEMMA NthInjective ==
  ASSUME NEW r, NEW size, RingOK(r, size),
         NEW j \in 0 .. size - 1, NEW k \in 0 .. size - 1, Nth(r, j, size) = Nth(r, k, size)
  PROVE  j = k
  <1>1. size \in Nat \ {0} /\ r.dirty \in Nat /\ j \in Nat /\ k \in Nat
    BY Ag71xxAssumption DEF RingOK
  <1>2. (r.dirty + j) % size = (r.dirty + k) % size
    BY <1>1, NthIs
  <1>. QED
    BY <1>1, <1>2, ModInjective, Zenon

\* Every slot is one of them.
LEMMA NthSurjective ==
  ASSUME NEW r, NEW size, RingOK(r, size), NEW i \in Slots(size)
  PROVE  \E k \in 0 .. size - 1 : Nth(r, k, size) = i
  <1>1. size \in Nat \ {0} /\ r.dirty \in Nat /\ i \in 0 .. size - 1
    BY Ag71xxAssumption DEF RingOK, Slots
  <1>2. PICK k \in 0 .. size - 1 : (r.dirty + k) % size = i
    BY <1>1, ModSurjective, Zenon
  <1>3. k \in Nat
    BY <1>1
  <1>. QED
    BY <1>2, <1>3, NthIs

\* One lap later it is the same slot.
LEMMA NthLap ==
  ASSUME NEW r, NEW size, RingOK(r, size), NEW k \in Nat
  PROVE  Nth(r, size + k, size) = Nth(r, k, size)
  <1>1. size \in Nat \ {0} /\ r.dirty + k \in Nat /\ size + k \in Nat
        /\ size * 1 = size /\ r.dirty + (size + k) = (r.dirty + k) + size
    BY DEF RingOK
  <1>2. ((r.dirty + k) + size * 1) % size = (r.dirty + k) % size
    BY <1>1, ModPlus, Zenon
  <1>3. (r.dirty + (size + k)) % size = (r.dirty + k) % size
    BY <1>1, <1>2, Zenon
  <1>. QED
    BY <1>1, <1>3, NthIs, ZenonT(60)

\* The slot of curr ends the window, and those of curr + n follow it.
LEMMA CurrSlot ==
  ASSUME NEW r, NEW size, RingOK(r, size), NEW n \in Nat
  PROVE  (r.curr + n) % size = Nth(r, Used(r) + n, size)
  <1>1. /\ Wrap \in Nat \ {0} /\ size \in Nat \ {0} /\ Wrap % size = 0
        /\ r.curr \in 0 .. Wrap - 1 /\ r.dirty \in 0 .. Wrap - 1 /\ Used(r) \in 0 .. Wrap - 1
    BY Ag71xxAssumption, UsedIs DEF RingOK
  <1>2. r.dirty + (Used(r) + n) = r.curr + n \/ r.dirty + (Used(r) + n) = (r.curr + n) + Wrap
    BY <1>1, UsedIs
  <1>3. (((r.curr + n) + Wrap * 1) % Wrap) = (r.curr + n) % Wrap /\ Wrap * 1 = Wrap
    <2>. r.curr + n \in Nat /\ 1 \in Nat /\ Wrap * 1 = Wrap
      BY <1>1
    <2>. QED
      BY <1>1, ModPlus, Zenon
  <1>4. (r.dirty + (Used(r) + n)) % Wrap = (r.curr + n) % Wrap
    BY <1>2, <1>3, Zenon
  <1>5. r.curr + n \in Nat
    BY <1>1
  <1>6. ((r.curr + n) % Wrap) % size = (r.curr + n) % size
    BY <1>1, <1>5, ModOfMod, Zenon
  <1>. QED
    BY <1>4, <1>6, Zenon DEF Nth

\* A counter that moves on by n, at most once round.
LEMMA WrapSum ==
  ASSUME NEW a \in 0 .. Wrap - 1, NEW n \in 0 .. Wrap, NEW c, c = (a + n) % Wrap
  PROVE  /\ c \in 0 .. Wrap - 1
         /\ \/ a + n < Wrap /\ c = a + n
            \/ a + n >= Wrap /\ c = (a + n) - Wrap
  <1>. DEFINE x == a + n
  <1>1. Wrap \in Nat \ {0} /\ x \in 0 .. 2 * Wrap - 1 /\ c = x % Wrap
    BY Ag71xxAssumption
  <1>2. c = IF x < Wrap THEN x ELSE x - Wrap
    <2>. HIDE DEF x
    <2>. QED
      BY <1>1, ModSmall
  <1>. QED
    BY <1>1, <1>2

\* curr moves on by n: the window grows by n at its end.
LEMMA Advance ==
  ASSUME NEW r, NEW s, NEW size, RingOK(r, size), NEW n \in Nat, Used(r) + n < Wrap,
         s.curr = (r.curr + n) % Wrap, s.dirty = r.dirty
  PROVE  RingOK(s, size) /\ Used(s) = Used(r) + n
  <1>1. /\ Wrap \in Nat \ {0}
        /\ r.curr \in 0 .. Wrap - 1 /\ r.dirty \in 0 .. Wrap - 1 /\ Used(r) \in 0 .. Wrap - 1
    BY Ag71xxAssumption, UsedIs DEF RingOK
  <1>2. n \in 0 .. Wrap
    BY <1>1
  <1>3. /\ s.curr \in 0 .. Wrap - 1
        /\ \/ r.curr + n < Wrap /\ s.curr = r.curr + n
           \/ r.curr + n >= Wrap /\ s.curr = (r.curr + n) - Wrap
    BY <1>1, <1>2, WrapSum, Zenon
  <1>4. /\ Used(r) = IF r.curr >= r.dirty THEN r.curr - r.dirty ELSE r.curr + Wrap - r.dirty
        /\ Used(s) = IF s.curr >= r.dirty THEN s.curr - r.dirty ELSE s.curr + Wrap - r.dirty
    BY <1>1, <1>3, UsedIs
  <1>5. Used(s) = Used(r) + n
    <2>. HIDE DEF Used
    <2>. QED
      BY <1>1, <1>3, <1>4
  <1>. QED
    BY <1>3, <1>5 DEF RingOK

\* dirty moves on by n: the window loses its first n slots.
LEMMA Retire ==
  ASSUME NEW r, NEW s, NEW size, RingOK(r, size), NEW n \in 0 .. Used(r),
         s.curr = r.curr, s.dirty = (r.dirty + n) % Wrap
  PROVE  RingOK(s, size) /\ Used(s) = Used(r) - n
  <1>1. /\ Wrap \in Nat \ {0} /\ size \in Nat \ {0} /\ Wrap % size = 0
        /\ r.curr \in 0 .. Wrap - 1 /\ r.dirty \in 0 .. Wrap - 1 /\ Used(r) \in 0 .. Wrap - 1
    BY Ag71xxAssumption, UsedIs DEF RingOK
  <1>2. n \in 0 .. Wrap /\ r.dirty + n \in Nat /\ n \in Nat
    BY <1>1
  <1>3. s.curr \in 0 .. Wrap - 1
    BY <1>1, Zenon
  <1>4. r.dirty \in 0 .. Wrap - 1 /\ n \in 0 .. Wrap
    BY <1>1, <1>2
  <1>5. /\ s.dirty \in 0 .. Wrap - 1
        /\ \/ r.dirty + n < Wrap /\ s.dirty = r.dirty + n
           \/ r.dirty + n >= Wrap /\ s.dirty = (r.dirty + n) - Wrap
    BY <1>4, WrapSum, Zenon
  <1>6. /\ Used(r) = IF r.curr >= r.dirty THEN r.curr - r.dirty ELSE r.curr + Wrap - r.dirty
        /\ Used(s) = IF r.curr >= s.dirty THEN r.curr - s.dirty ELSE r.curr + Wrap - s.dirty
    <2>1. /\ Used(r) = IF r.curr >= r.dirty THEN r.curr - r.dirty ELSE r.curr + Wrap - r.dirty
          /\ Used(s) = IF s.curr >= s.dirty THEN s.curr - s.dirty ELSE s.curr + Wrap - s.dirty
      BY <1>1, <1>5, <1>3, UsedIs
    <2>. QED
      BY <2>1
  <1>7. Used(s) = Used(r) - n
    <2>. HIDE DEF Used
    <2>1. CASE r.dirty + n < Wrap /\ s.dirty = r.dirty + n
      BY <1>1, <1>2, <1>6, <2>1
    <2>2. CASE r.dirty + n >= Wrap /\ s.dirty = (r.dirty + n) - Wrap
      BY <1>1, <1>2, <1>6, <2>2
    <2>. QED
      BY <1>5, <2>1, <2>2
  <1>. QED
    BY <1>1, <1>5, <1>7 DEF RingOK

\* The slots of s are those of r from the n-th on.
Follows(s, r, n, size) == \A k \in Nat : Nth(s, k, size) = Nth(r, n + k, size)

\* Once dirty has moved on by n, the slots counted from it follow those of before.
LEMMA RetiredNth ==
  ASSUME NEW r, NEW s, NEW size, RingOK(r, size), NEW n \in Nat,
         s.dirty = (r.dirty + n) % Wrap
  PROVE  Follows(s, r, n, size)
  <1>. SUFFICES ASSUME NEW k \in Nat PROVE Nth(s, k, size) = Nth(r, n + k, size)
    BY DEF Follows
  <1>1. Wrap \in Nat \ {0} /\ r.dirty \in Nat /\ r.dirty + n \in Nat
    BY Ag71xxAssumption DEF RingOK
  <1>2. (((r.dirty + n) % Wrap) + k) % Wrap = ((r.dirty + n) + k) % Wrap
    BY <1>1, ModOfSum, Zenon
  <1>3. (r.dirty + n) + k = r.dirty + (n + k)
    BY <1>1
  <1>. QED
    BY <1>2, <1>3, Zenon DEF Nth

\* The k-th slot is in the window exactly when the window is longer than k.
LEMMA InWindow ==
  ASSUME NEW r, NEW size, RingOK(r, size), Used(r) <= size, NEW k \in 0 .. size - 1
  PROVE  Nth(r, k, size) \in Window(r, size) <=> k < Used(r)
  <1>1. Used(r) \in Nat /\ size \in Nat
    BY UsedIs, Ag71xxAssumption DEF RingOK
  <1>2. ASSUME Nth(r, k, size) \in Window(r, size) PROVE k < Used(r)
    <2>1. PICK j \in 0 .. Used(r) - 1 : Nth(r, k, size) = Nth(r, j, size)
      BY <1>2 DEF Window
    <2>2. j \in 0 .. size - 1
      BY <1>1
    <2>3. j = k
      BY <2>1, <2>2, NthInjective
    <2>. QED
      BY <2>3, <1>1
  <1>3. ASSUME k < Used(r) PROVE Nth(r, k, size) \in Window(r, size)
    <2>. k \in 0 .. Used(r) - 1
      BY <1>1, <1>3
    <2>. QED
      BY DEF Window
  <1>. QED
    BY <1>2, <1>3

----------------------------------------------------------------------------
(* What the operations do to a ring *)

SentTx(r, m) == [r EXCEPT !.empty[m.txPos] = TRUE]
SentMac(m) == [m EXCEPT !.ps = @ + 1, !.txPos = (@ + 1) % TxSize]
PutTx(r) == [r EXCEPT !.curr = (@ + 1) % Wrap, !.empty[r.curr % TxSize] = FALSE,
                      !.buf[r.curr % TxSize] = TRUE]
ReapedTx(r, n) ==
  [r EXCEPT !.dirty = (@ + n) % Wrap,
            !.buf = [i \in Slots(TxSize) |->
                       @[i] /\ i \notin {Nth(r, k, TxSize) : k \in 0 .. n - 1}]]
FilledRx(r, m) == [r EXCEPT !.empty[m.rxPos] = FALSE]
FilledMac(m) == [m EXCEPT !.pr = @ + 1, !.rxPos = (@ + 1) % RxSize]
TakenRx(r, n) ==
  [r EXCEPT !.curr = (@ + n) % Wrap,
            !.buf = [i \in Slots(RxSize) |->
                       @[i] /\ i \notin {Nth(r, Used(r) + k, RxSize) : k \in 0 .. n - 1}]]

\* The first n packets of the window have been sent, and the next one not.
FirstSent(r, n) ==
  /\ n \in 0 .. Used(r) /\ \A k \in 0 .. n - 1 : r.empty[Nth(r, k, TxSize)]
  /\ n < Used(r) => ~r.empty[Nth(r, n, TxSize)]

\* The n descriptors behind the window are full.
NextFull(r, n) ==
  /\ n \in Nat /\ Used(r) + n <= RxSize
  /\ \A k \in 0 .. n - 1 : ~r.empty[Nth(r, Used(r) + k, RxSize)]

\* A ring of the model's type is one of the lemmas'.
LEMMA SlotTypes ==
  ASSUME NEW size, size \in Nat \ {0}, size < Wrap, Wrap % size = 0, NEW r \in RingType(size)
  PROVE  /\ RingOK(r, size) /\ Used(r) \in 0 .. Wrap - 1
         /\ \A k \in Nat : Nth(r, k, size) \in Slots(size)
  <1>1. RingOK(r, size)
    BY DEF RingOK, RingType
  <1>. QED
    BY <1>1, NthIs, UsedIs DEF RingOK

\* A slot at another place is another slot.
LEMMA OtherSlots ==
  ASSUME NEW r, NEW size, RingOK(r, size), NEW j \in 0 .. size - 1
  PROVE  \A k \in 0 .. size - 1 :
           /\ Nth(r, k, size) \in Slots(size)
           /\ Nth(r, k, size) = Nth(r, j, size) => k = j
  <1>. SUFFICES ASSUME NEW k \in 0 .. size - 1
                PROVE  /\ Nth(r, k, size) \in Slots(size)
                       /\ Nth(r, k, size) = Nth(r, j, size) => k = j
    OBVIOUS
  <1>1. k \in Nat
    BY DEF RingOK
  <1>. QED
    BY <1>1, NthIs, NthInjective, Zenon

\* The MAC sends the packet it is at.
LEMMA SendStep ==
  ASSUME NEW r \in RingType(TxSize), NEW m \in MacType, SizesDivide,
         TxSlots(r), TxMac(r, m), m.atRings, ~r.empty[m.txPos],
         NEW s, s = SentTx(r, m), NEW n, n = SentMac(m)
  PROVE  /\ s \in RingType(TxSize) /\ n \in MacType /\ n.ps <= TxSize
         /\ Used(s) = Used(r) /\ TxSlots(s) /\ TxMac(s, n)
  <1>. USE DEF SentTx, SentMac
  <1>1. /\ TxSize \in Nat \ {0} /\ RingOK(r, TxSize) /\ Used(r) \in 0 .. Wrap - 1
        /\ \A k \in Nat : Nth(r, k, TxSize) \in Slots(TxSize)
    BY SlotTypes, Ag71xxAssumption DEF SizesDivide
  <1>2. m.ps \in Nat /\ m.ps <= Used(r) /\ m.txPos = Nth(r, m.ps, TxSize) /\ Used(r) <= TxSize
    BY DEF TxMac, TxSlots, MacType
  <1>3. m.ps < Used(r)
    <2>1. CASE m.ps < TxSize
      BY <1>1, <1>2, <2>1 DEF TxSlots
    <2>2. CASE m.ps = TxSize
      <3>1. Nth(r, TxSize + 0, TxSize) = Nth(r, 0, TxSize)
        BY <1>1, NthLap
      <3>2. TxSize + 0 = TxSize /\ 0 \in 0 .. Used(r) - 1 /\ 0 < m.ps
        BY <1>1, <1>2, <2>2
      <3>3. r.empty[Nth(r, 0, TxSize)]
        BY <3>2 DEF TxMac
      <3>. QED
        BY <1>2, <2>2, <3>1, <3>2, <3>3
    <2>. QED
      BY <1>1, <1>2, <2>1, <2>2
  <1>4. m.ps \in 0 .. TxSize - 1
    BY <1>1, <1>2, <1>3
  <1>5. /\ s.empty \in [Slots(TxSize) -> BOOLEAN]
        /\ s.empty[Nth(r, m.ps, TxSize)] = TRUE
        /\ \A k \in 0 .. TxSize - 1 :
             k # m.ps => s.empty[Nth(r, k, TxSize)] = r.empty[Nth(r, k, TxSize)]
    <2>. DEFINE f == r.empty
                g == s.empty
                at(k) == Nth(r, k, TxSize)
    <2>1. f \in [Slots(TxSize) -> BOOLEAN] /\ g = [f EXCEPT ![at(m.ps)] = TRUE]
      BY <1>2 DEF RingType
    <2>2. \A k \in 0 .. TxSize - 1 : at(k) \in Slots(TxSize) /\ (at(k) = at(m.ps) => k = m.ps)
      BY <1>1, <1>4, OtherSlots
    <2>. HIDE DEF f, g, at
    <2>. QED
      BY <1>4, <2>1, <2>2, ZenonT(60) DEF f, g, at
  <1>6. s.curr = r.curr /\ s.dirty = r.dirty /\ s.buf = r.buf
    BY DEF RingType
  <1>7. Used(s) = Used(r) /\ \A k : Nth(s, k, TxSize) = Nth(r, k, TxSize)
    BY <1>6 DEF Used, Nth
  <1>8. s \in RingType(TxSize)
    BY <1>5, <1>6 DEF RingType
  <1>9. n.txPos = Nth(r, m.ps + 1, TxSize)
    <2>1. Nth(r, m.ps, TxSize) = (r.dirty + m.ps) % TxSize
          /\ Nth(r, m.ps + 1, TxSize) = (r.dirty + (m.ps + 1)) % TxSize
      BY <1>1, <1>2, NthIs
    <2>2. r.dirty + m.ps \in Nat /\ (r.dirty + m.ps) + 1 = r.dirty + (m.ps + 1) /\ 1 \in Nat
      BY <1>2, Ag71xxAssumption DEF RingType
    <2>3. (((r.dirty + m.ps) % TxSize) + 1) % TxSize = ((r.dirty + m.ps) + 1) % TxSize
      BY <1>1, <2>2, ModOfSum, Zenon
    <2>4. n.txPos = (m.txPos + 1) % TxSize
      BY DEF MacType
    <2>. QED
      BY <1>2, <2>1, <2>2, <2>3, <2>4, Zenon
  <1>10. n.ps = m.ps + 1 /\ n.atRings = m.atRings
    BY DEF MacType
  <1>11. n \in MacType
    <2>1. n.txPos = (m.txPos + 1) % TxSize
      BY DEF MacType
    <2>2. PICK p \in Slots(TxSize) : p = (m.txPos + 1) % TxSize
      BY <1>1, <1>2, <1>9, <2>1
    <2>3. n = [m EXCEPT !.ps = m.ps + 1, !.txPos = p]
      BY <2>2
    <2>4. m.ps + 1 \in Nat
      BY <1>2
    <2>. QED
      BY <2>3, <2>4 DEF MacType
  <1>12. TxSlots(s)
    BY <1>1, <1>3, <1>5, <1>6, <1>7 DEF TxSlots
  <1>13. TxMac(s, n)
    <2>1. \A k \in 0 .. Used(r) - 1 : s.empty[Nth(r, k, TxSize)] <=> k < m.ps + 1
      <3>1. \A k \in 0 .. Used(r) - 1 :
              k \in 0 .. TxSize - 1 /\ (r.empty[Nth(r, k, TxSize)] <=> k < m.ps)
        BY <1>1, <1>2 DEF TxMac
      <3>2. \A k \in 0 .. TxSize - 1 :
              s.empty[Nth(r, k, TxSize)] <=> (k = m.ps \/ r.empty[Nth(r, k, TxSize)])
        BY <1>5
      <3>3. \A k \in 0 .. Used(r) - 1 : k < m.ps + 1 <=> (k = m.ps \/ k < m.ps)
        BY <1>1, <1>2
      <3>. QED
        BY <3>1, <3>2, <3>3, Zenon
    <2>2. m.ps + 1 <= Used(r)
      BY <1>1, <1>2, <1>3
    <2>. QED
      BY <1>7, <1>9, <1>10, <2>1, <2>2, Zenon DEF TxMac
  <1>. QED
    BY <1>1, <1>2, <1>3, <1>7, <1>8, <1>10, <1>11, <1>12, <1>13

\* n places on from the k-th slot is the one n + k places on, or a lap before.
LEMMA NthFold ==
  ASSUME NEW r, NEW size, RingOK(r, size), NEW n \in 0 .. size, NEW k \in 0 .. size - 1
  PROVE  \/ n + k \in 0 .. size - 1
         \/ /\ (n + k) - size \in 0 .. n - 1 /\ (n + k) - size \in 0 .. size - 1
            /\ n + k >= size
            /\ Nth(r, n + k, size) = Nth(r, (n + k) - size, size)
  <1>. DEFINE j == (n + k) - size
  <1>1. size \in Nat \ {0} /\ n \in Nat /\ k \in Nat
    BY DEF RingOK
  <1>2. CASE n + k < size
    BY <1>1, <1>2
  <1>3. CASE n + k >= size
    <2>1. j \in Nat /\ size + j = n + k /\ j \in 0 .. n - 1 /\ j \in 0 .. size - 1
      BY <1>1, <1>3
    <2>. HIDE DEF j
    <2>2. Nth(r, size + j, size) = Nth(r, j, size)
      BY <2>1, NthLap, Zenon
    <2>3. Nth(r, n + k, size) = Nth(r, j, size)
      BY <2>1, <2>2, Zenon
    <2>. QED
      BY <1>3, <2>1, <2>3 DEF j
  <1>. QED
    BY <1>1, <1>2, <1>3

\* ag71xx_hard_start_xmit puts a packet at curr.
LEMMA PutStep ==
  ASSUME NEW r \in RingType(TxSize), NEW m \in MacType, SizesDivide,
         TxSlots(r), TxMac(r, m), ~r.buf[r.curr % TxSize],
         NEW s, s = PutTx(r),
         NEW n, n.ps = m.ps, n.txPos = m.txPos, n.atRings = m.atRings
  PROVE  /\ s \in RingType(TxSize)
         /\ Used(s) = Used(r) + 1 /\ TxSlots(s) /\ TxMac(s, n)
  <1>. USE DEF PutTx
  <1>. DEFINE u == Used(r)
              at(k) == Nth(r, k, TxSize)
  <1>1. /\ TxSize \in Nat \ {0} /\ TxSize < Wrap /\ Wrap \in Nat /\ RingOK(r, TxSize)
        /\ u \in 0 .. Wrap - 1 /\ u <= TxSize /\ \A k \in Nat : at(k) \in Slots(TxSize)
    BY SlotTypes, Ag71xxAssumption DEF SizesDivide, TxSlots
  <1>2. r.curr % TxSize = at(u)
    <2>1. (r.curr + 0) % TxSize = Nth(r, u + 0, TxSize)
      BY <1>1, CurrSlot
    <2>2. r.curr + 0 = r.curr /\ u + 0 = u
      BY <1>1, Ag71xxAssumption DEF RingType
    <2>. QED
      BY <2>1, <2>2, Zenon
  <1>3. u \in 0 .. TxSize - 1
    <2>. SUFFICES ASSUME u = TxSize PROVE FALSE
      BY <1>1
    <2>1. Nth(r, TxSize + 0, TxSize) = Nth(r, 0, TxSize) /\ TxSize + 0 = TxSize
      BY <1>1, NthLap
    <2>2. 0 \in 0 .. TxSize - 1 /\ 0 < u
      BY <1>1
    <2>3. r.buf[at(0)]
      BY <2>2 DEF TxSlots
    <2>. QED
      BY <1>2, <2>1, <2>3
  <1>4. \A k \in 0 .. TxSize - 1 : at(k) \in Slots(TxSize) /\ (at(k) = at(u) => k = u)
    BY <1>1, <1>3, OtherSlots
  <1>5. /\ s.curr = (r.curr + 1) % Wrap /\ s.dirty = r.dirty
        /\ s.empty = [r.empty EXCEPT ![at(u)] = FALSE] /\ s.buf = [r.buf EXCEPT ![at(u)] = TRUE]
        /\ r.empty \in [Slots(TxSize) -> BOOLEAN] /\ r.buf \in [Slots(TxSize) -> BOOLEAN]
    BY <1>2 DEF RingType
  <1>6. /\ RingOK(s, TxSize) /\ Used(s) = u + 1
        /\ \A k \in Nat : Nth(s, k, TxSize) = at(k)
    <2>1. 1 \in Nat /\ u + 1 < Wrap
      BY <1>1, <1>3
    <2>2. RingOK(s, TxSize) /\ Used(s) = u + 1
      <3>1. RingOK(r, TxSize) /\ s.curr = (r.curr + 1) % Wrap /\ s.dirty = r.dirty
        BY <1>1, <1>5
      <3>. QED
        BY <2>1, <3>1, Advance
    <2>. QED
      BY <1>5, <2>2 DEF Nth
  <1>7. /\ s.empty \in [Slots(TxSize) -> BOOLEAN] /\ ~s.empty[at(u)]
        /\ \A k \in 0 .. TxSize - 1 : k # u => s.empty[at(k)] = r.empty[at(k)]
    <2>. DEFINE e == r.empty
                f == s.empty
    <2>1. f = [e EXCEPT ![at(u)] = FALSE] /\ e \in [Slots(TxSize) -> BOOLEAN]
      BY <1>5
    <2>. HIDE DEF e, f, at, u
    <2>. QED
      BY <1>3, <1>4, <2>1 DEF e, f
  <1>8. /\ s.buf \in [Slots(TxSize) -> BOOLEAN] /\ s.buf[at(u)]
         /\ \A k \in 0 .. TxSize - 1 : k # u => s.buf[at(k)] = r.buf[at(k)]
    <2>. DEFINE e == r.buf
                f == s.buf
    <2>1. f = [e EXCEPT ![at(u)] = TRUE] /\ e \in [Slots(TxSize) -> BOOLEAN]
      BY <1>5
    <2>. HIDE DEF e, f, at, u
    <2>. QED
      BY <1>3, <1>4, <2>1 DEF e, f
  <1>9. s \in RingType(TxSize)
    <2>1. s = [curr |-> s.curr, dirty |-> s.dirty, empty |-> s.empty, buf |-> s.buf]
      BY DEF RingType
    <2>2. s.curr \in 0 .. Wrap - 1 /\ s.dirty \in 0 .. Wrap - 1
      BY <1>6 DEF RingOK
    <2>. QED
      BY <1>7, <1>8, <2>1, <2>2, Zenon DEF RingType
  <1>10. TxSlots(s)
    <2>1. ASSUME NEW k \in 0 .. TxSize - 1
          PROVE  /\ s.buf[at(k)] <=> k < u + 1
                 /\ ~s.empty[at(k)] => k < u + 1
      <3>1. /\ r.buf[at(k)] <=> k < u
            /\ ~r.empty[at(k)] => k < u
        BY DEF TxSlots
      <3>2. (k = u => k < u + 1) /\ (k # u => (k < u <=> k < u + 1))
        BY <1>1
      <3>. HIDE DEF at, u
      <3>. QED
        BY <1>7, <1>8, <3>1, <3>2, Zenon
    <2>2. \A k \in 0 .. TxSize - 1 : Nth(s, k, TxSize) = at(k)
      BY <1>1, <1>6
    <2>3. u + 1 <= TxSize
      BY <1>1, <1>3
    <2>. HIDE DEF at, u
    <2>. QED
      BY <1>6, <2>1, <2>2, <2>3, Zenon DEF TxSlots
  <1>11. TxMac(s, n)
    <2>. SUFFICES ASSUME n.atRings PROVE TxMac(s, n)
      BY DEF TxMac
    <2>1. /\ m.ps \in Nat /\ m.ps <= u /\ m.txPos = at(m.ps)
          /\ \A k \in 0 .. u - 1 : r.empty[at(k)] <=> k < m.ps
      BY DEF TxMac, MacType
    <2>2. ASSUME NEW k \in 0 .. (u + 1) - 1
          PROVE  s.empty[at(k)] <=> k < m.ps
      <3>1. k \in 0 .. TxSize - 1 /\ (k = u \/ k \in 0 .. u - 1)
        BY <1>1, <1>3
      <3>2. k = u => ~(k < m.ps)
        BY <1>1, <2>1
      <3>3. k \in 0 .. u - 1 => k # u
        BY <1>1
      <3>. HIDE DEF at, u
      <3>. QED
        BY <1>7, <2>1, <3>1, <3>2, <3>3
    <2>3. \A k \in 0 .. (u + 1) - 1 : Nth(s, k, TxSize) = at(k)
      BY <1>1, <1>6
    <2>4. m.ps <= u + 1 /\ Nth(s, m.ps, TxSize) = at(m.ps)
      BY <1>1, <1>6, <2>1
    <2>. HIDE DEF at, u
    <2>. QED
      BY <1>6, <2>1, <2>2, <2>3, <2>4, Zenon DEF TxMac
  <1>. QED
    BY <1>6, <1>9, <1>10, <1>11

\* ag71xx_tx_packets frees the first n packets: all that the MAC has sent.
LEMMA ReapStep ==
  ASSUME NEW r \in RingType(TxSize), NEW m \in MacType, SizesDivide, TxSlots(r), TxMac(r, m),
         NEW n, FirstSent(r, n), NEW s, s = ReapedTx(r, n),
         NEW p, p.atRings = m.atRings, p.txPos = m.txPos,
         p.ps = IF m.ps >= n THEN m.ps - n ELSE 0
  PROVE  /\ s \in RingType(TxSize) /\ Used(s) = Used(r) - n /\ TxSlots(s) /\ TxMac(s, p)
  <1>. USE DEF ReapedTx, FirstSent
  <1>. DEFINE u == Used(r)
              at(k) == Nth(r, k, TxSize)
              gone == {at(k) : k \in 0 .. n - 1}
  <1>1. /\ TxSize \in Nat \ {0} /\ TxSize < Wrap /\ RingOK(r, TxSize)
        /\ u \in Nat /\ u <= TxSize /\ n \in 0 .. TxSize /\ n \in Nat /\ n <= u
        /\ \A k \in Nat : at(k) \in Slots(TxSize)
    <2>1. /\ TxSize \in Nat \ {0} /\ TxSize < Wrap /\ RingOK(r, TxSize)
          /\ u \in 0 .. Wrap - 1 /\ \A k \in Nat : at(k) \in Slots(TxSize)
      BY SlotTypes, Ag71xxAssumption DEF SizesDivide
    <2>2. u <= TxSize
      BY DEF TxSlots
    <2>. QED
      BY <2>1, <2>2
  <1>2. /\ s.curr = r.curr /\ s.dirty = (r.dirty + n) % Wrap /\ s.empty = r.empty
        /\ s.buf = [i \in Slots(TxSize) |-> r.buf[i] /\ i \notin gone]
        /\ r.empty \in [Slots(TxSize) -> BOOLEAN] /\ r.buf \in [Slots(TxSize) -> BOOLEAN]
    BY DEF RingType
  <1>3. RingOK(r, TxSize) /\ s.curr = r.curr /\ s.dirty = (r.dirty + n) % Wrap
    BY <1>1, <1>2
  <1>4. RingOK(s, TxSize) /\ Used(s) = u - n
    BY <1>3, Retire
  <1>5. \A k \in Nat : Nth(s, k, TxSize) = at(n + k)
    <2>1. n \in Nat
      BY <1>1
    <2>2. Follows(s, r, n, TxSize)
      BY <1>3, <2>1, RetiredNth
    <2>. QED
      BY <2>2 DEF Follows
  <1>6. s \in RingType(TxSize)
    <2>1. s = [curr |-> s.curr, dirty |-> s.dirty, empty |-> s.empty, buf |-> s.buf]
      BY DEF RingType
    <2>2. s.curr \in 0 .. Wrap - 1 /\ s.dirty \in 0 .. Wrap - 1
      BY <1>4 DEF RingOK
    <2>3. s.buf \in [Slots(TxSize) -> BOOLEAN]
      BY <1>2
    <2>. QED
      BY <1>2, <2>1, <2>2, <2>3, Zenon DEF RingType
  <1>7. ASSUME NEW k \in 0 .. TxSize - 1
        PROVE  /\ k < n => at(k) \in gone
               /\ k >= n => at(k) \notin gone
    <2>1. k < n => k \in 0 .. n - 1
      BY <1>1
    <2>2. ASSUME k >= n, NEW j \in 0 .. n - 1, at(k) = at(j) PROVE FALSE
      <3>1. j \in 0 .. TxSize - 1
        BY <1>1
      <3>2. j = k
        BY <1>1, <2>2, <3>1, NthInjective, Zenon
      <3>. QED
        BY <1>1, <2>2, <3>2
    <2>. QED
      BY <2>1, <2>2
  <1>8. TxSlots(s)
    <2>1. ASSUME NEW k \in 0 .. TxSize - 1
          PROVE  /\ s.buf[at(n + k)] <=> k < u - n
                 /\ ~s.empty[at(n + k)] => k < u - n
      <3>1. CASE n + k \in 0 .. TxSize - 1
        <4>1. /\ r.buf[at(n + k)] <=> n + k < u
              /\ ~r.empty[at(n + k)] => n + k < u
          BY <3>1 DEF TxSlots
        <4>2. n + k >= n /\ n + k \in Nat /\ (n + k < u <=> k < u - n)
          BY <1>1
        <4>3. at(n + k) \in Slots(TxSize) /\ at(n + k) \notin gone
          BY <1>1, <1>7, <3>1, <4>2
        <4>4. s.buf[at(n + k)] <=> r.buf[at(n + k)]
          BY <1>2, <4>3
        <4>. HIDE DEF at, u, gone
        <4>. QED
          BY <1>2, <4>1, <4>2, <4>4
      <3>2. CASE ~(n + k \in 0 .. TxSize - 1)
        <4>. DEFINE j == (n + k) - TxSize
        <4>1. /\ j \in 0 .. n - 1 /\ j \in 0 .. TxSize - 1 /\ n + k >= TxSize
              /\ at(n + k) = at(j)
          BY <1>1, <3>2, NthFold
        <4>2. r.empty[at(j)] /\ at(j) \in gone /\ at(j) \in Slots(TxSize)
          BY <1>1, <4>1
        <4>3. ~(k < u - n)
          BY <1>1, <4>1
        <4>4. ~s.buf[at(j)]
          BY <1>2, <4>2
        <4>. HIDE DEF at, u, gone, j
        <4>. QED
          BY <1>2, <4>1, <4>2, <4>3, <4>4
      <3>. QED
        BY <3>1, <3>2
    <2>2. \A k \in 0 .. TxSize - 1 : Nth(s, k, TxSize) = at(n + k)
      <3>1. \A k \in 0 .. TxSize - 1 : k \in Nat
        BY <1>1
      <3>. HIDE DEF at, u
      <3>. QED
        BY <1>5, <3>1, Zenon
    <2>3. u - n <= TxSize
      BY <1>1
    <2>4. ASSUME NEW k \in 0 .. TxSize - 1
          PROVE  /\ s.buf[Nth(s, k, TxSize)] <=> k < Used(s)
                 /\ ~s.empty[Nth(s, k, TxSize)] => k < Used(s)
      <3>1. Nth(s, k, TxSize) = at(n + k) /\ Used(s) = u - n
        BY <1>4, <2>2
      <3>. HIDE DEF at, u
      <3>. QED
        BY <2>1, <3>1
    <2>5. Used(s) <= TxSize
      BY <1>4, <2>3, Zenon
    <2>. QED
      BY <2>4, <2>5, Zenon DEF TxSlots
  <1>9. TxMac(s, p)
    <2>. SUFFICES ASSUME p.atRings PROVE TxMac(s, p)
      BY DEF TxMac
    <2>1. /\ m.ps \in Nat /\ m.ps <= u /\ m.txPos = at(m.ps)
          /\ \A k \in 0 .. u - 1 : r.empty[at(k)] <=> k < m.ps
      BY DEF TxMac, MacType
    <2>2. n = m.ps
      <3>1. CASE n < m.ps
        <4>. n \in 0 .. u - 1
          BY <1>1, <2>1, <3>1
        <4>. QED
          BY <1>1, <2>1, <3>1
      <3>2. CASE n > m.ps
        <4>. m.ps \in 0 .. n - 1 /\ m.ps \in 0 .. u - 1 /\ ~(m.ps < m.ps)
          BY <1>1, <2>1, <3>2
        <4>. QED
          BY <2>1
      <3>. QED
        BY <1>1, <2>1, <3>1, <3>2
    <2>3. p.ps = 0
      BY <1>1, <2>2
    <2>4. Nth(s, 0, TxSize) = at(m.ps)
      <3>1. n + 0 = m.ps /\ 0 \in Nat
        BY <1>1, <2>2
      <3>. HIDE DEF at, u
      <3>. QED
        BY <1>5, <3>1
    <2>5. ASSUME NEW k \in 0 .. (u - n) - 1
          PROVE  s.empty[Nth(s, k, TxSize)] <=> k < 0
      <3>1. k \in Nat /\ n + k \in 0 .. u - 1 /\ ~(n + k < m.ps) /\ ~(k < 0)
        BY <1>1, <2>2
      <3>2. ~r.empty[at(n + k)]
        BY <2>1, <3>1
      <3>. QED
        BY <1>2, <1>5, <3>1, <3>2
    <2>6. 0 <= u - n
      BY <1>1
    <2>7. p.txPos = Nth(s, p.ps, TxSize) /\ p.ps <= Used(s)
      <3>. HIDE DEF at, u
      <3>. QED
        BY <1>4, <2>1, <2>3, <2>4, <2>6
    <2>8. ASSUME NEW k \in 0 .. Used(s) - 1
          PROVE  s.empty[Nth(s, k, TxSize)] <=> k < p.ps
      BY <1>4, <2>3, <2>5, Zenon
    <2>. QED
      BY <2>7, <2>8, ZenonT(60) DEF TxMac
  <1>. QED
    BY <1>4, <1>6, <1>8, <1>9

\* The MAC fills the descriptor it is at.
LEMMA ReceiveStep ==
  ASSUME NEW r \in RingType(RxSize), NEW m \in MacType, SizesDivide,
         RxSlots(r), RxMac(r, m), m.atRings, r.empty[m.rxPos],
         NEW s, s = FilledRx(r, m), NEW n, n = FilledMac(m)
  PROVE  /\ s \in RingType(RxSize) /\ n \in MacType /\ n.pr <= RxSize
         /\ RxSlots(s) /\ RxMac(s, n)
  <1>. USE DEF FilledRx, FilledMac
  <1>. DEFINE u == Used(r)
              w == Used(r) + m.pr
              at(k) == Nth(r, k, RxSize)
  <1>1. /\ RxSize \in Nat \ {0} /\ RingOK(r, RxSize) /\ u \in 0 .. Wrap - 1
        /\ \A k \in Nat : at(k) \in Slots(RxSize)
    BY SlotTypes, Ag71xxAssumption DEF SizesDivide
  <1>2. /\ m.pr \in Nat /\ u \in Nat /\ w \in Nat /\ w <= RxSize /\ u <= RxSize
        /\ m.rxPos = at(w)
        /\ \A k \in 0 .. RxSize - 1 : r.empty[at(k)] <=> k >= w
    BY <1>1 DEF RxMac, RxSlots, MacType
  <1>3. w \in 0 .. RxSize - 1
    <2>. SUFFICES ASSUME w = RxSize PROVE FALSE
      BY <1>1, <1>2
    <2>1. Nth(r, RxSize + 0, RxSize) = Nth(r, 0, RxSize) /\ RxSize + 0 = RxSize
      BY <1>1, NthLap
    <2>2. 0 \in 0 .. RxSize - 1 /\ ~(0 >= w)
      BY <1>1
    <2>3. ~r.empty[at(0)]
      BY <1>2, <2>2
    <2>. QED
      BY <1>2, <2>1, <2>3
  <1>4. \A k \in 0 .. RxSize - 1 : at(k) \in Slots(RxSize) /\ (at(k) = at(w) => k = w)
    BY <1>1, <1>3, OtherSlots
  <1>5. /\ s.empty \in [Slots(RxSize) -> BOOLEAN] /\ ~s.empty[at(w)]
        /\ \A k \in 0 .. RxSize - 1 : k # w => s.empty[at(k)] = r.empty[at(k)]
    <2>. DEFINE e == r.empty
                f == s.empty
    <2>1. f = [e EXCEPT ![at(w)] = FALSE] /\ e \in [Slots(RxSize) -> BOOLEAN]
      BY <1>2 DEF RingType
    <2>. HIDE DEF e, f, at, w
    <2>. QED
      BY <1>3, <1>4, <2>1, ZenonT(60) DEF e, f
  <1>6. s.curr = r.curr /\ s.dirty = r.dirty /\ s.buf = r.buf
    BY DEF RingType
  <1>7. Used(s) = u /\ \A k : Nth(s, k, RxSize) = at(k)
    BY <1>6 DEF Used, Nth
  <1>8. s \in RingType(RxSize)
    BY <1>5, <1>6 DEF RingType
  <1>9. n.rxPos = at(w + 1)
    <2>1. at(w) = (r.dirty + w) % RxSize /\ at(w + 1) = (r.dirty + (w + 1)) % RxSize
      BY <1>1, <1>2, NthIs
    <2>2. r.dirty + w \in Nat /\ (r.dirty + w) + 1 = r.dirty + (w + 1) /\ 1 \in Nat
      BY <1>2, Ag71xxAssumption DEF RingType
    <2>3. (((r.dirty + w) % RxSize) + 1) % RxSize = ((r.dirty + w) + 1) % RxSize
      BY <1>1, <2>2, ModOfSum, Zenon
    <2>4. n.rxPos = (m.rxPos + 1) % RxSize
      BY DEF MacType
    <2>. QED
      BY <1>2, <2>1, <2>2, <2>3, <2>4, Zenon
  <1>10. n.pr = m.pr + 1 /\ n.atRings = m.atRings
    BY DEF MacType
  <1>11. n \in MacType
    <2>1. n.rxPos = (m.rxPos + 1) % RxSize
      BY DEF MacType
    <2>2. PICK p \in Slots(RxSize) : p = (m.rxPos + 1) % RxSize
      BY <1>1, <1>2, <1>9, <2>1
    <2>3. n = [m EXCEPT !.pr = m.pr + 1, !.rxPos = p]
      BY <2>2
    <2>4. m.pr + 1 \in Nat
      BY <1>2
    <2>. QED
      BY <2>3, <2>4 DEF MacType
  <1>12. RxSlots(s)
    <2>1. ASSUME NEW k \in 0 .. RxSize - 1
          PROVE  /\ s.buf[at(k)] <=> k >= u
                 /\ s.empty[at(k)] => k >= u
      <3>1. (r.buf[at(k)] <=> k >= u) /\ (r.empty[at(k)] => k >= u)
        BY DEF RxSlots
      <3>. HIDE DEF at, u, w
      <3>. QED
        BY <1>5, <1>6, <3>1
    <2>. QED
      BY <1>2, <1>7, <2>1, Zenon DEF RxSlots
  <1>13. RxMac(s, n)
    <2>1. u + n.pr = w + 1
      BY <1>2, <1>10
    <2>2. ASSUME NEW k \in 0 .. RxSize - 1
          PROVE  s.empty[at(k)] <=> k >= w + 1
      <3>1. r.empty[at(k)] <=> k >= w
        BY <1>2
      <3>2. (k = w => ~(k >= w + 1)) /\ (k # w => (k >= w <=> k >= w + 1))
        BY <1>2
      <3>. HIDE DEF at, u, w
      <3>. QED
        BY <1>5, <3>1, <3>2, Zenon
    <2>3. w + 1 <= RxSize
      BY <1>1, <1>3
    <2>. HIDE DEF at, u, w
    <2>. QED
      BY <1>7, <1>9, <2>1, <2>2, <2>3, Zenon DEF RxMac
  <1>14. n.pr <= RxSize
    BY <1>1, <1>2, <1>3, <1>10
  <1>. QED
    BY <1>8, <1>11, <1>12, <1>13, <1>14

\* ag71xx_rx_packets takes the buffers of n full descriptors, those next to the window.
LEMMA TakeStep ==
  ASSUME NEW r \in RingType(RxSize), NEW m \in MacType, SizesDivide, RxSlots(r), RxMac(r, m),
         NEW n, NextFull(r, n), NEW s, s = TakenRx(r, n),
         NEW p, p.atRings = m.atRings, p.rxPos = m.rxPos,
         p.pr = IF m.pr >= n THEN m.pr - n ELSE 0
  PROVE  /\ s \in RingType(RxSize) /\ RxSlots(s) /\ RxMac(s, p)
  <1>. USE DEF TakenRx, NextFull
  <1>. DEFINE u == Used(r)
              at(k) == Nth(r, k, RxSize)
              taken == {at(u + k) : k \in 0 .. n - 1}
  <1>1. /\ RxSize \in Nat \ {0} /\ RxSize < Wrap /\ Wrap \in Nat /\ RingOK(r, RxSize)
        /\ u \in Nat /\ u <= RxSize /\ \A k \in Nat : at(k) \in Slots(RxSize)
    <2>1. /\ RxSize \in Nat \ {0} /\ RxSize < Wrap /\ Wrap \in Nat /\ RingOK(r, RxSize)
          /\ u \in 0 .. Wrap - 1 /\ \A k \in Nat : at(k) \in Slots(RxSize)
      BY SlotTypes, Ag71xxAssumption DEF SizesDivide
    <2>2. u <= RxSize
      BY DEF RxSlots
    <2>. QED
      BY <2>1, <2>2
  <1>2. /\ s.curr = (r.curr + n) % Wrap /\ s.dirty = r.dirty /\ s.empty = r.empty
        /\ s.buf = [i \in Slots(RxSize) |-> r.buf[i] /\ i \notin taken]
        /\ r.empty \in [Slots(RxSize) -> BOOLEAN] /\ r.buf \in [Slots(RxSize) -> BOOLEAN]
    BY DEF RingType
  <1>3. RingOK(s, RxSize) /\ Used(s) = u + n
    <2>1. RingOK(r, RxSize) /\ s.curr = (r.curr + n) % Wrap /\ s.dirty = r.dirty
      BY <1>1, <1>2
    <2>2. Used(r) + n < Wrap
      BY <1>1
    <2>. QED
      BY <2>1, <2>2, Advance
  <1>4. \A k : Nth(s, k, RxSize) = at(k)
    BY <1>2 DEF Nth
  <1>5. s \in RingType(RxSize)
    <2>1. s = [curr |-> s.curr, dirty |-> s.dirty, empty |-> s.empty, buf |-> s.buf]
      BY DEF RingType
    <2>2. s.curr \in 0 .. Wrap - 1 /\ s.dirty \in 0 .. Wrap - 1
      BY <1>3 DEF RingOK
    <2>3. s.buf \in [Slots(RxSize) -> BOOLEAN]
      BY <1>2
    <2>. QED
      BY <1>2, <2>1, <2>2, <2>3, Zenon DEF RingType
  <1>6. ASSUME NEW k \in 0 .. RxSize - 1
        PROVE  at(k) \in taken <=> (k >= u /\ k < u + n)
    <2>1. ASSUME k >= u, k < u + n PROVE at(k) \in taken
      <3>1. k - u \in 0 .. n - 1 /\ u + (k - u) = k
        BY <1>1, <2>1
      <3>. HIDE DEF at, u
      <3>. QED
        BY <3>1
    <2>2. ASSUME NEW j \in 0 .. n - 1, at(k) = at(u + j) PROVE k >= u /\ k < u + n
      <3>1. u + j \in 0 .. RxSize - 1 /\ u + j >= u /\ u + j < u + n
        BY <1>1
      <3>2. u + j = k
        <4>. DEFINE i == u + j
        <4>1. i \in 0 .. RxSize - 1 /\ Nth(r, k, RxSize) = Nth(r, i, RxSize)
          BY <2>2, <3>1
        <4>. HIDE DEF i
        <4>2. i = k
          BY <1>1, <4>1, NthInjective, Zenon
        <4>. QED
          BY <4>2 DEF i
      <3>. QED
        BY <3>1, <3>2
    <2>. QED
      BY <2>1, <2>2
  <1>7. RxSlots(s)
    <2>1. ASSUME NEW k \in 0 .. RxSize - 1
          PROVE  /\ s.buf[at(k)] <=> k >= u + n
                 /\ s.empty[at(k)] => k >= u + n
      <3>1. (r.buf[at(k)] <=> k >= u) /\ (r.empty[at(k)] => k >= u)
        BY DEF RxSlots
      <3>2. at(k) \in Slots(RxSize)
        BY <1>1
      <3>3. s.buf[at(k)] <=> r.buf[at(k)] /\ at(k) \notin taken
        BY <1>2, <3>2
      <3>4. k >= u /\ k < u + n => ~r.empty[at(k)]
        <4>1. ASSUME k >= u, k < u + n PROVE ~r.empty[at(k)]
          <5>1. k - u \in 0 .. n - 1 /\ u + (k - u) = k
            BY <1>1, <4>1
          <5>2. ~r.empty[at(u + (k - u))]
            BY <5>1
          <5>. HIDE DEF at, u
          <5>. QED
            BY <5>1, <5>2
        <4>. QED
          BY <4>1
      <3>5. k \in Int /\ u \in Int
        BY <1>1
      <3>. HIDE DEF at, u, taken
      <3>. QED
        BY <1>2, <1>6, <3>1, <3>3, <3>4, <3>5
    <2>2. u + n <= RxSize
      BY <1>1, SMTT(30)
    <2>. HIDE DEF at, u
    <2>. QED
      BY <1>3, <1>4, <2>1, <2>2, Zenon DEF RxSlots
  <1>8. RxMac(s, p)
    <2>. SUFFICES ASSUME p.atRings PROVE RxMac(s, p)
      BY DEF RxMac
    <2>. DEFINE w == u + m.pr
    <2>1. /\ m.pr \in Nat /\ w <= RxSize /\ m.rxPos = at(w)
          /\ \A k \in 0 .. RxSize - 1 : r.empty[at(k)] <=> k >= w
      BY DEF RxMac, MacType
    <2>2. n <= m.pr
      <3>. SUFFICES ASSUME n > m.pr PROVE FALSE
        BY <2>1
      <3>1. m.pr \in 0 .. n - 1 /\ w \in 0 .. RxSize - 1 /\ w >= w
        BY <1>1, <2>1
      <3>2. ~r.empty[at(u + m.pr)]
        BY <3>1
      <3>. QED
        BY <2>1, <3>1, <3>2
    <2>3. (u + n) + p.pr = w
      BY <1>1, <2>1, <2>2
    <2>4. Used(s) + p.pr = w /\ p.rxPos = at(w)
      BY <1>3, <2>1, <2>3
    <2>5. Nth(s, w, RxSize) = at(w)
      BY <1>4
    <2>6. ASSUME NEW k \in 0 .. RxSize - 1
          PROVE  s.empty[Nth(s, k, RxSize)] <=> k >= w
      <3>1. s.empty[Nth(s, k, RxSize)] <=> r.empty[at(k)]
        BY <1>2, <1>4
      <3>. QED
        BY <2>1, <3>1
    <2>. HIDE DEF at, u, w
    <2>. QED
      BY <2>1, <2>4, <2>5, <2>6, ZenonT(60) DEF RxMac
  <1>. QED
    BY <1>5, <1>7, <1>8

\* ag71xx_ring_rx_refill gives the first k slots of the window a buffer, and the MAC them.
LEMMA RefillStep ==
  ASSUME NEW r \in RingType(RxSize), NEW m \in MacType, SizesDivide, RxSlots(r), RxMac(r, m),
         NEW n \in 0 .. Used(r), NEW s, s = Refilled(r, n)
  PROVE  /\ s \in RingType(RxSize) /\ RxSlots(s) /\ RxMac(s, m)
  <1>. DEFINE u == Used(r)
              at(k) == Nth(r, k, RxSize)
              back == {at(k) : k \in 0 .. n - 1}
  <1>1. /\ RxSize \in Nat \ {0} /\ RingOK(r, RxSize)
        /\ u \in Nat /\ u <= RxSize /\ n \in 0 .. RxSize /\ n \in Nat /\ n <= u
        /\ \A k \in Nat : at(k) \in Slots(RxSize)
    <2>1. /\ RxSize \in Nat \ {0} /\ RingOK(r, RxSize)
          /\ u \in 0 .. Wrap - 1 /\ \A k \in Nat : at(k) \in Slots(RxSize)
      BY SlotTypes, Ag71xxAssumption DEF SizesDivide
    <2>2. u <= RxSize
      BY DEF RxSlots
    <2>. QED
      BY <2>1, <2>2
  <1>2. /\ s.curr = r.curr /\ s.dirty = (r.dirty + n) % Wrap
        /\ s.buf = [i \in Slots(RxSize) |-> r.buf[i] \/ i \in back]
        /\ s.empty = [i \in Slots(RxSize) |-> r.empty[i] \/ i \in back]
        /\ r.empty \in [Slots(RxSize) -> BOOLEAN] /\ r.buf \in [Slots(RxSize) -> BOOLEAN]
    BY DEF RingType, Refilled
  <1>3. RingOK(s, RxSize) /\ Used(s) = u - n
    <2>. RingOK(r, RxSize) /\ s.curr = r.curr /\ s.dirty = (r.dirty + n) % Wrap
      BY <1>1, <1>2
    <2>. QED
      BY Retire
  <1>4. \A k \in Nat : Nth(s, k, RxSize) = at(n + k)
    <2>1. n \in Nat /\ RingOK(r, RxSize) /\ s.dirty = (r.dirty + n) % Wrap
      BY <1>1, <1>2
    <2>2. Follows(s, r, n, RxSize)
      BY <2>1, RetiredNth
    <2>. QED
      BY <2>2 DEF Follows
  <1>5. s \in RingType(RxSize)
    <2>1. s = [curr |-> s.curr, dirty |-> s.dirty, empty |-> s.empty, buf |-> s.buf]
      BY DEF RingType, Refilled
    <2>2. s.curr \in 0 .. Wrap - 1 /\ s.dirty \in 0 .. Wrap - 1
      BY <1>3 DEF RingOK
    <2>3. s.buf \in [Slots(RxSize) -> BOOLEAN] /\ s.empty \in [Slots(RxSize) -> BOOLEAN]
      BY <1>2
    <2>. QED
      BY <2>1, <2>2, <2>3, Zenon DEF RingType
  <1>6. ASSUME NEW k \in 0 .. RxSize - 1
        PROVE  at(k) \in back <=> k < n
    <2>1. k < n => k \in 0 .. n - 1
      BY <1>1
    <2>2. ASSUME k >= n, NEW j \in 0 .. n - 1, at(k) = at(j) PROVE FALSE
      <3>1. j \in 0 .. RxSize - 1
        BY <1>1
      <3>2. j = k
        BY <1>1, <2>2, <3>1, NthInjective, Zenon
      <3>. QED
        BY <1>1, <2>2, <3>2
    <2>3. k < n \/ k >= n
      BY <1>1
    <2>. QED
      BY <2>1, <2>2, <2>3
  <1>7. ASSUME NEW k \in 0 .. RxSize - 1
        PROVE  /\ s.buf[at(k)] <=> r.buf[at(k)] \/ k < n
               /\ s.empty[at(k)] <=> r.empty[at(k)] \/ k < n
    <2>1. at(k) \in Slots(RxSize)
      BY <1>1
    <2>. HIDE DEF at, back
    <2>. QED
      BY <1>2, <1>6, <2>1
  \* A slot counted from the new dirty is one counted from the old, or one that came back.
  <1>8. ASSUME NEW k \in 0 .. RxSize - 1
        PROVE  \/ /\ n + k \in 0 .. RxSize - 1
                  /\ s.buf[at(n + k)] <=> r.buf[at(n + k)]
                  /\ s.empty[at(n + k)] <=> r.empty[at(n + k)]
               \/ n + k >= RxSize /\ s.buf[at(n + k)] /\ s.empty[at(n + k)]
    <2>1. CASE n + k \in 0 .. RxSize - 1
      <3>. DEFINE j == n + k
      <3>1. j \in 0 .. RxSize - 1 /\ ~(j < n)
        BY <1>1, <2>1
      <3>. HIDE DEF j, at
      <3>2. (s.buf[at(j)] <=> r.buf[at(j)]) /\ (s.empty[at(j)] <=> r.empty[at(j)])
        BY <1>7, <3>1
      <3>. QED
        BY <3>1, <3>2 DEF j
    <2>2. CASE ~(n + k \in 0 .. RxSize - 1)
      <3>. DEFINE j == (n + k) - RxSize
      <3>1. /\ j \in 0 .. n - 1 /\ j \in 0 .. RxSize - 1 /\ n + k >= RxSize
            /\ at(n + k) = at(j)
        BY <1>1, <2>2, NthFold
      <3>2. j < n
        BY <1>1, <3>1
      <3>. HIDE DEF j, at
      <3>. QED
        BY <1>7, <3>1, <3>2
    <2>. QED
      BY <2>1, <2>2
  <1>9. RxSlots(s)
    <2>1. ASSUME NEW k \in 0 .. RxSize - 1
          PROVE  /\ s.buf[at(n + k)] <=> k >= u - n
                 /\ s.empty[at(n + k)] => k >= u - n
      <3>1. CASE n + k >= RxSize /\ s.buf[at(n + k)] /\ s.empty[at(n + k)]
        BY <1>1, <3>1
      <3>2. CASE /\ n + k \in 0 .. RxSize - 1
                 /\ s.buf[at(n + k)] <=> r.buf[at(n + k)]
                 /\ s.empty[at(n + k)] <=> r.empty[at(n + k)]
        <4>1. /\ r.buf[at(n + k)] <=> n + k >= u
              /\ r.empty[at(n + k)] => n + k >= u
          BY <3>2 DEF RxSlots
        <4>2. n + k >= u <=> k >= u - n
          BY <1>1
        <4>. HIDE DEF at, u
        <4>. QED
          BY <3>2, <4>1, <4>2
      <3>. QED
        BY <1>8, <3>1, <3>2
    <2>2. \A k \in 0 .. RxSize - 1 : Nth(s, k, RxSize) = at(n + k)
      <3>1. \A k \in 0 .. RxSize - 1 : k \in Nat
        BY <1>1
      <3>. HIDE DEF at, u
      <3>. QED
        BY <1>4, <3>1, Zenon
    <2>3. u - n <= RxSize
      BY <1>1
    <2>4. ASSUME NEW k \in 0 .. RxSize - 1
          PROVE  /\ s.buf[Nth(s, k, RxSize)] <=> k >= Used(s)
                 /\ s.empty[Nth(s, k, RxSize)] => k >= Used(s)
      <3>1. Nth(s, k, RxSize) = at(n + k) /\ Used(s) = u - n
        BY <1>3, <2>2
      <3>. HIDE DEF at, u
      <3>. QED
        BY <2>1, <3>1
    <2>5. Used(s) <= RxSize
      BY <1>3, <2>3, Zenon
    <2>. QED
      BY <2>4, <2>5, Zenon DEF RxSlots
  <1>10. RxMac(s, m)
    <2>. SUFFICES ASSUME m.atRings PROVE RxMac(s, m)
      BY DEF RxMac
    <2>. DEFINE w == u + m.pr
                v == (u - n) + m.pr
    <2>1. /\ m.pr \in Nat /\ w <= RxSize /\ m.rxPos = at(w)
          /\ \A k \in 0 .. RxSize - 1 : r.empty[at(k)] <=> k >= w
      BY DEF RxMac, MacType
    <2>2. v \in Nat /\ n + v = w /\ v <= RxSize /\ w \in Nat
      BY <1>1, <2>1
    <2>3. Nth(s, v, RxSize) = at(w)
      <3>. HIDE DEF at, u, v, w
      <3>. QED
        BY <1>4, <2>2
    <2>4. ASSUME NEW k \in 0 .. RxSize - 1
          PROVE  s.empty[Nth(s, k, RxSize)] <=> k >= v
      <3>1. Nth(s, k, RxSize) = at(n + k)
        <4>. k \in Nat
          BY <1>1
        <4>. HIDE DEF at
        <4>. QED
          BY <1>4
      <3>2. n + k >= w <=> k >= v
        BY <1>1, <2>1
      <3>3. n + k >= RxSize => k >= v
        BY <1>1, <2>1
      <3>4. n + k \in 0 .. RxSize - 1 => (r.empty[at(n + k)] <=> n + k >= w)
        BY <2>1
      <3>. HIDE DEF at, u, v, w
      <3>. QED
        BY <1>8, <3>1, <3>2, <3>3, <3>4
    <2>5. Used(s) + m.pr = v
      BY <1>3
    <2>. HIDE DEF at, u, v, w
    <2>. QED
      BY <2>1, <2>2, <2>3, <2>4, <2>5 DEF RxMac
  <1>. QED
    BY <1>5, <1>9, <1>10

----------------------------------------------------------------------------
(* How far a poll goes *)

\* All the packets at the head of the window that have been sent.
LEMMA ReapedIs ==
  ASSUME tx \in RingType(TxSize), SizesDivide
  PROVE  FirstSent(tx, Reaped)
  <1>. DEFINE u == Used(tx)
              e(k) == tx.empty[Nth(tx, k, TxSize)]
              S == {k \in 0 .. u : \A j \in 0 .. k - 1 : e(j)}
  <1>1. u \in Nat
    BY SlotTypes, Ag71xxAssumption DEF SizesDivide
  <1>2. S \subseteq Nat /\ 0 \in S /\ \A k \in S : k <= u
    BY <1>1
  <1>3. Max(S) \in S /\ \A k \in S : k <= Max(S)
    <2>. HIDE DEF S
    <2>. QED
      BY <1>1, <1>2, NatMax
  <1>4. Reaped = Max(S)
    BY DEF Reaped
  <1>5. Reaped \in S /\ \A k \in S : k <= Reaped
    BY <1>3, <1>4, Zenon
  <1>. HIDE DEF e, u
  <1>6. ASSUME Reaped < u, e(Reaped) PROVE FALSE
    <2>1. Reaped + 1 \in S
      BY <1>1, <1>5, <1>6
    <2>. QED
      BY <1>1, <1>5, <2>1
  <1>. QED
    BY <1>5, <1>6 DEF e, u, FirstSent

\* The frames that ag71xx_rx_packets takes are full descriptors next to the window.
LEMMA FoundIs ==
  ASSUME rx \in RingType(RxSize), SizesDivide, Used(rx) <= RxSize
  PROVE  Found \in 0 .. Weight /\ NextFull(rx, Found)
  <1>. DEFINE u == Used(rx)
              e(k) == rx.empty[At(k)]
              S == {k \in 0 .. Weight : u + k <= RxSize /\ \A j \in 0 .. k - 1 : ~e(j)}
  <1>1. u \in Nat /\ RxSize \in Nat /\ Weight \in Nat /\ u <= RxSize
    BY SlotTypes, Ag71xxAssumption DEF SizesDivide
  <1>2. S \subseteq Nat /\ 0 \in S /\ \A k \in S : k <= Weight
    BY <1>1
  <1>3. Max(S) \in S
    <2>. HIDE DEF S
    <2>. QED
      BY <1>1, <1>2, NatMax
  <1>4. Found = Max(S)
    BY DEF Found
  <1>5. Found \in S
    BY <1>3, <1>4, Zenon
  <1>. QED
    BY <1>1, <1>5 DEF At, NextFull

----------------------------------------------------------------------------
(* The actions *)

\* The types of what is neither ring nor register: flags, and the rest.
FlagTypes ==
  /\ rings \in BOOLEAN /\ oom \in BOOLEAN /\ stopped \in BOOLEAN
  /\ link \in BOOLEAN /\ woken \in BOOLEAN
StateTypes ==
  /\ napi \in {"idle", "sched", "disabled"}
  /\ poll \in [at : {"off", "rx", "status", "sent", "enable"}, done : 0 .. Weight]
  /\ stage \in {"none", "queued", "reset", "drain", "clean", "open", "phy", "desc", "start"}
  /\ fatal \in {"none", "assertion", "freed rings", "lost packet", "no rings"}
  /\ fails \in 0 .. MaxFails /\ drops \in 0 .. MaxDrops

\* The rings and the registers of the MAC, and what they have to do with each other.
RingPart ==
  /\ tx \in RingType(TxSize) /\ rx \in RingType(RxSize)
  /\ mac \in MacType /\ mac.pr <= RxSize /\ mac.ps <= TxSize
  /\ Rings

\* The rest of the invariant.
ControlPart ==
  FlagTypes /\ StateTypes /\ Stages /\ Room /\ LostOnlyWoken /\ (TxSize > 1 => NotStoppedEmpty)

\* The invariant in two parts.
LEMMA Parts == RingInv <=> RingPart /\ ControlPart
  BY Zenon DEF RingInv, RingPart, ControlPart, TypeOK, FlagTypes, StateTypes

\* The same after a step.
LEMMA PartsNext == RingInv' <=> RingPart' /\ ControlPart'
  BY Zenon DEF RingInv, RingPart, ControlPart, TypeOK, FlagTypes, StateTypes

\* A step that leaves the rings alone, and of the MAC what it has to do with them.
RingsAlone ==
  /\ tx' = tx /\ rx' = rx /\ mac' \in MacType
  /\ mac'.pr = mac.pr /\ mac'.ps = mac.ps /\ mac'.atRings = mac.atRings
  /\ mac'.rxPos = mac.rxPos /\ mac'.txPos = mac.txPos

\* Such a step keeps what the rings and the registers say of each other.
LEMMA RingPartKept == RingPart /\ RingsAlone => RingPart'
  <1>. SUFFICES ASSUME RingPart, RingsAlone PROVE RingPart'
    OBVIOUS
  <1>1. TxSlots(tx') /\ TxMac(tx', mac') /\ RxSlots(rx') /\ RxMac(rx', mac')
    BY DEF RingPart, Rings, RingsAlone, TxMac, RxMac
  <1>2. Rings'
    BY <1>1 DEF Rings
  <1>. QED
    BY <1>2 DEF RingPart, RingsAlone

\* What the lemmas about rings ask for.
LEMMA RingPartTypes ==
  ASSUME RingPart, SizesDivide
  PROVE  /\ Used(tx) \in Nat /\ Used(rx) \in Nat
         /\ Used(tx) <= TxSize /\ Used(rx) <= RxSize
         /\ TxSize \in Nat \ {0} /\ RxSize \in Nat \ {0}
         /\ RingOK(tx, TxSize) /\ RingOK(rx, RxSize)
  <1>1. tx \in RingType(TxSize) /\ rx \in RingType(RxSize)
    BY DEF RingPart
  <1>2. RingOK(tx, TxSize) /\ RingOK(rx, RxSize) /\ Used(tx) \in Nat /\ Used(rx) \in Nat
    BY <1>1, SlotTypes, Ag71xxAssumption DEF SizesDivide
  <1>. QED
    BY <1>2, Ag71xxAssumption DEF RingPart, Rings, TxSlots, RxSlots

\* Empty rings, at their start.
LEMMA FreshRings ==
  ASSUME SizesDivide
  PROVE  /\ FreshTx \in RingType(TxSize) /\ FreshRx \in RingType(RxSize)
         /\ Used(FreshTx) = 0 /\ Used(FreshRx) = 0
         /\ \A i \in Slots(TxSize) : FreshTx.empty[i] /\ ~FreshTx.buf[i]
         /\ \A i \in Slots(RxSize) : FreshRx.empty[i] /\ FreshRx.buf[i]
         /\ TxSlots(FreshTx) /\ RxSlots(FreshRx)
  <1>1. FreshTx \in RingType(TxSize) /\ FreshRx \in RingType(RxSize)
    BY Ag71xxAssumption DEF FreshTx, FreshRx, RingType
  <1>2. Used(FreshTx) = 0 /\ Used(FreshRx) = 0
    <2>1. /\ FreshTx.curr = 0 /\ FreshTx.dirty = 0 /\ FreshRx.curr = 0 /\ FreshRx.dirty = 0
          /\ 0 \in 0 .. Wrap - 1
      BY Ag71xxAssumption DEF FreshTx, FreshRx
    <2>. QED
      BY <2>1, UsedIs
  <1>3. \A i \in Slots(TxSize) : FreshTx.empty[i] /\ ~FreshTx.buf[i]
    BY DEF FreshTx
  <1>4. \A i \in Slots(RxSize) : FreshRx.empty[i] /\ FreshRx.buf[i]
    BY DEF FreshRx
  <1>5. /\ \A k \in Nat : Nth(FreshTx, k, TxSize) \in Slots(TxSize)
        /\ \A k \in Nat : Nth(FreshRx, k, RxSize) \in Slots(RxSize)
    BY <1>1, SlotTypes, Ag71xxAssumption DEF SizesDivide
  <1>6. ASSUME NEW k \in 0 .. TxSize - 1
        PROVE  /\ FreshTx.empty[Nth(FreshTx, k, TxSize)] /\ ~FreshTx.buf[Nth(FreshTx, k, TxSize)]
               /\ ~(k < 0)
    <2>1. k \in Nat /\ ~(k < 0)
      BY Ag71xxAssumption
    <2>. QED
      BY <1>3, <1>5, <2>1, Zenon
  <1>7. ASSUME NEW k \in 0 .. RxSize - 1
        PROVE  FreshRx.buf[Nth(FreshRx, k, RxSize)] /\ k >= 0
    <2>1. k \in Nat /\ k >= 0
      BY Ag71xxAssumption
    <2>. QED
      BY <1>4, <1>5, <2>1, Zenon
  <1>8. TxSlots(FreshTx)
    <2>1. 0 <= TxSize
      BY Ag71xxAssumption
    <2>. QED
      BY <1>2, <1>6, <2>1, Zenon DEF TxSlots
  <1>9. RxSlots(FreshRx)
    <2>1. 0 <= RxSize
      BY Ag71xxAssumption
    <2>. QED
      BY <1>2, <1>7, <2>1, Zenon DEF RxSlots
  <1>. QED
    BY <1>1, <1>2, <1>3, <1>4, <1>8, <1>9, Zenon

\* The MAC at the start of a ring that lies at its start, having sent or received nothing.
LEMMA MacAtStart ==
  ASSUME SizesDivide, NEW m, m.pr = 0, m.ps = 0, m.rxPos = 0, m.txPos = 0,
         NEW r, r.dirty = 0, Used(r) = 0
  PROVE  TxMac(r, m) /\ RxMac(FreshRx, m)
  <1>1. Nth(r, 0, TxSize) = 0 /\ Nth(FreshRx, 0, RxSize) = 0
    <2>1. 0 % Wrap = 0 /\ 0 % TxSize = 0 /\ 0 % RxSize = 0
      BY Ag71xxAssumption, ModSmall
    <2>2. FreshRx.dirty = 0
      BY DEF FreshRx
    <2>3. 0 + 0 = 0
      OBVIOUS
    <2>. QED
      BY <2>1, <2>2, <2>3, Zenon DEF Nth
  <1>2. TxMac(r, m)
    <2>1. 0 <= 0 /\ 0 .. 0 - 1 = {}
      OBVIOUS
    <2>. QED
      BY <1>1, <2>1, Zenon DEF TxMac
  <1>3. RxMac(FreshRx, m)
    <2>1. Used(FreshRx) = 0
      BY FreshRings
    <2>2. 0 + 0 = 0 /\ 0 <= RxSize
      BY Ag71xxAssumption
    <2>3. ASSUME NEW k \in 0 .. RxSize - 1
          PROVE  FreshRx.empty[Nth(FreshRx, k, RxSize)] /\ k >= 0
      <3>1. k \in Nat /\ k >= 0
        BY Ag71xxAssumption
      <3>2. FreshRx \in RingType(RxSize) /\ \A i \in Slots(RxSize) : FreshRx.empty[i]
        BY FreshRings
      <3>3. Nth(FreshRx, k, RxSize) \in Slots(RxSize)
        BY <3>1, <3>2, SlotTypes, Ag71xxAssumption DEF SizesDivide
      <3>. QED
        BY <3>1, <3>2, <3>3, Zenon
    <2>. QED
      BY <1>1, <2>1, <2>2, <2>3, Zenon DEF RxMac
  <1>. QED
    BY <1>2, <1>3

\* The interface is up, with empty rings, and the MAC is at their first slots.
LEMMA InitRings == SizesDivide /\ Init => RingInv
  <1>. SUFFICES ASSUME SizesDivide, Init PROVE RingInv
    OBVIOUS
  <1>1. tx = FreshTx /\ rx = FreshRx
    BY DEF Init
  <1>2. /\ mac \in MacType /\ mac.pr = 0 /\ mac.ps = 0 /\ mac.atRings
        /\ mac.rxPos = 0 /\ mac.txPos = 0
    BY Ag71xxAssumption DEF Init, MacType, Slots
  <1>3. TxMac(tx, mac) /\ RxMac(rx, mac)
    <2>. FreshTx.dirty = 0
      BY DEF FreshTx
    <2>. QED
      BY <1>1, <1>2, FreshRings, MacAtStart
  <1>4. RingPart
    BY <1>1, <1>2, <1>3, FreshRings, Ag71xxAssumption DEF RingPart, Rings
  <1>5. FlagTypes /\ StateTypes
    <2>1. FlagTypes
      BY Zenon DEF Init, FlagTypes
    <2>2. StateTypes
      BY Ag71xxAssumption DEF Init, StateTypes, NoPoll
    <2>. QED
      BY <2>1, <2>2
  <1>6. ControlPart
    <2>. Used(tx) = 0
      BY <1>1, FreshRings
    <2>. QED
      BY <1>2, <1>5, Ag71xxAssumption
      DEF ControlPart, Stages, Room, LostOnlyWoken, NotStoppedEmpty, Init, Dark
  <1>. QED
    BY <1>4, <1>6, Parts

\* The MAC sends a packet or stops at an empty descriptor.
LEMMA MacSendKeeps == SizesDivide /\ RingInv /\ MacSend => RingInv'
  <1>. SUFFICES ASSUME SizesDivide, RingPart, ControlPart, MacSend PROVE RingPart' /\ ControlPart'
    BY Parts, PartsNext, Zenon
  <1>1. /\ tx \in RingType(TxSize) /\ rx \in RingType(RxSize) /\ mac \in MacType
        /\ TxSlots(tx) /\ TxMac(tx, mac) /\ RxSlots(rx) /\ RxMac(rx, mac)
        /\ mac.pr <= RxSize /\ mac.ps <= TxSize
    BY DEF RingPart, Rings
  <1>2. UNCHANGED <<rx, rings, napi, poll, oom, stopped, link, stage, woken, fatal, fails, drops>>
    BY DEF MacSend
  <1>3. mac.atRings
    BY DEF MacSend
  <1>4. RingPart' /\ Used(tx') = Used(tx) /\ mac'.atRings
    <2>1. CASE tx.empty[mac.txPos]
      <3>1. tx' = tx /\ mac' = [mac EXCEPT !.txOn = FALSE]
        BY <2>1 DEF MacSend
      <3>2. RingsAlone /\ mac'.atRings
        BY <1>1, <1>2, <1>3, <3>1 DEF RingsAlone, MacType
      <3>. QED
        BY <3>1, <3>2, RingPartKept
    <2>2. CASE ~tx.empty[mac.txPos]
      <3>1. tx' = SentTx(tx, mac) /\ mac' = SentMac(mac)
        BY <2>2 DEF MacSend, SentTx, SentMac
      <3>2. /\ tx' \in RingType(TxSize) /\ mac' \in MacType /\ mac'.ps <= TxSize
            /\ Used(tx') = Used(tx) /\ TxSlots(tx') /\ TxMac(tx', mac')
        BY <1>1, <1>3, <2>2, <3>1, SendStep
      <3>3. mac'.atRings /\ mac'.pr = mac.pr /\ mac'.rxPos = mac.rxPos
        BY <1>1, <1>3, <3>1 DEF SentMac, MacType
      <3>4. RxSlots(rx') /\ RxMac(rx', mac')
        BY <1>1, <1>2, <1>3, <3>3 DEF RxMac
      <3>5. Rings'
        BY <3>2, <3>4 DEF Rings
      <3>. QED
        BY <1>1, <1>2, <3>2, <3>3, <3>5 DEF RingPart
    <2>. QED
      BY <2>1, <2>2
  <1>5. FlagTypes' /\ StateTypes' /\ LostOnlyWoken'
    <2>1. FlagTypes /\ StateTypes /\ LostOnlyWoken
      BY DEF ControlPart
    <2>2. FlagTypes' /\ LostOnlyWoken'
      BY <1>2, <2>1, Zenon DEF FlagTypes, LostOnlyWoken
    <2>3. StateTypes'
      BY <1>2, <2>1, Zenon DEF StateTypes
    <2>. QED
      BY <2>2, <2>3
  <1>6. Stages'
    BY <1>2, <1>3, <1>4 DEF ControlPart, Stages, Dark
  <1>7. Room' /\ (TxSize > 1 => NotStoppedEmpty')
    BY <1>2, <1>4 DEF ControlPart, Room, NotStoppedEmpty, Dark
  <1>. QED
    BY <1>4, <1>5, <1>6, <1>7 DEF ControlPart

\* A frame arrives.
LEMMA MacReceiveKeeps == SizesDivide /\ RingInv /\ MacReceive => RingInv'
  <1>. SUFFICES ASSUME SizesDivide, RingPart, ControlPart, MacReceive
                PROVE  RingPart' /\ ControlPart'
    BY Parts, PartsNext, Zenon
  <1>1. /\ tx \in RingType(TxSize) /\ rx \in RingType(RxSize) /\ mac \in MacType
        /\ TxSlots(tx) /\ TxMac(tx, mac) /\ RxSlots(rx) /\ RxMac(rx, mac)
        /\ mac.pr <= RxSize /\ mac.ps <= TxSize
    BY DEF RingPart, Rings
  <1>2. UNCHANGED <<tx, rings, napi, poll, oom, stopped, link, stage, woken, fatal, fails, drops>>
    BY DEF MacReceive
  <1>3. FlagTypes' /\ StateTypes' /\ LostOnlyWoken'
    <2>1. FlagTypes /\ StateTypes /\ LostOnlyWoken
      BY DEF ControlPart
    <2>2. FlagTypes' /\ LostOnlyWoken'
      BY <1>2, <2>1, Zenon DEF FlagTypes, LostOnlyWoken
    <2>3. StateTypes'
      BY <1>2, <2>1, Zenon DEF StateTypes
    <2>. QED
      BY <2>2, <2>3
  <1>4. Room' /\ (TxSize > 1 => NotStoppedEmpty')
    BY <1>2 DEF ControlPart, Room, NotStoppedEmpty, Dark
  <1>5. RingPart' /\ Stages'
    <2>1. CASE ~mac.atRings \/ ~rx.empty[mac.rxPos]
      <3>1. rx' = rx /\ mac' = [mac EXCEPT !.of = TRUE, !.rxOn = FALSE]
        BY <2>1 DEF MacReceive
      <3>2. RingsAlone
        BY <1>1, <1>2, <3>1 DEF RingsAlone, MacType
      <3>3. Stages'
        BY <1>2, <3>2 DEF ControlPart, Stages, RingsAlone
      <3>. QED
        BY <3>2, <3>3, RingPartKept
    <2>2. CASE mac.atRings /\ rx.empty[mac.rxPos]
      <3>1. rx' = FilledRx(rx, mac) /\ mac' = FilledMac(mac)
        BY <2>2 DEF MacReceive, FilledRx, FilledMac
      <3>2. /\ rx' \in RingType(RxSize) /\ mac' \in MacType /\ mac'.pr <= RxSize
            /\ RxSlots(rx') /\ RxMac(rx', mac')
        BY <1>1, <2>2, <3>1, ReceiveStep
      <3>3. mac'.atRings /\ mac'.ps = mac.ps /\ mac'.txPos = mac.txPos
        BY <1>1, <2>2, <3>1 DEF FilledMac, MacType
      <3>4. TxSlots(tx') /\ TxMac(tx', mac')
        BY <1>1, <1>2, <2>2, <3>3 DEF TxMac
      <3>5. Rings'
        BY <3>2, <3>4 DEF Rings
      <3>6. RingPart'
        BY <1>1, <1>2, <3>2, <3>3, <3>5 DEF RingPart
      <3>7. Stages'
        BY <1>2, <2>2, <3>3 DEF ControlPart, Stages, Dark
      <3>. QED
        BY <3>6, <3>7
    <2>. QED
      BY <2>1, <2>2
  <1>. QED
    BY <1>3, <1>4, <1>5 DEF ControlPart

\* The steps that leave the rings to themselves.
Quiet ==
  \/ Interrupt \/ PollStatus \/ PollSent \/ PollEnable \/ OomTimer \/ LinkDown \/ LinkUp
  \/ Watchdog \/ StopPhy \/ StopNapi \/ OpenRings \/ OpenPhy \/ OpenQueue

\* They touch neither ring and no position or count of the MAC.
LEMMA QuietLeavesRings == RingPart /\ Quiet => RingsAlone
  <1>. SUFFICES ASSUME mac \in MacType, Quiet PROVE RingsAlone
    BY DEF RingPart
  <1>. USE DEF RingsAlone, MacType
  <1>1. CASE Interrupt
    BY <1>1 DEF Interrupt
  <1>2. CASE PollStatus
    BY <1>2 DEF PollStatus, RxRestarted
  <1>3. CASE PollSent
    BY <1>3 DEF PollSent
  <1>4. CASE PollEnable
    BY <1>4 DEF PollEnable
  <1>5. CASE OomTimer
    BY <1>5 DEF OomTimer
  <1>6. CASE LinkDown
    BY <1>6 DEF LinkDown, HwStop
  <1>7. CASE LinkUp
    BY <1>7 DEF LinkUp, HwStart
  <1>8. CASE Watchdog
    BY <1>8 DEF Watchdog
  <1>9. CASE StopPhy
    BY <1>9 DEF StopPhy, HwStop
  <1>10. CASE StopNapi
    BY <1>10 DEF StopNapi
  <1>11. CASE OpenRings
    BY <1>11 DEF OpenRings
  <1>12. CASE OpenPhy
    BY <1>12 DEF OpenPhy, HwStart
  <1>13. CASE OpenQueue
    BY <1>13 DEF OpenQueue
  <1>. QED
    BY <1>1, <1>2, <1>3, <1>4, <1>5, <1>6, <1>7, <1>8, <1>9, <1>10, <1>11, <1>12, <1>13 DEF Quiet

\* They keep the types of the flags.
LEMMA QuietFlagTypes == FlagTypes /\ Quiet => FlagTypes'
  BY Zenon DEF FlagTypes, Quiet, Interrupt, PollStatus, PollSent, PollEnable, OomTimer, LinkDown,
     LinkUp, Watchdog, StopPhy, StopNapi, OpenRings, OpenPhy, OpenQueue, QueueStarted

\* They keep the other types.
LEMMA QuietStateTypes == StateTypes /\ Quiet => StateTypes'
  <1>. SUFFICES ASSUME StateTypes, Quiet PROVE StateTypes'
    OBVIOUS
  <1>. MaxFails \in Nat /\ MaxDrops \in Nat /\ Weight \in Nat
    BY Ag71xxAssumption
  <1>. USE DEF StateTypes
  <1>1. CASE Interrupt
    BY <1>1 DEF Interrupt, Scheduled
  <1>2. CASE PollStatus
    <2>1. poll' = NoPoll \/ poll' = [poll EXCEPT !.at = "sent"]
      BY <1>2, Zenon DEF PollStatus
    <2>2. /\ napi' = napi \/ napi' = "idle"
          /\ UNCHANGED <<stage, fatal, fails, drops>>
      BY <1>2, Zenon DEF PollStatus
    <2>3. poll' \in [at : {"off", "rx", "status", "sent", "enable"}, done : 0 .. Weight]
      <3>1. CASE poll' = NoPoll
        <4>. HIDE DEF StateTypes
        <4>1. 0 \in 0 .. Weight
          OBVIOUS
        <4>. QED
          BY <3>1, <4>1 DEF NoPoll
      <3>2. CASE poll' # NoPoll
        BY <2>1, <3>2
      <3>. QED
        BY <3>1, <3>2
    <2>. QED
      BY <2>2, <2>3, Zenon
  <1>3. CASE PollSent
    <2>1. poll' = NoPoll \/ poll' = [poll EXCEPT !.at = "enable"]
      BY <1>3, Zenon DEF PollSent
    <2>2. /\ napi' = napi \/ napi' = "idle"
          /\ UNCHANGED <<stage, fatal, fails, drops>>
      BY <1>3, Zenon DEF PollSent
    <2>3. poll' \in [at : {"off", "rx", "status", "sent", "enable"}, done : 0 .. Weight]
      <3>1. CASE poll' = NoPoll
        <4>. HIDE DEF StateTypes
        <4>1. 0 \in 0 .. Weight
          OBVIOUS
        <4>. QED
          BY <3>1, <4>1 DEF NoPoll
      <3>2. CASE poll' # NoPoll
        BY <2>1, <3>2
      <3>. QED
        BY <3>1, <3>2
    <2>. QED
      BY <2>2, <2>3, Zenon
  <1>4. CASE PollEnable
    <2>1. poll' = NoPoll \/ poll' = poll
      BY <1>4, Zenon DEF PollEnable
    <2>2. /\ napi' = napi \/ napi' = "idle"
          /\ UNCHANGED <<stage, fatal, fails, drops>>
      BY <1>4, Zenon DEF PollEnable
    <2>3. poll' \in [at : {"off", "rx", "status", "sent", "enable"}, done : 0 .. Weight]
      <3>1. CASE poll' = NoPoll
        <4>. HIDE DEF StateTypes
        <4>1. 0 \in 0 .. Weight
          OBVIOUS
        <4>. QED
          BY <3>1, <4>1 DEF NoPoll
      <3>2. CASE poll' # NoPoll
        BY <2>1, <3>2
      <3>. QED
        BY <3>1, <3>2
    <2>. QED
      BY <2>2, <2>3, Zenon
  <1>5. CASE OomTimer
    BY <1>5 DEF OomTimer, Scheduled
  <1>6. CASE LinkDown
    <2>1. drops < MaxDrops /\ drops' = drops + 1 /\ UNCHANGED <<napi, poll, stage, fatal, fails>>
      BY <1>6, Zenon DEF LinkDown
    <2>2. drops' \in 0 .. MaxDrops
      <3>1. drops \in 0 .. MaxDrops /\ drops < MaxDrops /\ drops' = drops + 1
        BY <2>1, Zenon
      <3>. HIDE DEF StateTypes
      <3>. QED
        BY <3>1
    <2>. QED
      BY <2>1, <2>2, Zenon
  <1>7. CASE LinkUp
    BY <1>7 DEF LinkUp
  <1>8. CASE Watchdog
    BY <1>8 DEF Watchdog
  <1>9. CASE StopPhy
    BY <1>9 DEF StopPhy
  <1>10. CASE StopNapi
    BY <1>10 DEF StopNapi
  <1>11. CASE OpenRings
    <2>1. /\ \/ napi' = "idle" /\ stage' = "phy" /\ fatal' = fatal /\ fails' = fails
             \/ /\ fails < MaxFails /\ fails' = fails + 1 /\ fatal' = "no rings"
                /\ napi' = napi /\ stage' = stage
          /\ UNCHANGED <<poll, drops>>
      BY <1>11, Zenon DEF OpenRings
    <2>2. fails' \in 0 .. MaxFails
      <3>1. fails \in 0 .. MaxFails /\ (fails' = fails \/ (fails < MaxFails /\ fails' = fails + 1))
        BY <2>1, Zenon
      <3>. HIDE DEF StateTypes
      <3>. QED
        BY <3>1
    <2>. QED
      BY <2>1, <2>2, Zenon
  <1>12. CASE OpenPhy
    BY <1>12 DEF OpenPhy
  <1>13. CASE OpenQueue
    BY <1>13 DEF OpenQueue, QueueStarted
  <1>. QED
    BY <1>1, <1>2, <1>3, <1>4, <1>5, <1>6, <1>7, <1>8, <1>9, <1>10, <1>11, <1>12, <1>13 DEF Quiet

\* They keep the invariant.
LEMMA QuietKeeps == SizesDivide /\ RingInv /\ Quiet => RingInv'
  <1>. SUFFICES ASSUME SizesDivide, RingPart, ControlPart, Quiet PROVE RingPart' /\ ControlPart'
    BY Parts, PartsNext, Zenon
  <1>1. RingsAlone
    BY QuietLeavesRings
  <1>2. RingPart'
    BY <1>1, RingPartKept
  <1>3. FlagTypes' /\ StateTypes'
    BY QuietFlagTypes, QuietStateTypes DEF ControlPart
  <1>4. /\ tx' = tx /\ rx' = rx /\ Used(tx') = Used(tx) /\ 0 < TxSize
        /\ mac'.pr = mac.pr /\ mac'.ps = mac.ps /\ mac'.atRings = mac.atRings
        /\ mac'.rxPos = mac.rxPos /\ mac'.txPos = mac.txPos
    BY <1>1, Ag71xxAssumption DEF RingsAlone
  <1>5. Stages'
    <2>1. stage' \in {"clean", "open"} => napi' = "disabled" /\ poll'.at = "off"
      BY DEF ControlPart, Stages, Quiet, Interrupt, PollStatus, PollSent, PollEnable, OomTimer,
         LinkDown, LinkUp, Watchdog, StopPhy, StopNapi, OpenRings, OpenPhy, OpenQueue, Scheduled,
         Process
    <2>2. /\ stage' \in Dark <=> stage \in Dark
          /\ stage' \in {"open", "phy", "desc"} => stage \in {"open", "phy", "desc"}
      BY DEF Dark, Quiet, Interrupt, PollStatus, PollSent, PollEnable, OomTimer,
         LinkDown, LinkUp, Watchdog, StopPhy, StopNapi, OpenRings, OpenPhy, OpenQueue
    <2>3. Stages
      BY DEF ControlPart
    <2>. QED
      BY <1>4, <2>1, <2>2, <2>3, Zenon DEF Stages
  <1>6. CASE UNCHANGED <<stage, stopped, woken, fatal>>
    <2>1. Room' /\ LostOnlyWoken' /\ (TxSize > 1 => NotStoppedEmpty')
      BY <1>4, <1>6 DEF ControlPart, Room, LostOnlyWoken, NotStoppedEmpty
    <2>. QED
      BY <1>2, <1>3, <1>5, <2>1 DEF ControlPart
  <1>7. CASE Watchdog \/ StopPhy \/ StopNapi \/ OpenRings \/ OpenPhy \/ OpenQueue
    <2>1. Room'
      BY <1>4, <1>7 DEF ControlPart, Room, Dark, QueueStarted,
         Watchdog, StopPhy, StopNapi, OpenRings, OpenPhy, OpenQueue
    <2>2. LostOnlyWoken' /\ (TxSize > 1 => NotStoppedEmpty')
      BY <1>4, <1>7 DEF ControlPart, LostOnlyWoken, NotStoppedEmpty, QueueStarted,
         Watchdog, StopPhy, StopNapi, OpenRings, OpenPhy, OpenQueue
    <2>. QED
      BY <1>2, <1>3, <1>5, <2>1, <2>2 DEF ControlPart
  <1>8. UNCHANGED <<stage, stopped, woken, fatal>>
        \/ Watchdog \/ StopPhy \/ StopNapi \/ OpenRings \/ OpenPhy \/ OpenQueue
    BY DEF Quiet, Interrupt, PollStatus, PollSent, PollEnable, OomTimer, LinkDown, LinkUp
  <1>. QED
    BY <1>6, <1>7, <1>8

\* ag71xx_hard_start_xmit.
LEMMA XmitKeeps == SizesDivide /\ RingInv /\ fatal = "none" /\ Xmit => RingInv'
  <1>. SUFFICES ASSUME SizesDivide, RingPart, ControlPart, fatal = "none", Xmit
                PROVE  RingPart' /\ ControlPart'
    BY Parts, PartsNext, Zenon
  <1>1. /\ tx \in RingType(TxSize) /\ rx \in RingType(RxSize) /\ mac \in MacType
        /\ TxSlots(tx) /\ TxMac(tx, mac) /\ RxSlots(rx) /\ RxMac(rx, mac)
        /\ mac.pr <= RxSize /\ mac.ps <= TxSize
    BY DEF RingPart, Rings
  <1>2. /\ RingOK(tx, TxSize) /\ Used(tx) \in Nat /\ TxSize \in Nat \ {0}
    BY RingPartTypes
  <1>3. UNCHANGED <<rx, rings, napi, poll, oom, link, stage, woken, fails, drops>> /\ ~stopped
    BY DEF Xmit
  <1>4. FlagTypes /\ StateTypes /\ Stages /\ Room /\ LostOnlyWoken
    BY DEF ControlPart
  <1>5. CASE /\ rings /\ tx.empty[tx.curr % TxSize] /\ ~tx.buf[tx.curr % TxSize]
             /\ tx' = PutTx(tx) /\ stopped' = NowFull(tx')
             /\ mac' = [mac EXCEPT !.txOn = TRUE] /\ fatal' = fatal
    <2>1. /\ mac' \in MacType /\ mac'.pr = mac.pr /\ mac'.ps = mac.ps
          /\ mac'.rxPos = mac.rxPos /\ mac'.txPos = mac.txPos /\ mac'.atRings = mac.atRings
      BY <1>1, <1>5 DEF MacType
    <2>2. /\ tx' \in RingType(TxSize)
          /\ Used(tx') = Used(tx) + 1 /\ TxSlots(tx') /\ TxMac(tx', mac')
      BY <1>1, <1>5, <2>1, PutStep
    <2>3. RxSlots(rx') /\ RxMac(rx', mac')
      BY <1>1, <1>3, <2>1 DEF RxMac
    <2>4. Rings'
      BY <2>2, <2>3 DEF Rings
    <2>5. RingPart'
      BY <1>1, <1>3, <2>1, <2>2, <2>4 DEF RingPart
    <2>6. FlagTypes'
      BY <1>3, <1>4, <1>5, Zenon DEF FlagTypes, NowFull
    <2>7. StateTypes'
      BY <1>3, <1>4, <1>5, Zenon DEF StateTypes
    <2>8. stopped' <=> Used(tx') = TxSize
      BY <1>5 DEF NowFull
    <2>9. tx'.dirty = tx.dirty /\ tx'.buf[tx.curr % TxSize] /\ ~tx'.empty[tx.curr % TxSize]
          /\ \A i \in Slots(TxSize) : i # tx.curr % TxSize =>
               tx'.buf[i] = tx.buf[i] /\ tx'.empty[i] = tx.empty[i]
      <3>1. tx.curr % TxSize \in Slots(TxSize)
        BY <1>2 DEF RingOK, Slots
      <3>2. tx.empty \in [Slots(TxSize) -> BOOLEAN] /\ tx.buf \in [Slots(TxSize) -> BOOLEAN]
        BY <1>1 DEF RingType
      <3>. DEFINE i == tx.curr % TxSize
      <3>. HIDE DEF i
      <3>3. /\ tx'.dirty = tx.dirty /\ tx'.buf = [tx.buf EXCEPT ![i] = TRUE]
            /\ tx'.empty = [tx.empty EXCEPT ![i] = FALSE]
        BY <1>1, <1>5 DEF PutTx, RingType, i
      <3>4. i \in Slots(TxSize)
        BY <3>1 DEF i
      <3>5. /\ tx'.buf[i] /\ ~tx'.empty[i]
            /\ \A j \in Slots(TxSize) : j # i =>
                 tx'.buf[j] = tx.buf[j] /\ tx'.empty[j] = tx.empty[j]
        BY <3>2, <3>3, <3>4
      <3>. QED
        BY <3>3, <3>5 DEF i
    <2>10. Stages'
      BY <1>3, <1>4, <2>1, <2>9 DEF Stages
    <2>11. Room'
      <3>1. Used(tx') <= TxSize
        BY <2>2 DEF TxSlots
      <3>2. ~woken => /\ stage \notin Dark \cup {"start"}
                      /\ stage \notin {"open", "phy", "desc", "start"}
        BY <1>3, <1>4 DEF Room, Dark
      <3>3. ~stopped' => Used(tx') < TxSize
        BY <1>2, <2>2, <2>8, <3>1
      <3>. QED
        BY <1>3, <3>2, <3>3, Zenon DEF Room
    <2>12. LostOnlyWoken'
      BY <1>3, <1>4, <1>5, Zenon DEF LostOnlyWoken
    <2>13. NotStoppedEmpty'
      BY <1>2, <2>2 DEF NotStoppedEmpty
    <2>. QED
      BY <2>5, <2>6, <2>7, <2>10, <2>11, <2>12, <2>13 DEF ControlPart
  <1>6. CASE /\ UNCHANGED <<tx, mac, stopped>>
             /\ fatal' = "freed rings" \/ (fatal' = "lost packet" /\ tx.buf[tx.curr % TxSize])
    <2>1. RingsAlone
      BY <1>1, <1>3, <1>6 DEF RingsAlone
    <2>2. RingPart'
      BY <2>1, RingPartKept
    <2>3. FlagTypes' /\ StateTypes'
      BY <1>3, <1>4, <1>6, ZenonT(60) DEF FlagTypes, StateTypes
    <2>4. Stages'
      BY <1>3, <1>4, <1>6 DEF Stages
    <2>5. Room'
      BY <1>3, <1>4, <1>6 DEF Room
    <2>6. LostOnlyWoken'
      <3>. SUFFICES ASSUME tx.buf[tx.curr % TxSize], ~woken PROVE FALSE
        BY <1>3, <1>6 DEF LostOnlyWoken
      <3>1. Used(tx) < TxSize
        BY <1>3, <1>4 DEF Room
      <3>2. (tx.curr + 0) % TxSize = Nth(tx, Used(tx) + 0, TxSize)
        BY <1>2, CurrSlot
      <3>3. tx.curr + 0 = tx.curr /\ Used(tx) + 0 = Used(tx)
        BY <1>2, Ag71xxAssumption DEF RingOK
      <3>4. Used(tx) \in 0 .. TxSize - 1 /\ ~(Used(tx) < Used(tx))
        BY <1>2, <3>1
      <3>5. ~tx.buf[Nth(tx, Used(tx), TxSize)]
        BY <1>1, <3>4, Zenon DEF TxSlots
      <3>. QED
        BY <3>2, <3>3, <3>5, Zenon
    <2>7. NotStoppedEmpty'
      BY <1>6 DEF NotStoppedEmpty
    <2>. QED
      BY <2>2, <2>3, <2>4, <2>5, <2>6, <2>7 DEF ControlPart
  <1>7. \/ /\ rings /\ tx.empty[tx.curr % TxSize] /\ ~tx.buf[tx.curr % TxSize]
           /\ tx' = PutTx(tx) /\ stopped' = NowFull(tx')
           /\ mac' = [mac EXCEPT !.txOn = TRUE] /\ fatal' = fatal
        \/ /\ UNCHANGED <<tx, mac, stopped>>
           /\ fatal' = "freed rings" \/ (fatal' = "lost packet" /\ tx.buf[tx.curr % TxSize])
    BY Zenon DEF Xmit, PutTx
  <1>. QED
    BY <1>5, <1>6, <1>7

\* ag71xx_tx_packets.
LEMMA PollTxKeeps == SizesDivide /\ RingInv /\ PollTx => RingInv'
  <1>. SUFFICES ASSUME SizesDivide, RingPart, ControlPart, PollTx
                PROVE  RingPart' /\ ControlPart'
    BY Parts, PartsNext, Zenon
  <1>. DEFINE n == Reaped
              woke == n > 0 /\ Wakes(tx')
  <1>1. /\ tx \in RingType(TxSize) /\ rx \in RingType(RxSize) /\ mac \in MacType
        /\ TxSlots(tx) /\ TxMac(tx, mac) /\ RxSlots(rx) /\ RxMac(rx, mac)
        /\ mac.pr <= RxSize /\ mac.ps <= TxSize /\ mac.ps \in Nat
    BY DEF RingPart, Rings, MacType
  <1>2. /\ RingOK(tx, TxSize) /\ Used(tx) \in Nat /\ TxSize \in Nat \ {0}
    BY RingPartTypes
  <1>3. UNCHANGED <<rx, rings, napi, oom, link, stage, fatal, fails, drops>> /\ napi = "sched"
    BY DEF PollTx
  <1>4. /\ FlagTypes /\ StateTypes /\ Stages /\ Room /\ LostOnlyWoken
        /\ TxSize > 1 => NotStoppedEmpty
    BY DEF ControlPart
  <1>5. /\ tx' = ReapedTx(tx, n)
        /\ mac' = [mac EXCEPT !.ps = IF @ >= n THEN @ - n ELSE 0]
        /\ stopped' = (stopped /\ ~woke)
        /\ woken' = (woken \/ (stage = "drain" /\ woke))
        /\ poll' = [at |-> "rx", done |-> 0]
    <2>1. tx' = ReapedTx(tx, n)
      BY Zenon DEF PollTx, ReapedTx
    <2>2. /\ mac' = [mac EXCEPT !.ps = IF @ >= n THEN @ - n ELSE 0]
          /\ poll' = [at |-> "rx", done |-> 0]
      BY Zenon DEF PollTx
    <2>3. /\ stopped' = (stopped /\ ~woke)
          /\ woken' = (woken \/ (stage = "drain" /\ woke))
      BY Zenon DEF PollTx
    <2>. QED
      BY <2>1, <2>2, <2>3
  <1>6. n \in 0 .. Used(tx) /\ FirstSent(tx, n)
    BY <1>1, ReapedIs DEF FirstSent
  <1>. HIDE DEF n, woke
  <1>7. /\ mac' \in MacType /\ mac'.pr = mac.pr
        /\ mac'.ps = IF mac.ps >= n THEN mac.ps - n ELSE 0
        /\ mac'.rxPos = mac.rxPos /\ mac'.txPos = mac.txPos /\ mac'.atRings = mac.atRings
    <2>. DEFINE p == IF mac.ps >= n THEN mac.ps - n ELSE 0
    <2>1. p \in Nat
      BY <1>1, <1>2, <1>6
    <2>2. mac' = [mac EXCEPT !.ps = p]
      BY <1>5
    <2>. HIDE DEF p
    <2>3. /\ mac' \in MacType /\ mac'.pr = mac.pr /\ mac'.ps = p
          /\ mac'.rxPos = mac.rxPos /\ mac'.txPos = mac.txPos /\ mac'.atRings = mac.atRings
      BY <1>1, <2>1, <2>2 DEF MacType
    <2>. QED
      BY <2>3 DEF p
  <1>8. mac'.ps <= TxSize
    BY <1>1, <1>2, <1>6, <1>7
  <1>9. /\ tx' \in RingType(TxSize)
        /\ Used(tx') = Used(tx) - n /\ TxSlots(tx') /\ TxMac(tx', mac')
    <2>1. tx' = ReapedTx(tx, n) /\ FirstSent(tx, n)
      BY <1>5, <1>6, Zenon
    <2>2. /\ mac'.ps = IF mac.ps >= n THEN mac.ps - n ELSE 0
          /\ mac'.txPos = mac.txPos /\ mac'.atRings = mac.atRings
      BY <1>7, Zenon
    <2>3. tx \in RingType(TxSize) /\ mac \in MacType /\ TxSlots(tx) /\ TxMac(tx, mac)
      BY <1>1, Zenon
    <2>. QED
      BY <2>1, <2>2, <2>3, ReapStep
  <1>10. RxSlots(rx') /\ RxMac(rx', mac')
    BY <1>1, <1>3, <1>7 DEF RxMac
  <1>11. Rings'
    BY <1>9, <1>10 DEF Rings
  <1>12. RingPart'
    BY <1>1, <1>3, <1>7, <1>8, <1>9, <1>11 DEF RingPart
  <1>13. FlagTypes'
    BY <1>3, <1>4, <1>5, Zenon DEF FlagTypes
  <1>14. StateTypes'
    <2>1. poll' \in [at : {"off", "rx", "status", "sent", "enable"}, done : 0 .. Weight]
      BY <1>5, Ag71xxAssumption
    <2>. QED
      BY <1>3, <1>4, <2>1, Zenon DEF StateTypes
  <1>15. stage \in {"open", "phy", "desc"} => n = 0
    <2>. SUFFICES ASSUME stage \in {"open", "phy", "desc"}, n # 0 PROVE FALSE
      OBVIOUS
    <2>1. 0 \in 0 .. n - 1 /\ 0 < Used(tx) /\ 0 \in 0 .. TxSize - 1 /\ 0 \in Nat
      BY <1>2, <1>6
    <2>2. tx.empty[Nth(tx, 0, TxSize)]
      BY <1>6, <2>1, Zenon DEF FirstSent
    <2>3. tx.buf[Nth(tx, 0, TxSize)]
      BY <1>1, <2>1, Zenon DEF TxSlots
    <2>4. Nth(tx, 0, TxSize) \in Slots(TxSize)
      BY <1>2, <2>1, NthIs
    <2>. QED
      BY <1>4, <2>2, <2>3, <2>4, Zenon DEF Stages
  <1>16. n = 0 => tx'.dirty = tx.dirty /\ tx'.buf = tx.buf /\ tx'.empty = tx.empty
    <2>. SUFFICES ASSUME n = 0
                  PROVE  tx'.dirty = tx.dirty /\ tx'.buf = tx.buf /\ tx'.empty = tx.empty
      OBVIOUS
    <2>1. tx.buf \in [Slots(TxSize) -> BOOLEAN] /\ tx.dirty \in 0 .. Wrap - 1
      BY <1>1 DEF RingType
    <2>2. {Nth(tx, k, TxSize) : k \in 0 .. n - 1} = {}
      BY <1>6
    <2>3. /\ tx'.dirty = (tx.dirty + n) % Wrap /\ tx'.empty = tx.empty
          /\ tx'.buf = [i \in Slots(TxSize) |->
                         tx.buf[i] /\ i \notin {Nth(tx, k, TxSize) : k \in 0 .. n - 1}]
      BY <1>1, <1>5 DEF ReapedTx, RingType
    <2>4. tx.dirty + n = tx.dirty /\ tx.dirty % Wrap = tx.dirty
      <3>. DEFINE d == tx.dirty
      <3>1. d \in 0 .. Wrap - 1 /\ d + 0 = d /\ Wrap \in Nat \ {0}
        BY <2>1, Ag71xxAssumption
      <3>. HIDE DEF d
      <3>2. d % Wrap = d
        BY <3>1, ModSmall
      <3>. QED
        BY <3>1, <3>2 DEF d
    <2>5. [i \in Slots(TxSize) |->
             tx.buf[i] /\ i \notin {Nth(tx, k, TxSize) : k \in 0 .. n - 1}] = tx.buf
      BY <2>1, <2>2
    <2>. QED
      BY <2>3, <2>4, <2>5
  <1>17. Stages'
    <2>1. ~mac.atRings => mac'.ps = 0
      BY <1>4, <1>6, <1>7, <1>2 DEF Stages
    <2>2. stage \notin {"clean", "open"}
      BY <1>3, <1>4 DEF Stages
    <2>. QED
      BY <1>3, <1>4, <1>7, <1>15, <1>16, <2>1, <2>2 DEF Stages
  <1>18. woke => Used(tx') < TxSize /\ n # 0
    <2>1. (TxSize * 3) \div 4 <= TxSize
      BY <1>2
    <2>. QED
      BY <1>2, <1>6, <1>9, <2>1 DEF woke, Wakes
  <1>19. Room'
    <2>. SUFFICES ASSUME ~woken'
                  PROVE  /\ ~stopped' => Used(tx') < TxSize
                         /\ stage \in Dark \cup {"start"} => stopped'
                         /\ stage \in {"open", "phy", "desc", "start"} => Used(tx') = 0
      BY <1>3, Zenon DEF Room
    <2>1. ~woken /\ ~(stage = "drain" /\ woke)
      BY <1>5, Zenon
    <2>2. /\ ~stopped => Used(tx) < TxSize
          /\ stage \in Dark \cup {"start"} => stopped
          /\ stage \in {"open", "phy", "desc", "start"} => Used(tx) = 0
      BY <1>4, <2>1, Zenon DEF Room
    <2>3. ~stopped' => Used(tx') < TxSize
      <3>1. ~stopped \/ woke \/ stopped'
        BY <1>5, Zenon
      <3>2. ~stopped => Used(tx') < TxSize
        BY <1>2, <1>6, <1>9, <2>2
      <3>. QED
        BY <1>18, <3>1, <3>2, Zenon
    <2>4. stage \in {"open", "phy", "desc", "start"} => Used(tx') = 0 /\ n = 0
      BY <1>2, <1>6, <1>9, <2>2
    <2>5. stage \notin {"clean", "open"}
      BY <1>3, <1>4 DEF Stages
    <2>6. stage \in Dark \cup {"start"} => stopped'
      <3>1. stage \in Dark \cup {"start"} => ~woke
        BY <1>18, <2>1, <2>4, <2>5 DEF Dark
      <3>. QED
        BY <1>5, <2>2, <3>1, Zenon
    <2>. QED
      BY <2>3, <2>4, <2>6
  <1>20. LostOnlyWoken'
    BY <1>3, <1>4, <1>5, Zenon DEF LostOnlyWoken
  <1>21. TxSize > 1 => NotStoppedEmpty'
    <2>. SUFFICES ASSUME TxSize > 1, stopped', stage \in {"none", "queued"}, fatal = "none"
                  PROVE  Used(tx') > 0
      BY <1>3, Zenon DEF NotStoppedEmpty
    <2>1. stopped /\ ~woke
      BY <1>5, Zenon
    <2>2. Used(tx) > 0
      BY <1>4, <2>1, Zenon DEF NotStoppedEmpty
    <2>3. (TxSize * 3) \div 4 >= 1
      BY <1>2
    <2>. QED
      BY <1>2, <1>6, <1>9, <2>1, <2>2, <2>3 DEF woke, Wakes
  <1>. QED
    BY <1>12, <1>13, <1>14, <1>17, <1>19, <1>20, <1>21 DEF ControlPart

\* A ring with nothing to take and nothing to refill stays as it is.
LEMMA NothingToRefill ==
  ASSUME SizesDivide
  PROVE  /\ \A n : NextFull(FreshRx, n) => n = 0
         /\ Used(TakenRx(FreshRx, 0)) = 0 /\ Refilled(TakenRx(FreshRx, 0), 0) = FreshRx
  <1>1. FreshRx \in RingType(RxSize) /\ Used(FreshRx) = 0
        /\ \A i \in Slots(RxSize) : FreshRx.empty[i] /\ FreshRx.buf[i]
    BY FreshRings
  <1>2. ASSUME NEW n, NextFull(FreshRx, n), n # 0 PROVE FALSE
    <2>1. 0 \in 0 .. n - 1 /\ 0 + 0 = 0 /\ 0 \in Nat
      BY <1>2 DEF NextFull
    <2>2. ~FreshRx.empty[Nth(FreshRx, 0, RxSize)]
      BY <1>1, <1>2, <2>1, Zenon DEF NextFull
    <2>3. Nth(FreshRx, 0, RxSize) \in Slots(RxSize)
      BY <1>1, <2>1, SlotTypes, Ag71xxAssumption DEF SizesDivide
    <2>. QED
      BY <1>1, <2>2, <2>3, Zenon
  <1>3. 0 .. 0 - 1 = {} /\ 0 + 0 = 0 /\ 0 % Wrap = 0
    BY Ag71xxAssumption, ModSmall
  <1>4. TakenRx(FreshRx, 0) = FreshRx
    <2>. DEFINE T == {Nth(FreshRx, Used(FreshRx) + k, RxSize) : k \in 0 .. 0 - 1}
                b == [i \in Slots(RxSize) |-> FreshRx.buf[i] /\ i \notin T]
    <2>1. T = {}
      BY <1>3
    <2>2. b = FreshRx.buf
      <3>. HIDE DEF T
      <3>. QED
        BY <2>1 DEF FreshRx
    <2>3. TakenRx(FreshRx, 0) = [FreshRx EXCEPT !.curr = (@ + 0) % Wrap, !.buf = b]
      BY Zenon DEF TakenRx
    <2>4. FreshRx.curr + 0 = 0 /\ FreshRx.curr = 0
      BY DEF FreshRx
    <2>5. TakenRx(FreshRx, 0) = [FreshRx EXCEPT !.curr = FreshRx.curr, !.buf = FreshRx.buf]
      BY <1>3, <2>2, <2>3, <2>4, Zenon
    <2>. QED
      BY <1>1, <2>5 DEF RingType
  <1>5. Refilled(FreshRx, 0) = FreshRx
    <2>. DEFINE T == {Nth(FreshRx, k, RxSize) : k \in 0 .. 0 - 1}
                b == [i \in Slots(RxSize) |-> FreshRx.buf[i] \/ i \in T]
                e == [i \in Slots(RxSize) |-> FreshRx.empty[i] \/ i \in T]
    <2>1. T = {}
      BY <1>3
    <2>2. b = FreshRx.buf /\ e = FreshRx.empty
      <3>. HIDE DEF T
      <3>. QED
        BY <2>1 DEF FreshRx
    <2>3. Refilled(FreshRx, 0) = [FreshRx EXCEPT !.dirty = (@ + 0) % Wrap, !.buf = b, !.empty = e]
      BY Zenon DEF Refilled
    <2>4. FreshRx.dirty + 0 = 0 /\ FreshRx.dirty = 0
      BY DEF FreshRx
    <2>5. Refilled(FreshRx, 0) = [FreshRx EXCEPT !.dirty = FreshRx.dirty, !.buf = FreshRx.buf,
                                                 !.empty = FreshRx.empty]
      BY <1>3, <2>2, <2>3, <2>4, Zenon
    <2>. QED
      BY <1>1, <2>5 DEF RingType
  <1>. QED
    BY <1>1, <1>2, <1>4, <1>5

\* ag71xx_rx_packets and ag71xx_ring_rx_refill.
LEMMA PollRxKeeps == SizesDivide /\ RingInv /\ PollRx => RingInv'
  <1>. SUFFICES ASSUME SizesDivide, RingPart, ControlPart, PollRx
                PROVE  RingPart' /\ ControlPart'
    BY Parts, PartsNext, Zenon
  <1>. DEFINE n == Found
              r == TakenRx(rx, n)
  <1>1. /\ tx \in RingType(TxSize) /\ rx \in RingType(RxSize) /\ mac \in MacType
        /\ TxSlots(tx) /\ TxMac(tx, mac) /\ RxSlots(rx) /\ RxMac(rx, mac)
        /\ mac.pr <= RxSize /\ mac.ps <= TxSize /\ mac.pr \in Nat
    BY DEF RingPart, Rings, MacType
  <1>2. Used(rx) <= RxSize
    BY RingPartTypes
  <1>3. UNCHANGED <<tx, rings, stopped, link, stage, woken, drops>> /\ poll.at = "rx"
    BY DEF PollRx
  <1>4. /\ FlagTypes /\ StateTypes /\ Stages /\ Room /\ LostOnlyWoken
        /\ TxSize > 1 => NotStoppedEmpty
    BY DEF ControlPart
  <1>5. n \in 0 .. Weight /\ NextFull(rx, n)
    BY <1>1, <1>2, FoundIs
  <1>6. r = [rx EXCEPT !.curr = (@ + n) % Wrap,
                       !.buf = [i \in Slots(RxSize) |->
                                  @[i] /\ i \notin {At(k) : k \in 0 .. n - 1}]]
    BY Zenon DEF TakenRx, At
  <1>7. \/ /\ fatal' = "assertion" /\ UNCHANGED <<rx, mac, napi, poll, oom, fails>>
        \/ \E k \in 0 .. Used(r) :
             /\ fails' = fails \/ (fails < MaxFails /\ fails' = fails + 1)
             /\ rx' = Refilled(r, k)
             /\ mac' = [mac EXCEPT !.pr = IF @ >= n THEN @ - n ELSE 0]
             /\ \/ napi' = "idle" /\ oom' = TRUE /\ poll' = NoPoll
                \/ poll' = [at |-> "status", done |-> n] /\ UNCHANGED <<napi, oom>>
             /\ fatal' = fatal
    <2>. HIDE DEF r
    <2>. QED
      BY <1>6, Zenon DEF PollRx, OutOfMemory
  <1>. HIDE DEF n
  <1>8. stage \notin {"clean", "open"}
    BY <1>3, <1>4 DEF Stages
  <1>9. CASE fatal' = "assertion" /\ UNCHANGED <<rx, mac, napi, poll, oom, fails>>
    <2>1. RingsAlone
      BY <1>1, <1>3, <1>9 DEF RingsAlone
    <2>2. RingPart'
      BY <2>1, RingPartKept
    <2>3. FlagTypes' /\ StateTypes'
      BY <1>3, <1>4, <1>9, Zenon DEF FlagTypes, StateTypes
    <2>4. Stages'
      BY <1>3, <1>4, <1>9 DEF Stages
    <2>5. Room'
      BY <1>3, <1>4, <1>9 DEF Room
    <2>6. LostOnlyWoken' /\ NotStoppedEmpty'
      BY <1>9 DEF LostOnlyWoken, NotStoppedEmpty
    <2>. QED
      BY <2>2, <2>3, <2>4, <2>5, <2>6 DEF ControlPart
  <1>10. ASSUME NEW k \in 0 .. Used(r),
                fails' = fails \/ (fails < MaxFails /\ fails' = fails + 1),
                rx' = Refilled(r, k),
                mac' = [mac EXCEPT !.pr = IF @ >= n THEN @ - n ELSE 0],
                \/ napi' = "idle" /\ oom' = TRUE /\ poll' = NoPoll
                \/ poll' = [at |-> "status", done |-> n] /\ UNCHANGED <<napi, oom>>,
                fatal' = fatal
         PROVE  RingPart' /\ ControlPart'
    <2>1. /\ mac' \in MacType /\ mac'.pr <= RxSize /\ mac'.ps = mac.ps
          /\ mac'.pr = IF mac.pr >= n THEN mac.pr - n ELSE 0
          /\ mac'.rxPos = mac.rxPos /\ mac'.txPos = mac.txPos /\ mac'.atRings = mac.atRings
      <3>. DEFINE p == IF mac.pr >= n THEN mac.pr - n ELSE 0
      <3>1. p \in Nat /\ p <= RxSize
        BY <1>1, <1>5, Ag71xxAssumption
      <3>2. mac' = [mac EXCEPT !.pr = p]
        BY <1>10
      <3>. HIDE DEF p
      <3>3. /\ mac' \in MacType /\ mac'.pr = p /\ mac'.ps = mac.ps
            /\ mac'.rxPos = mac.rxPos /\ mac'.txPos = mac.txPos /\ mac'.atRings = mac.atRings
        BY <1>1, <3>1, <3>2 DEF MacType
      <3>. QED
        BY <3>1, <3>3 DEF p
    <2>2. r \in RingType(RxSize) /\ RxSlots(r) /\ RxMac(r, mac')
      <3>1. /\ mac'.pr = IF mac.pr >= n THEN mac.pr - n ELSE 0
            /\ mac'.rxPos = mac.rxPos /\ mac'.atRings = mac.atRings
        BY <2>1, Zenon
      <3>2. rx \in RingType(RxSize) /\ mac \in MacType /\ RxSlots(rx) /\ RxMac(rx, mac)
        BY <1>1, Zenon
      <3>3. NextFull(rx, n)
        BY <1>5
      <3>. QED
        BY <3>1, <3>2, <3>3, TakeStep
    <2>3. rx' \in RingType(RxSize) /\ RxSlots(rx') /\ RxMac(rx', mac')
      <3>1. rx' = Refilled(r, k) /\ mac' \in MacType
        BY <1>10, <2>1
      <3>. HIDE DEF r
      <3>. QED
        BY <2>2, <3>1, RefillStep
    <2>4. TxSlots(tx') /\ TxMac(tx', mac')
      BY <1>1, <1>3, <2>1 DEF TxMac
    <2>5. Rings'
      BY <2>3, <2>4 DEF Rings
    <2>6. RingPart'
      BY <1>1, <1>3, <2>1, <2>3, <2>5 DEF RingPart
    <2>7. FlagTypes'
      BY <1>3, <1>4, <1>10, Zenon DEF FlagTypes
    <2>8. StateTypes'
      <3>1. poll' \in [at : {"off", "rx", "status", "sent", "enable"}, done : 0 .. Weight]
        <4>1. 0 \in 0 .. Weight
          BY Ag71xxAssumption
        <4>2. poll' = [at |-> "off", done |-> 0] \/ poll' = [at |-> "status", done |-> n]
          BY <1>10, Zenon DEF NoPoll
        <4>. QED
          BY <1>5, <4>1, <4>2
      <3>2. fails' \in 0 .. MaxFails
        <4>1. fails \in 0 .. MaxFails
          BY <1>4, Zenon DEF StateTypes
        <4>. QED
          BY <1>10, <4>1, Ag71xxAssumption
      <3>3. napi' \in {"idle", "sched", "disabled"}
        BY <1>4, <1>10, Zenon DEF StateTypes
      <3>. QED
        BY <1>3, <1>4, <1>10, <3>1, <3>2, <3>3, Zenon DEF StateTypes
    <2>9. Stages'
      <3>1. ~mac.atRings => mac'.pr = 0
        BY <1>1, <1>4, <1>5, <2>1 DEF Stages
      <3>2. stage \in {"open", "phy", "desc"} => rx' = FreshRx
        <4>. SUFFICES ASSUME stage \in {"open", "phy", "desc"} PROVE rx' = FreshRx
          OBVIOUS
        <4>1. rx = FreshRx
          BY <1>4 DEF Stages
        <4>2. n = 0
          BY <1>5, <4>1, NothingToRefill, Zenon
        <4>3. r = TakenRx(FreshRx, 0) /\ Used(r) = 0
          BY <4>1, <4>2, NothingToRefill, Zenon
        <4>. HIDE DEF r
        <4>4. k = 0
          BY <4>3
        <4>. QED
          BY <1>10, <4>3, <4>4, NothingToRefill, Zenon
      <3>. QED
        BY <1>3, <1>4, <1>8, <2>1, <3>1, <3>2 DEF Stages
    <2>10. Room'
      BY <1>3, <1>4 DEF Room
    <2>11. LostOnlyWoken' /\ (TxSize > 1 => NotStoppedEmpty')
      BY <1>3, <1>4, <1>10, Zenon DEF LostOnlyWoken, NotStoppedEmpty, Used
    <2>. QED
      BY <2>6, <2>7, <2>8, <2>9, <2>10, <2>11 DEF ControlPart
  <1>. QED
    BY <1>7, <1>9, <1>10

\* ag71xx_dma_reset takes the MAC off the rings.
LEMMA StopMacKeeps == SizesDivide /\ RingInv /\ StopMac => RingInv'
  <1>. SUFFICES ASSUME SizesDivide, RingPart, ControlPart, StopMac
                PROVE  RingPart' /\ ControlPart'
    BY Parts, PartsNext, Zenon
  <1>1. /\ tx \in RingType(TxSize) /\ rx \in RingType(RxSize) /\ mac \in MacType
        /\ TxSlots(tx) /\ RxSlots(rx)
    BY DEF RingPart, Rings
  <1>2. /\ UNCHANGED <<tx, rx, rings, napi, poll, oom, link, woken, fatal, fails, drops>>
        /\ stage = "reset" /\ stage' = "drain" /\ stopped' = TRUE
    BY DEF StopMac
  <1>3. /\ mac' \in MacType /\ mac'.pr = 0 /\ mac'.ps = 0 /\ mac'.rxPos = 0 /\ mac'.txPos = 0
        /\ ~mac'.atRings
    <2>1. 0 \in Slots(RxSize) /\ 0 \in Slots(TxSize)
      BY Ag71xxAssumption DEF Slots
    <2>2. mac' = DmaReset(HwStop(mac))
      BY DEF StopMac
    <2>. QED
      BY <1>1, <2>1, <2>2 DEF HwStop, DmaReset, MacType
  <1>4. Rings'
    BY <1>1, <1>2, <1>3 DEF Rings, TxMac, RxMac
  <1>5. RingPart'
    BY <1>1, <1>2, <1>3, <1>4, Ag71xxAssumption DEF RingPart
  <1>6. FlagTypes /\ StateTypes /\ LostOnlyWoken
    BY DEF ControlPart
  <1>7. FlagTypes' /\ StateTypes' /\ LostOnlyWoken'
    BY <1>2, <1>6, ZenonT(60) DEF FlagTypes, StateTypes, LostOnlyWoken
  <1>8. Stages'
    BY <1>2, <1>3 DEF Stages, Dark
  <1>9. Room' /\ NotStoppedEmpty'
    BY <1>2 DEF Room, NotStoppedEmpty
  <1>. QED
    BY <1>5, <1>7, <1>8, <1>9 DEF ControlPart

\* ag71xx_rings_cleanup.
LEMMA StopRingsKeeps == SizesDivide /\ RingInv /\ StopRings => RingInv'
  <1>. SUFFICES ASSUME SizesDivide, RingPart, ControlPart, StopRings
                PROVE  RingPart' /\ ControlPart'
    BY Parts, PartsNext, Zenon
  <1>1. /\ tx' = FreshTx /\ rx' = FreshRx /\ stage = "clean" /\ stage' = "open"
        /\ UNCHANGED <<mac, napi, poll, oom, stopped, link, woken, fatal, fails, drops>>
        /\ rings' = FALSE
    BY DEF StopRings
  <1>2. /\ FlagTypes /\ StateTypes /\ Stages /\ Room /\ LostOnlyWoken
        /\ mac \in MacType /\ mac.pr <= RxSize /\ mac.ps <= TxSize
    BY DEF ControlPart, RingPart
  <1>3. ~mac.atRings
    BY <1>1, <1>2 DEF Stages, Dark
  <1>4. /\ tx' \in RingType(TxSize) /\ rx' \in RingType(RxSize)
        /\ TxSlots(tx') /\ RxSlots(rx') /\ Used(tx') = 0
        /\ \A i \in Slots(TxSize) : ~tx'.buf[i]
    BY <1>1, FreshRings
  <1>5. Rings'
    BY <1>1, <1>3, <1>4 DEF Rings, TxMac, RxMac
  <1>6. RingPart'
    BY <1>1, <1>2, <1>4, <1>5 DEF RingPart
  <1>7. FlagTypes' /\ StateTypes' /\ LostOnlyWoken'
    BY <1>1, <1>2, ZenonT(60) DEF FlagTypes, StateTypes, LostOnlyWoken
  <1>8. Stages'
    <2>. tx'.dirty = 0
      BY <1>1 DEF FreshTx
    <2>. QED
      BY <1>1, <1>2, <1>4 DEF Stages, Dark
  <1>9. Room' /\ NotStoppedEmpty'
    BY <1>1, <1>2, <1>4, Ag71xxAssumption DEF Room, NotStoppedEmpty, Dark
  <1>. QED
    BY <1>6, <1>7, <1>8, <1>9 DEF ControlPart

\* The registers with the addresses of the rings: the MAC starts at their first slots, and
\* so does the driver, also when a packet has been put into the ring already.
LEMMA OpenDescKeeps == SizesDivide /\ RingInv /\ OpenDesc => RingInv'
  <1>. SUFFICES ASSUME SizesDivide, RingPart, ControlPart, OpenDesc
                PROVE  RingPart' /\ ControlPart'
    BY Parts, PartsNext, Zenon
  <1>1. /\ tx \in RingType(TxSize) /\ rx \in RingType(RxSize) /\ mac \in MacType
        /\ TxSlots(tx) /\ RxSlots(rx) /\ mac.pr <= RxSize /\ mac.ps <= TxSize
    BY DEF RingPart, Rings
  <1>2. /\ UNCHANGED <<tx, rx, rings, napi, poll, oom, stopped, link, woken, fatal, fails, drops>>
        /\ stage = "desc" /\ stage' = "start"
    BY DEF OpenDesc
  <1>3. FlagTypes /\ StateTypes /\ Stages /\ Room /\ LostOnlyWoken
    BY DEF ControlPart
  <1>4. /\ mac' \in MacType /\ mac'.atRings /\ mac'.pr = mac.pr /\ mac'.ps = mac.ps
        /\ mac'.rxPos = mac.rxPos /\ mac'.txPos = mac.txPos
    BY <1>1 DEF OpenDesc, MacType
  <1>5. /\ mac'.pr = 0 /\ mac'.ps = 0 /\ mac'.rxPos = 0 /\ mac'.txPos = 0
        /\ rx = FreshRx /\ tx.dirty = 0
        /\ \A i \in Slots(TxSize) : tx.buf[i] => ~tx.empty[i]
    BY <1>2, <1>3, <1>4 DEF Stages, Dark
  <1>6. RxMac(rx', mac')
    <2>1. FreshTx.dirty = 0 /\ Used(FreshTx) = 0
      BY FreshRings DEF FreshTx
    <2>2. RxMac(FreshRx, mac')
      BY <1>5, <2>1, MacAtStart
    <2>. QED
      BY <1>2, <1>5, <2>2
  <1>7. TxMac(tx', mac')
    <2>1. RingOK(tx, TxSize) /\ Used(tx) \in Nat /\ Used(tx) <= TxSize /\ TxSize \in Nat \ {0}
      BY RingPartTypes
    <2>2. Nth(tx, 0, TxSize) = 0
      <3>1. 0 % Wrap = 0 /\ 0 % TxSize = 0 /\ 0 + 0 = 0
        BY Ag71xxAssumption, ModSmall
      <3>. QED
        BY <1>5, <3>1, Zenon DEF Nth
    <2>3. ASSUME NEW k \in 0 .. Used(tx) - 1
          PROVE  ~tx.empty[Nth(tx, k, TxSize)] /\ ~(k < 0)
      <3>1. k \in 0 .. TxSize - 1 /\ k < Used(tx) /\ k \in Nat /\ ~(k < 0)
        BY <2>1
      <3>2. tx.buf[Nth(tx, k, TxSize)]
        BY <1>1, <3>1, Zenon DEF TxSlots
      <3>3. Nth(tx, k, TxSize) \in Slots(TxSize)
        BY <2>1, <3>1, NthIs
      <3>. QED
        BY <1>5, <3>1, <3>2, <3>3, Zenon
    <2>4. 0 <= Used(tx)
      BY <2>1
    <2>. QED
      BY <1>2, <1>5, <2>2, <2>3, <2>4, Zenon DEF TxMac
  <1>8. Rings'
    BY <1>1, <1>2, <1>6, <1>7 DEF Rings
  <1>9. RingPart'
    BY <1>1, <1>2, <1>4, <1>8 DEF RingPart
  <1>10. FlagTypes' /\ StateTypes' /\ LostOnlyWoken'
    BY <1>2, <1>3, ZenonT(60) DEF FlagTypes, StateTypes, LostOnlyWoken
  <1>11. Stages'
    BY <1>2, <1>3, <1>4 DEF Stages, Dark
  <1>12. Room' /\ NotStoppedEmpty'
    BY <1>2, <1>3 DEF Room, NotStoppedEmpty, Dark
  <1>. QED
    BY <1>9, <1>10, <1>11, <1>12 DEF ControlPart

\* Every step keeps the invariant.
LEMMA NextKeeps == SizesDivide /\ RingInv /\ [Next]_vars => RingInv'
  <1>. SUFFICES ASSUME SizesDivide, RingInv, [Next]_vars PROVE RingInv'
    OBVIOUS
  <1>1. CASE UNCHANGED vars
    <2>1. RingPart /\ ControlPart
      BY Parts
    <2>2. RingsAlone
      BY <1>1, <2>1 DEF vars, RingPart, RingsAlone
    <2>3. FlagTypes' /\ StateTypes' /\ LostOnlyWoken'
      <3>1. /\ rings' = rings /\ oom' = oom /\ stopped' = stopped /\ link' = link /\ woken' = woken
            /\ napi' = napi /\ poll' = poll /\ stage' = stage /\ fatal' = fatal /\ fails' = fails
            /\ drops' = drops
        BY <1>1 DEF vars
      <3>2. FlagTypes /\ StateTypes /\ LostOnlyWoken
        BY <2>1 DEF ControlPart
      <3>3. FlagTypes' /\ LostOnlyWoken'
        BY <3>1, <3>2, Zenon DEF FlagTypes, LostOnlyWoken
      <3>4. StateTypes'
        BY <3>1, <3>2, Zenon DEF StateTypes
      <3>. QED
        BY <3>3, <3>4
    <2>4. Stages'
      BY <1>1, <2>1 DEF ControlPart, vars, Stages
    <2>5. Room' /\ (TxSize > 1 => NotStoppedEmpty')
      BY <1>1, <2>1 DEF ControlPart, vars, Room, NotStoppedEmpty
    <2>. QED
      BY <2>1, <2>2, <2>3, <2>4, <2>5, RingPartKept, PartsNext DEF ControlPart
  <1>2. CASE Next
    BY <1>2, MacSendKeeps, MacReceiveKeeps, XmitKeeps, PollTxKeeps, PollRxKeeps, QuietKeeps,
       StopMacKeeps, StopRingsKeeps, OpenDescKeeps, Zenon
    DEF Next, Polls, Restart, Quiet
  <1>. QED
    BY <1>1, <1>2

\* The invariant holds in every state, for rings of sizes that divide the counters' range.
THEOREM RingsInvariant == ASSUME SizesDivide PROVE Spec => []RingInv
  BY InitRings, NextKeeps, PTL DEF Spec

----------------------------------------------------------------------------
(* What it says *)

\* The types of the variables hold in every state; the counts of packets stay within the
\* rings.
THEOREM RingTypes == ASSUME SizesDivide PROVE Spec => []TypeOK
  <1>. RingInv => TypeOK
    BY DEF RingInv
  <1>. QED
    BY RingsInvariant, PTL

\* Slots counted from dirty are all the slots: the window is as TxWindow says.
LEMMA TxWindowFollows == SizesDivide /\ RingInv => TxWindow
  <1>. SUFFICES ASSUME SizesDivide, RingPart, ControlPart, fatal = "none" PROVE TxWindow
    BY Parts DEF TxWindow
  <1>1. RingOK(tx, TxSize) /\ Used(tx) <= TxSize
    BY RingPartTypes
  <1>2. ~stopped /\ ~woken => Used(tx) < TxSize
    BY DEF ControlPart, Room
  <1>3. ASSUME NEW i \in Slots(TxSize) PROVE tx.buf[i] <=> i \in Window(tx, TxSize)
    <2>1. PICK k \in 0 .. TxSize - 1 : Nth(tx, k, TxSize) = i
      BY <1>1, NthSurjective
    <2>2. i \in Window(tx, TxSize) <=> k < Used(tx)
      BY <1>1, <2>1, InWindow
    <2>3. tx.buf[i] <=> k < Used(tx)
      BY <2>1 DEF RingPart, Rings, TxSlots
    <2>. QED
      BY <2>2, <2>3, Zenon
  <1>. QED
    BY <1>1, <1>2, <1>3 DEF TxWindow

\* And as RxWindow says: the slot of curr is the one behind the window.
LEMMA RxWindowFollows == SizesDivide /\ RingInv => RxWindow
  <1>. SUFFICES ASSUME SizesDivide, RingPart, ControlPart, fatal = "none" PROVE RxWindow
    BY Parts DEF RxWindow
  <1>1. RingOK(rx, RxSize) /\ Used(rx) <= RxSize /\ Used(rx) \in Nat /\ RxSize \in Nat
    BY RingPartTypes
  <1>2. RxSlots(rx) /\ RxMac(rx, mac) /\ mac.pr \in Nat
    BY DEF RingPart, Rings, MacType
  <1>3. ASSUME NEW i \in Slots(RxSize)
        PROVE  (~rx.buf[i] <=> i \in Window(rx, RxSize)) /\ (rx.empty[i] => rx.buf[i])
    <2>1. PICK k \in 0 .. RxSize - 1 : Nth(rx, k, RxSize) = i
      BY <1>1, NthSurjective
    <2>2. i \in Window(rx, RxSize) <=> k < Used(rx)
      BY <1>1, <2>1, InWindow
    <2>3. (rx.buf[i] <=> k >= Used(rx)) /\ (rx.empty[i] => k >= Used(rx))
      BY <1>2, <2>1 DEF RxSlots
    <2>4. k >= Used(rx) <=> ~(k < Used(rx))
      BY <1>1
    <2>. QED
      BY <2>2, <2>3, <2>4, Zenon
  <1>4. mac.atRings => mac.rxPos = (rx.curr + mac.pr) % RxSize
    <2>1. (rx.curr + mac.pr) % RxSize = Nth(rx, Used(rx) + mac.pr, RxSize)
      BY <1>1, <1>2, CurrSlot
    <2>. QED
      BY <1>2, <2>1, Zenon DEF RxMac
  <1>. QED
    BY <1>1, <1>3, <1>4 DEF RxWindow

\* A packet is never put where one waits to be freed and each is freed once: the slots
\* that hold a packet are those from dirty to curr, and while the queue runs and no poll
\* has woken it during a restart there is room (ag71xx_hard_start_xmit, ag71xx_tx_packets).
THEOREM TxWindowKept == ASSUME SizesDivide PROVE Spec => []TxWindow
  BY RingsInvariant, TxWindowFollows, PTL

\* No descriptor without a buffer is EMPTY, and the driver takes the frames in the order
\* in which the MAC fills the ring (ag71xx_rx_packets, ag71xx_ring_rx_refill).
THEOREM RxWindowKept == ASSUME SizesDivide PROVE Spec => []RxWindow
  BY RingsInvariant, RxWindowFollows, PTL

\* Outside a restart a stopped queue has packets in the ring, whose freeing will wake it;
\* a ring of one slot is never found empty enough (ag71xx_tx_packets).
THEOREM NotStoppedEmptyKept ==
  ASSUME SizesDivide, TxSize > 1 PROVE Spec => []NotStoppedEmpty
  <1>. RingInv => NotStoppedEmpty
    BY DEF RingInv
  <1>. QED
    BY RingsInvariant, PTL

\* A packet is put over another only after a poll has woken the queue that ag71xx_stop had
\* stopped: without that race ag71xx_hard_start_xmit loses none.
THEOREM OverwrittenOnlyAfterRace == ASSUME SizesDivide PROVE Spec => []LostOnlyWoken
  <1>. RingInv => LostOnlyWoken
    BY DEF RingInv
  <1>. QED
    BY RingsInvariant, PTL
=============================================================================
