-------------------------- MODULE OcfSessionProofs --------------------------
(***************************************************************************)
(* Proofs about OcfSession, for any clients, devices and sizes of the      *)
(* table, until crypto_get_driverid moves the table: crypto_newsession and *)
(* crypto_freesession keep a pointer into it across the unlocked call of   *)
(* the driver, and what they write after a move is lost.                   *)
(*                                                                         *)
(* IInv says who holds which session.  A session that exists has exactly   *)
(* one holder, the client or its request; the holder's id names a slot     *)
(* with the session's driver or the mark for cleanup; and cc_sessions      *)
(* counts the sessions, the calls under way and the marks.  The count      *)
(* keeps a slot from being handed out while anything refers to it, and     *)
(* that keeps the count right.                                             *)
(***************************************************************************)
EXTENDS OcfSession, NatLemmas

(* What the clients and drivers must do for the framework to keep count:   *)
(*   a session has one request at a time, and its client follows the id    *)
(*   that comes with EAGAIN;                                               *)
(*   a device registers one algorithm, as each crypto_register sets        *)
(*   cc_sessions to 0;                                                     *)
(*   a session asks for something, and a driver that stays provides it;    *)
(*   newsession only refuses clients, for devices that stay, and a device  *)
(*   has room for a session of every client.                               *)
Setting ==
  /\ IsFiniteSet(Sessions) /\ IsFiniteSet(Reqs) /\ IsFiniteSet(Devs)
  /\ \A q, r \in Reqs : SessionOf[q] = SessionOf[r] => q = r
  /\ Following = Sessions
  /\ \A d \in Devs : \A a, b \in Provides[d] : a = b
  /\ Wanted # {}
  /\ \E d \in Resident : Wanted \subseteq Provides[d]
  /\ Failing \subseteq Sessions \X (Devs \ Removable)
  /\ Cardinality(Sessions) <= MaxLids

-----------------------------------------------------------------------------
(* The inductive invariant *)

(* A slot with a driver is that driver's; one without is empty, or marked   *)
(* for cleanup and in use.                                                 *)
SlotOK(h) ==
  LET slot == table[h]
  IN /\ slot.dev # None =>
          drv[slot.dev] # "out" /\ slotOf[slot.dev] = h /\ ~slot.cleanup
     /\ slot.dev = None => slot.algs = {}
     /\ slot.dev = None /\ ~slot.cleanup => slot.sessions = 0
     /\ slot.cleanup => slot.sessions # 0
     /\ slot.kops = 0

(* A driver is in its slot; it counts 1 until it registers.                 *)
DriverOK(d) ==
  LET slot == table[slotOf[d]]
  IN /\ drv[d] # "out" => slot.dev = d
     /\ drv[d] = "claimed" => slot.algs = {} /\ slot.sessions = 1
     /\ drv[d] = "in" => slot.algs = Provides[d]

(* Threads whose sid is a session that exists. *)
Holder(t) ==
  \/ pc[t] \in {"newok", "freecall", "freeend", "queued", "process",
                "migrate", "again"}
  \/ t \in Sessions /\ pc[t] = "open" /\ \A r \in Requests(t) : pc[r] = "idle"

(* Where a client and where a request may be. *)
SessionLabels == {"closed", "newcall", "newok", "newbad", "open", "freecall",
                  "freeend", "oops"}
RequestLabels == {"idle", "queued", "process", "migrate", "freecall",
                  "freeend", "renew", "newcall", "newok", "again", "oops"}

(* The slots while the table has not moved. *)
Table0 == 0 .. InitialSlots - 1

Types ==
  /\ table \in [Table0 -> Slot]
  /\ drv \in [Devs -> {"out", "claimed", "in"}]
  /\ slotOf \in [Devs -> Table0]
  /\ pc \in [Threads -> SessionLabels \cup RequestLabels]
  /\ \A s \in Sessions : pc[s] \in SessionLabels
  /\ \A r \in Reqs : pc[r] \in RequestLabels
  /\ sid \in [Threads -> Sids \cup {None}]
  /\ cap \in [Threads -> Table0]
  /\ seen \in [Threads -> {0}]
  /\ open \subseteq Sids /\ IsFiniteSet(open)

Slots == (\A h \in Table0 : SlotOK(h)) /\ (\A d \in Devs : DriverOK(d))

(* A session lies in the slot of its driver, or of nobody any more. *)
Placed == \A x \in open : /\ x.hid \in Table0
                          /\ \/ table[x.hid].dev = x.dev
                             \/ table[x.hid].cleanup

(* Every session has one holder, unless its holder called a driver that is  *)
(* gone, where the model stops.                                            *)
Held ==
  /\ \A t \in Threads : Holder(t) => sid[t] \in open
  /\ \A t, u \in Threads : Holder(t) /\ Holder(u) /\ sid[t] = sid[u] => t = u
  /\ \A x \in open : \E t \in Threads :
       sid[t] = x /\ (Holder(t) \/ pc[t] = "oops")

(* A request runs within its session, whose client has the request's id    *)
(* while the driver works.                                                 *)
Nested ==
  \A r \in Reqs :
    /\ pc[r] # "idle" => pc[SessionOf[r]] = "open"
    /\ pc[r] \in {"queued", "process"} => sid[SessionOf[r]] = sid[r]

(* What the local variable cap of a thread points to. *)
Caps ==
  \A t \in Threads :
    /\ pc[t] \in {"freecall", "freeend"} => cap[t] = sid[t].hid
    /\ pc[t] = "newbad" => table[cap[t]].dev \in Devs \ Removable

(* Clients start when the resident drivers are attached. *)
Running == \A s \in Sessions : pc[s] # "closed" => Booted

(* What cc_sessions of a slot counts, as in SessionCount. *)
OpenOn(h) == {x \in open : x.hid = h}
ClaimsOn(h) == {t \in Threads : pc[t] \in {"newcall", "newbad"} /\ cap[t] = h}
MarksOn(h) == {d \in Devs : drv[d] = "claimed" /\ slotOf[d] = h}
CountAt(h) ==
  table[h].sessions = Cardinality(OpenOn(h)) + Cardinality(ClaimsOn(h))
                      + Cardinality(MarksOn(h))
Counted == DriverPresent => \A h \in Table0 : CountAt(h)

Core == /\ Types /\ Slots /\ Placed /\ Held /\ Nested /\ Caps /\ Running
        /\ Counted

IInv == edition \in Nat /\ (edition = 0 => Core)

-----------------------------------------------------------------------------
\* What the assumption on the constants says of threads and bounds.
LEMMA ThreadKinds ==
  /\ Sessions \cap Reqs = {} /\ Threads = Sessions \cup Reqs
  /\ SessionOf \in [Reqs -> Sessions]
  /\ InitialSlots \in Nat /\ InitialSlots > 0 /\ MaxSlots \in Nat
  /\ InitialSlots <= MaxSlots
  /\ MaxLids \in Nat
BY SessionsAssumption DEF Threads

\* The fields of a slot have their types.
LEMMA SlotFields ==
  ASSUME NEW s \in Slot
  PROVE  /\ s.dev \in Devs \cup {None} /\ s.cleanup \in BOOLEAN
         /\ s.algs \subseteq Algs /\ s.sessions \in Nat /\ s.kops \in Nat
BY DEF Slot

\* A zeroed slot is empty and counts nothing.
LEMMA ZeroedSlot ==
  /\ Zeroed \in Slot /\ Zeroed.dev = None /\ ~Zeroed.cleanup
  /\ Zeroed.algs = {} /\ Zeroed.sessions = 0 /\ Zeroed.kops = 0
BY DEF Zeroed, Slot

\* The end of crypto_freesession: one session less, and the mark for cleanup goes
\* with the last one.
LEMMA FreedSlot ==
  ASSUME NEW s \in Slot, s.kops = 0, s.sessions # 0,
         s.cleanup => s.dev = None /\ s.algs = {}
  PROVE  LET v == SessionFreed(s)
         IN /\ v \in Slot /\ v.dev = s.dev /\ v.algs = s.algs /\ v.kops = 0
            /\ v.sessions = s.sessions - 1
            /\ v.cleanup => s.cleanup /\ v.sessions # 0
            /\ s.cleanup => v.cleanup \/ v.sessions = 0
<1> DEFINE left == [s EXCEPT !.sessions = IF @ # 0 THEN @ - 1 ELSE 0]
<1>1. /\ left \in Slot /\ left.dev = s.dev /\ left.algs = s.algs
      /\ left.kops = 0 /\ left.cleanup = s.cleanup
      /\ left.sessions = s.sessions - 1
  BY DEF Slot
<1>2. SessionFreed(s) = IF left.cleanup THEN Remove(left) ELSE left
  BY DEF SessionFreed
<1> HIDE DEF left
<1>3. CASE ~s.cleanup
  <2>1. SessionFreed(s) = left
    BY <1>1, <1>2, <1>3
  <2> QED BY <2>1, <1>1, <1>3
<1>4. CASE s.cleanup /\ left.sessions # 0
  <2>1. SessionFreed(s) = left
    BY <1>1, <1>2, <1>4 DEF Remove, Busy
  <2> QED BY <2>1, <1>1, <1>4
<1>5. CASE s.cleanup /\ left.sessions = 0
  <2>1. SessionFreed(s) = Zeroed
    BY <1>1, <1>2, <1>5 DEF Remove, Busy
  <2> QED BY <2>1, <1>1, <1>5, ZeroedSlot
<1> QED BY <1>3, <1>4, <1>5

\* driver_finis: the driver goes, and the mark for cleanup stays exactly while
\* sessions do.
LEMMA FinisSlot ==
  ASSUME NEW s \in Slot, s.kops = 0
  PROVE  LET v == Finis(s)
         IN /\ v \in Slot /\ v.dev = None /\ v.algs = {} /\ v.kops = 0
            /\ v.sessions = s.sessions
            /\ v.cleanup => v.sessions # 0
            /\ v.cleanup \/ v.sessions = 0
<1>1. CASE s.sessions # 0
  <2>1. Finis(s) = [dev |-> None, cleanup |-> TRUE, algs |-> {},
                    sessions |-> s.sessions, kops |-> s.kops]
    BY <1>1 DEF Finis, Busy, Zeroed
  <2> QED BY <1>1, <2>1 DEF Slot
<1>2. CASE s.sessions = 0
  <2>1. Finis(s) = Zeroed
    BY <1>2 DEF Finis, Busy
  <2> QED BY <1>2, <2>1, ZeroedSlot
<1> QED BY <1>1, <1>2

(* Claim, Unclaim, Unmark and the slot a driver takes. *)
LEMMA CountedSlot ==
  ASSUME NEW s \in Slot, NEW n \in Nat
  PROVE  LET v == [s EXCEPT !.sessions = n]
         IN /\ v \in Slot /\ v.dev = s.dev /\ v.algs = s.algs
            /\ v.kops = s.kops /\ v.cleanup = s.cleanup /\ v.sessions = n
BY DEF Slot

\* The empty table, with every client and request at rest, satisfies the invariant.
LEMMA InitIInv == ASSUME Setting PROVE Init => IInv
<1> SUFFICES ASSUME Init PROVE IInv
  OBVIOUS
<1>1. Types
  <2>1. table \in [Table0 -> Slot]
    BY ZeroedSlot DEF Init, Table0
  <2>2. 0 \in Table0
    BY ThreadKinds DEF Table0
  <2>3. open \subseteq Sids /\ IsFiniteSet(open)
    BY FS_EmptySet DEF Init
  <2>4. pc \in [Threads -> SessionLabels \cup RequestLabels]
    BY DEF Init, SessionLabels, RequestLabels
  <2>5. \A s \in Sessions : pc[s] = "closed"
    BY ThreadKinds DEF Init
  <2>6. \A r \in Reqs : pc[r] = "idle"
    BY ThreadKinds DEF Init
  <2>7. drv \in [Devs -> {"out", "claimed", "in"}]
    BY DEF Init
  <2>8. /\ slotOf \in [Devs -> Table0] /\ cap \in [Threads -> Table0]
        /\ seen \in [Threads -> {0}] /\ sid \in [Threads -> Sids \cup {None}]
    BY <2>2 DEF Init
  <2> QED BY <2>1, <2>3, <2>4, <2>5, <2>6, <2>7, <2>8
          DEF Types, SessionLabels, RequestLabels
<1>2. Slots
  <2>1. ASSUME NEW h \in Table0 PROVE SlotOK(h)
    <3>1. table[h] = Zeroed
      BY DEF Init, Table0
    <3> QED BY <3>1, ZeroedSlot DEF SlotOK
  <2>2. ASSUME NEW d \in Devs PROVE DriverOK(d)
    BY DEF Init, DriverOK
  <2> QED BY <2>1, <2>2 DEF Slots
<1>3. \A t \in Threads : pc[t] \in {"closed", "idle"} /\ ~Holder(t)
  BY DEF Init, Holder
<1>4. open = {}
  BY DEF Init
<1>5. Placed /\ Held /\ Caps
  BY <1>3, <1>4 DEF Placed, Held, Caps
<1>6. Nested /\ Running
  BY ThreadKinds DEF Nested, Running, Init
<1>7. Counted
  <2>1. ASSUME NEW h \in Table0 PROVE CountAt(h)
    <3>1. table[h] = Zeroed
      BY DEF Init, Table0
    <3>2. OpenOn(h) = {} /\ ClaimsOn(h) = {} /\ MarksOn(h) = {}
      BY <1>3, <1>4 DEF OpenOn, ClaimsOn, MarksOn, Init
    <3> QED BY <3>1, <3>2, ZeroedSlot, FS_EmptySet DEF CountAt
  <2> QED BY <2>1 DEF Counted
<1> QED BY <1>1, <1>2, <1>5, <1>6, <1>7 DEF IInv, Core, Init

(* What a step that moves one thread leaves of the others. *)
Labels(t) == IF t \in Sessions THEN SessionLabels ELSE RequestLabels
Moves(t, l) ==
  /\ l \in Labels(t)
  /\ pc' = [pc EXCEPT ![t] = l]
  /\ t \in Reqs => (pc[t] = "idle" <=> l = "idle")
  /\ t \in Sessions /\ pc[t] = "open" => \A r \in Requests(t) : pc[r] = "idle"

\* Where threads are after one of them moved.
LEMMA PcMoves ==
  ASSUME Types, NEW t \in Threads, NEW l \in Labels(t),
         pc' = [pc EXCEPT ![t] = l]
  PROVE  /\ pc' \in [Threads -> SessionLabels \cup RequestLabels]
         /\ \A s \in Sessions : pc'[s] \in SessionLabels
         /\ \A r \in Reqs : pc'[r] \in RequestLabels
         /\ pc'[t] = l /\ \A u \in Threads : u # t => pc'[u] = pc[u]
<1>1. pc \in [Threads -> SessionLabels \cup RequestLabels]
  BY DEF Types
<1>2. pc'[t] = l /\ \A u \in Threads : u # t => pc'[u] = pc[u]
  BY <1>1
<1>3. pc' \in [Threads -> SessionLabels \cup RequestLabels]
  BY <1>1 DEF Labels
<1>4. \A s \in Sessions : pc'[s] \in SessionLabels
  BY <1>2, ThreadKinds DEF Types, Labels
<1>5. \A r \in Reqs : pc'[r] \in RequestLabels
  BY <1>2, ThreadKinds DEF Types, Labels
<1> QED BY <1>2, <1>3, <1>4, <1>5

\* A thread that moves leaves to the others the sessions they hold.
LEMMA OthersHold ==
  ASSUME Types, NEW t \in Threads, NEW l, Moves(t, l),
         NEW u \in Threads, u # t
  PROVE  Holder(u)' <=> Holder(u)
<1>1. pc'[u] = pc[u]
  BY PcMoves DEF Moves
<1>2. ASSUME u \in Sessions
      PROVE  (\A r \in Requests(u) : pc'[r] = "idle") <=>
             (\A r \in Requests(u) : pc[r] = "idle")
  <2>1. ASSUME NEW r \in Requests(u) PROVE pc'[r] = "idle" <=> pc[r] = "idle"
    <3>1. r \in Reqs /\ r \in Threads
      BY ThreadKinds DEF Requests
    <3>2. CASE r = t
      <4>1. pc'[t] = l /\ (pc[t] = "idle" <=> l = "idle")
        BY <3>1, <3>2, PcMoves DEF Moves
      <4> QED BY <4>1, <3>2
    <3>3. CASE r # t
      <4>1. pc'[r] = pc[r]
        BY <3>1, <3>3, PcMoves DEF Moves
      <4> QED BY <4>1
    <3> QED BY <3>2, <3>3
  <2> QED BY <2>1
<1> QED BY <1>1, <1>2 DEF Holder

\* A request stays within its session while either of them moves.
LEMMA NestedKept ==
  ASSUME Types, Nested, NEW t \in Threads, NEW l, Moves(t, l),
         sid' = sid, l \in {"queued", "process"} => pc[t] \in {"queued", "process"}
  PROVE  Nested'
<1> SUFFICES ASSUME NEW r \in Reqs
             PROVE  /\ pc'[r] # "idle" => pc'[SessionOf[r]] = "open"
                    /\ pc'[r] \in {"queued", "process"} => sid[SessionOf[r]] = sid[r]
  BY DEF Nested
<1> DEFINE s == SessionOf[r]
<1>1. s \in Sessions /\ s \in Threads /\ r \in Threads /\ r # s /\ r \in Requests(s)
  BY ThreadKinds DEF Requests
<1>2. /\ pc'[t] = l /\ \A u \in Threads : u # t => pc'[u] = pc[u]
      /\ pc[r] # "idle" => pc[s] = "open"
      /\ pc[r] \in {"queued", "process"} => sid[s] = sid[r]
  BY PcMoves DEF Moves, Nested
<1> HIDE DEF s
<1>3. CASE t = s
  <2>1. pc'[r] = pc[r]
    BY <1>1, <1>2, <1>3
  <2>2. pc[r] = "idle"
    BY <1>1, <1>2, <1>3 DEF Moves
  <2> QED BY <2>1, <2>2 DEF s
<1>4. CASE t = r
  <2>1. pc'[s] = pc[s] /\ (pc[r] = "idle" <=> l = "idle")
    BY <1>1, <1>2, <1>4 DEF Moves
  <2> QED BY <2>1, <1>2, <1>4 DEF s
<1>5. CASE t # s /\ t # r
  <2>1. pc'[s] = pc[s] /\ pc'[r] = pc[r]
    BY <1>1, <1>2, <1>5
  <2> QED BY <2>1, <1>2 DEF s
<1> QED BY <1>3, <1>4, <1>5

\* A client that starts finds the resident drivers attached.
LEMMA RunningKept ==
  ASSUME Types, Running, NEW t \in Threads, NEW l, Moves(t, l),
         Booted => Booted',
         t \in Sessions /\ pc[t] = "closed" => Booted \/ l = "closed"
  PROVE  Running'
<1> SUFFICES ASSUME NEW s \in Sessions, pc'[s] # "closed" PROVE Booted'
  BY DEF Running
<1>1. s \in Threads
  BY ThreadKinds
<1>2. pc'[t] = l /\ (s # t => pc'[s] = pc[s])
  BY <1>1, PcMoves DEF Moves
<1> QED BY <1>2 DEF Running

\* Attached drivers stay attached while table and drivers stay.
LEMMA BootedSame ==
  ASSUME UNCHANGED <<table, drv, slotOf>>
  PROVE  Booted <=> Booted'
BY DEF Booted, Attached

\* Sessions keep their holders when the thread that moves keeps what it holds.
LEMMA HeldKept ==
  ASSUME Types, Held, NEW t \in Threads, NEW l, Moves(t, l), sid' = sid,
         open' = open, Holder(t)' => Holder(t),
         Holder(t) => Holder(t)' \/ l = "oops", pc[t] # "oops"
  PROVE  Held'
<1>1. \A u \in Threads : Holder(u)' => Holder(u)
  BY OthersHold, Zenon
<1>2. \A u \in Threads : Holder(u) => Holder(u)' \/ pc'[u] = "oops"
  BY OthersHold, PcMoves, Zenon DEF Moves
<1>3. \A u \in Threads : pc[u] = "oops" => pc'[u] = "oops"
  BY PcMoves, Zenon DEF Moves
<1>4. ASSUME NEW x \in open
      PROVE  \E u \in Threads : sid[u] = x /\ (Holder(u)' \/ pc'[u] = "oops")
  BY <1>2, <1>3, Zenon DEF Held
<1> QED BY <1>1, <1>4 DEF Held

\* Slots and drivers agree while neither changes.
LEMMA SlotsSame ==
  ASSUME Slots, UNCHANGED <<table, drv, slotOf>>
  PROVE  Slots'
BY DEF Slots, SlotOK, DriverOK

\* A step that moves one thread and changes nothing that others see.
LEMMA QuietStep ==
  ASSUME Setting, Core, DriverPresent, NEW t \in Threads, NEW l, Moves(t, l),
         UNCHANGED <<table, drv, slotOf, open, sid>>,
         cap' \in [Threads -> Table0], seen' \in [Threads -> {0}],
         \A u \in Threads : u # t => cap'[u] = cap[u],
         t \in Sessions /\ pc[t] = "closed" => Booted \/ l = "closed",
         Holder(t)' => Holder(t), Holder(t) => Holder(t)' \/ l = "oops",
         l \in {"queued", "process"} => pc[t] \in {"queued", "process"},
         l \in {"freecall", "freeend"} => cap'[t] = sid[t].hid,
         l = "newbad" => table[cap'[t]].dev \in Devs \ Removable,
         l # "oops" =>
           /\ pc[t] \in {"newcall", "newbad"} <=> l \in {"newcall", "newbad"}
           /\ l \in {"newcall", "newbad"} => cap'[t] = cap[t]
  PROVE  Core'
<1>0. Types /\ Slots /\ Placed /\ Held /\ Nested /\ Caps /\ Running /\ Counted
  BY DEF Core
<1>a. /\ pc' \in [Threads -> SessionLabels \cup RequestLabels]
      /\ \A s \in Sessions : pc'[s] \in SessionLabels
      /\ \A r \in Reqs : pc'[r] \in RequestLabels
      /\ pc'[t] = l /\ \A u \in Threads : u # t => pc'[u] = pc[u]
  BY <1>0, PcMoves DEF Moves
<1>1. Types'
  BY <1>0, <1>a DEF Types
<1>2. Slots'
  BY <1>0, SlotsSame
<1>3. Placed'
  BY <1>0 DEF Placed
<1>4. Held'
  <2>1. pc[t] # "oops"
    BY DEF DriverPresent
  <2> QED BY <1>0, <2>1, HeldKept
<1>5. Nested'
  BY <1>0, NestedKept
<1>6. Caps'
  BY <1>0, <1>a DEF Caps
<1>7. Running'
  BY <1>0, RunningKept, BootedSame
<1>8. Counted'
  <2>1. SUFFICES ASSUME DriverPresent', NEW h \in Table0 PROVE CountAt(h)'
    BY DEF Counted
  <2>2. l # "oops"
    BY <1>a, <2>1 DEF DriverPresent
  <2>3. ClaimsOn(h)' = ClaimsOn(h)
    BY <1>a, <2>2 DEF ClaimsOn
  <2>4. OpenOn(h)' = OpenOn(h) /\ MarksOn(h)' = MarksOn(h) /\ CountAt(h)
    BY <1>0 DEF OpenOn, MarksOn, Counted
  <2> QED BY <2>3, <2>4 DEF CountAt
<1> QED BY <1>1, <1>2, <1>3, <1>4, <1>5, <1>6, <1>7, <1>8 DEF Core

\* Of the slots that suit, one has the least load.
LEMMA LeastExists ==
  ASSUME NEW hs, hs \subseteq Table0, hs # {}, NEW load \in [Table0 -> Nat]
  PROVE  Least(hs, load) # {}
<1> DEFINE loads == {load[g] : g \in hs}
<1>1. loads \subseteq Nat /\ loads # {}
  OBVIOUS
<1>2. PICK n \in loads : \A k \in loads : n <= k
  <2> HIDE DEF loads
  <2> QED BY <1>1, LeastNat
<1> DEFINE low == {g \in hs : load[g] = n}
<1>3. low \subseteq Nat /\ low # {}
  <2>1. PICK g \in hs : n = load[g]
    BY <1>2
  <2>2. Table0 \subseteq Nat
    BY ThreadKinds DEF Table0
  <2> QED BY <2>1, <2>2
<1>4. PICK h \in low : \A g \in low : h <= g
  <2> HIDE DEF low
  <2> QED BY <1>3, LeastNat
<1>5. ASSUME NEW g \in hs
      PROVE  load[h] < load[g] \/ (load[h] = load[g] /\ h <= g)
  <2>1. h \in hs /\ load[h] = n /\ n \in Nat /\ load[g] \in Nat /\ n <= load[g]
    BY <1>2, <1>4
  <2>2. load[g] = n => h <= g
    BY <1>4
  <2> QED BY <2>1, <2>2
<1>6. h \in hs
  BY <1>4
<1> QED BY <1>5, <1>6, Zenon DEF Least

\* The slots of the table.
LEMMA TableDomain == ASSUME Types PROVE DOMAIN table = Table0
BY DEF Types

(* crypto_invoke always finds a driver for the new session. *)
LEMMA RenewalFinds ==
  ASSUME Setting, Types, Slots, Booted
  PROVE  Chosen([flags |-> {"hw", "sw"}, slot |-> 0]) # {}
<1>1. PICK d \in Resident : Wanted \subseteq Provides[d]
  BY DEF Setting
<1>2. d \in Devs /\ None \notin Devs
  BY SessionsAssumption, DevsAssumption
<1>3. drv[d] = "in" /\ table[slotOf[d]].algs = Provides[d]
  BY <1>1 DEF Booted, Attached
<1> DEFINE h == slotOf[d]
<1>4. h \in Table0 /\ table[h].dev = d /\ table[h] \in Slot
  BY <1>2, <1>3 DEF Slots, DriverOK, Types
<1>5. ~table[h].cleanup
  BY <1>2, <1>4 DEF Slots, SlotOK
<1> HIDE DEF h
<1>6. \E b \in BOOLEAN : h \in Candidates(table, b, Wanted)
  <2>1. Wanted \subseteq table[h].algs /\ h \in DOMAIN table
    BY <1>1, <1>3, <1>4, TableDomain DEF h
  <2>2. ASSUME NEW b \in BOOLEAN, d \in Hardware <=> b
        PROVE  h \in Candidates(table, b, Wanted)
    BY <2>1, <2>2, <1>2, <1>4, <1>5 DEF Candidates, Suitable
  <2>3. CASE d \in Hardware
    BY <2>2, <2>3
  <2>4. CASE d \notin Hardware
    BY <2>2, <2>4
  <2> QED BY <2>3, <2>4
<1> DEFINE load == SessionLoad(table)
           cs(b) == Candidates(table, b, Wanted)
<1>7. load \in [Table0 -> Nat]
  BY TableDomain DEF SessionLoad, Types, Slot
<1>8. \A b \in BOOLEAN : cs(b) # {} => Least(cs(b), load) # {}
  <2> TAKE b \in BOOLEAN
  <2>1. cs(b) \subseteq Table0
    BY TableDomain DEF Candidates
  <2> HIDE DEF cs, load
  <2> QED BY <2>1, <1>7, LeastExists
<1>9. cs(TRUE) # {} \/ cs(FALSE) # {}
  BY <1>6
<1>10. Least(cs(TRUE), load) # {} \/ Least(cs(FALSE), load) # {}
  <2> HIDE DEF cs, load
  <2> QED BY <1>8, <1>9
<1>11. Select(table, {"hw", "sw"}, Wanted, load) # {}
  BY <1>10 DEF Select
<1> QED BY <1>11 DEF Chosen

(* crypto_newsession only picks a driver that is registered. *)
LEMMA ChosenIsIn ==
  ASSUME Setting, Types, Slots, NEW crid, NEW h \in Chosen(crid)
  PROVE  /\ h \in Table0 /\ table[h].dev \in Devs /\ table[h].algs # {}
         /\ ~table[h].cleanup
         /\ drv[table[h].dev] = "in" /\ slotOf[table[h].dev] = h
<1>1. h \in Table0 /\ Wanted \subseteq table[h].algs
  <2>1. CASE crid.flags = {}
    BY <2>1, TableDomain DEF Chosen, Suitable
  <2>2. CASE crid.flags # {}
    <3>1. h \in Select(table, crid.flags, Wanted, SessionLoad(table))
      BY <2>2 DEF Chosen
    <3>2. PICK b \in BOOLEAN : h \in Candidates(table, b, Wanted)
      BY <3>1 DEF Select, Least
    <3> QED BY <3>2, TableDomain DEF Candidates, Suitable
  <2> QED BY <2>1, <2>2
<1>2. table[h].algs # {}
  BY <1>1 DEF Setting
<1>3. SlotOK(h) /\ table[h] \in Slot
  BY <1>1 DEF Slots, Types
<1>4. table[h].dev # None /\ table[h].dev \in Devs
  BY <1>2, <1>3, SlotFields DEF SlotOK
<1>5. /\ drv[table[h].dev] # "out" /\ slotOf[table[h].dev] = h
      /\ ~table[h].cleanup
  BY <1>3, <1>4 DEF SlotOK
<1>6. drv[table[h].dev] = "in"
  <2>1. DriverOK(table[h].dev) /\ drv[table[h].dev] \in {"out", "claimed", "in"}
    BY <1>4 DEF Slots, Types
  <2> QED BY <2>1, <1>5, <1>2 DEF DriverOK
<1> QED BY <1>1, <1>2, <1>4, <1>5, <1>6

\* A client without an open session has no request under way.
LEMMA Alone ==
  ASSUME Nested, NEW s \in Sessions, pc[s] # "open"
  PROVE  \A r \in Requests(s) : pc[r] = "idle"
BY DEF Nested, Requests

\* crypto_newsession finds no driver: only a client may meet that.
LEMMA NewSessionNoneStep ==
  ASSUME Setting, Core, DriverPresent, NEW t \in Threads,
         NEW crid \in CridsOf(t), NewSessionNone(t, crid)
  PROVE  Core'
<1>0. Types /\ Slots /\ Held /\ Nested /\ Running /\ MayOpen(t)
  BY DEF Core, NewSessionNone
<1>1. CASE t \in Sessions
  <2> DEFINE l == "closed"
  <2>1. /\ pc[t] = "closed" /\ pc' = [pc EXCEPT ![t] = l]
        /\ UNCHANGED <<table, drv, slotOf, open, sid, cap, seen>>
    BY <1>1 DEF NewSessionNone, MayOpen, Goto, Refused, driverVars
  <2>2. Moves(t, l)
    BY <1>1, <2>1, ThreadKinds DEF Moves, Labels, SessionLabels
  <2>3. pc'[t] = l
    BY <1>0, <2>2, PcMoves DEF Moves
  <2>4. Holder(t)' <=> Holder(t)
    BY <2>1, <2>3 DEF Holder
  <2>5. cap' \in [Threads -> Table0] /\ seen' \in [Threads -> {0}]
    BY <1>0, <2>1 DEF Types
  <2> QED BY <2>1, <2>2, <2>4, <2>5, QuietStep
<1>2. CASE t \in Reqs
  <2>1. pc[t] = "renew" /\ crid = [flags |-> {"hw", "sw"}, slot |-> 0]
    BY <1>2, ThreadKinds DEF NewSessionNone, MayOpen, CridsOf
  <2>2. pc[SessionOf[t]] = "open"
    BY <1>0, <1>2, <2>1 DEF Nested
  <2>3. Booted
    BY <1>0, <1>2, <2>2, ThreadKinds DEF Running
  <2>4. Chosen(crid) # {}
    BY <1>0, <2>1, <2>3, RenewalFinds
  <2> QED BY <2>4 DEF NewSessionNone
<1> QED BY <1>1, <1>2, ThreadKinds

\* crypto_freesession has found its driver.
LEMMA FreeSessionBeginStep ==
  ASSUME Setting, Core, DriverPresent, edition = 0, NEW t \in Threads,
         FreeSessionBegin(t)
  PROVE  Core'
<1>0. Types /\ Held /\ Placed /\ MayFree(t)
  BY DEF Core, FreeSessionBegin
<1> DEFINE l == "freecall"
<1>1. /\ pc' = [pc EXCEPT ![t] = l] /\ cap' = [cap EXCEPT ![t] = sid[t].hid]
      /\ seen' = [seen EXCEPT ![t] = 0]
      /\ UNCHANGED <<table, drv, slotOf, open, sid>>
  BY DEF FreeSessionBegin, Goto, driverVars
<1>2. Moves(t, l)
  BY <1>0, <1>1, ThreadKinds
     DEF Moves, Labels, SessionLabels, RequestLabels, MayFree
<1>3. pc'[t] = l /\ pc[t] \in {"open", "migrate"}
  BY <1>0, <1>2, PcMoves DEF Moves, MayFree
<1>4. Holder(t) /\ Holder(t)'
  BY <1>0, <1>3 DEF Holder, MayFree
<1>5. sid[t].hid \in Table0
  BY <1>0, <1>4 DEF Held, Placed
<1>6. /\ cap' \in [Threads -> Table0] /\ seen' \in [Threads -> {0}]
      /\ cap'[t] = sid[t].hid /\ \A u \in Threads : u # t => cap'[u] = cap[u]
  BY <1>0, <1>1, <1>5 DEF Types
<1> QED BY <1>1, <1>2, <1>3, <1>4, <1>6, QuietStep

\* The freesession method is called, if the driver is still there.
LEMMA FreeSessionCallStep ==
  ASSUME Setting, Core, DriverPresent, NEW t \in Threads, FreeSessionCall(t)
  PROVE  Core'
<1>0. Types /\ Held /\ Placed /\ Caps
  BY DEF Core
<1>1. PICK l \in {"oops", "freeend"} : pc' = [pc EXCEPT ![t] = l]
  BY DEF FreeSessionCall, Goto
<1>2. /\ pc[t] = "freecall"
      /\ UNCHANGED <<table, drv, slotOf, open, sid, cap, seen>>
  BY DEF FreeSessionCall, driverVars
<1>3. Moves(t, l)
  BY <1>1, <1>2, ThreadKinds
     DEF Moves, Labels, SessionLabels, RequestLabels
<1>4. pc'[t] = l
  BY <1>0, <1>3, PcMoves DEF Moves
<1>5. Holder(t) /\ (Holder(t)' \/ l = "oops")
  BY <1>2, <1>4 DEF Holder
<1>6. /\ cap' \in [Threads -> Table0] /\ seen' \in [Threads -> {0}]
      /\ cap'[t] = sid[t].hid
  BY <1>0, <1>2 DEF Types, Caps
<1> QED BY <1>1, <1>2, <1>3, <1>5, <1>6, QuietStep

\* crypto_invoke reads the flags of the slot.
LEMMA InvokeStep ==
  ASSUME Setting, Core, DriverPresent, edition = 0, NEW t \in Reqs, Invoke(t)
  PROVE  Core'
<1>0. Types /\ Held /\ Placed /\ t \in Threads /\ t \notin Sessions
  BY ThreadKinds DEF Core
<1>1. PICK l \in {"migrate", "process"} : pc' = [pc EXCEPT ![t] = l]
  BY DEF Invoke, Goto
<1>2. /\ pc[t] = "queued" /\ cap' = [cap EXCEPT ![t] = sid[t].hid]
      /\ seen' = [seen EXCEPT ![t] = 0]
      /\ UNCHANGED <<table, drv, slotOf, open, sid>>
  BY DEF Invoke, driverVars
<1>3. Moves(t, l)
  BY <1>0, <1>1, <1>2 DEF Moves, Labels, RequestLabels
<1>4. pc'[t] = l
  BY <1>0, <1>3, PcMoves DEF Moves
<1>5. Holder(t) /\ Holder(t)'
  BY <1>2, <1>4 DEF Holder
<1>6. sid[t].hid \in Table0
  BY <1>0, <1>5 DEF Held, Placed
<1>7. /\ cap' \in [Threads -> Table0] /\ seen' \in [Threads -> {0}]
      /\ \A u \in Threads : u # t => cap'[u] = cap[u]
  BY <1>0, <1>2, <1>6 DEF Types
<1> QED BY <1>0, <1>1, <1>2, <1>3, <1>5, <1>7, QuietStep

\* What a slot counts is finite.
LEMMA CountsFinite ==
  ASSUME Setting, Types, NEW h
  PROVE  /\ IsFiniteSet(OpenOn(h)) /\ IsFiniteSet(ClaimsOn(h))
         /\ IsFiniteSet(MarksOn(h))
         /\ Cardinality(OpenOn(h)) \in Nat /\ Cardinality(ClaimsOn(h)) \in Nat
         /\ Cardinality(MarksOn(h)) \in Nat
<1>1. IsFiniteSet(Threads)
  BY FS_Union, ThreadKinds DEF Setting
<1>2. /\ OpenOn(h) \in SUBSET open /\ ClaimsOn(h) \in SUBSET Threads
      /\ MarksOn(h) \in SUBSET Devs
  BY DEF OpenOn, ClaimsOn, MarksOn
<1>3. /\ IsFiniteSet(OpenOn(h)) /\ IsFiniteSet(ClaimsOn(h))
      /\ IsFiniteSet(MarksOn(h))
  BY <1>1, <1>2, FS_Subset DEF Types, Setting
<1> QED BY <1>3, FS_CardinalityType

\* A set with one element more.
LEMMA OneMore ==
  ASSUME NEW S, NEW T, NEW x, IsFiniteSet(S), x \notin S, T = S \cup {x}
  PROVE  IsFiniteSet(T) /\ Cardinality(T) = Cardinality(S) + 1
BY FS_AddElement

\* A set with one element fewer.
LEMMA OneFewer ==
  ASSUME NEW S, NEW T, NEW x, IsFiniteSet(S), x \in S, T = S \ {x}
  PROVE  IsFiniteSet(T) /\ Cardinality(T) = Cardinality(S) - 1
BY FS_RemoveElement

(* The sessions a device may open never run out. *)
Owner(u) == IF u \in Sessions THEN u ELSE SessionOf[u]

\* A client and its requests hold one session between them.
LEMMA OwnersDiffer ==
  ASSUME Setting, Nested, NEW t \in Threads, NEW u \in Threads,
         Holder(t), Holder(u) \/ pc[u] = "newcall", Owner(t) = Owner(u)
  PROVE  t = u
<1>1. ASSUME NEW s \in Sessions, NEW r \in Reqs, SessionOf[r] = s,
             Holder(s), Holder(r) \/ pc[r] = "newcall"
      PROVE  FALSE
  <2>1. r \in Requests(s) /\ r \notin Sessions
    BY <1>1, ThreadKinds DEF Requests
  <2>2. pc[r] # "idle" /\ pc[s] = "open"
    BY <1>1, <2>1 DEF Holder, Nested
  <2> QED BY <1>1, <2>1, <2>2 DEF Holder
<1>2. ASSUME NEW s \in Sessions, NEW r \in Reqs, SessionOf[r] = s,
             Holder(r), Holder(s) \/ pc[s] = "newcall"
      PROVE  FALSE
  <2>1. r \in Requests(s) /\ r \notin Sessions
    BY <1>2, ThreadKinds DEF Requests
  <2>2. pc[r] # "idle" /\ pc[s] = "open"
    BY <1>2, <2>1 DEF Holder, Nested
  <2> QED BY <1>2, <2>1, <2>2 DEF Holder
<1>3. CASE t \in Sessions /\ u \in Sessions
  BY <1>3 DEF Owner
<1>4. CASE t \in Sessions /\ u \in Reqs
  <2>1. SessionOf[u] = t
    BY <1>4, ThreadKinds DEF Owner
  <2> QED BY <1>1, <1>4, <2>1
<1>5. CASE t \in Reqs /\ u \in Sessions
  <2>1. SessionOf[t] = u
    BY <1>5, ThreadKinds DEF Owner
  <2> QED BY <1>2, <1>5, <2>1
<1>6. CASE t \in Reqs /\ u \in Reqs
  BY <1>6, ThreadKinds DEF Owner, Setting
<1> QED BY <1>3, <1>4, <1>5, <1>6, ThreadKinds

\* The sessions a device can open do not run out: the others are held for other
\* clients.
LEMMA SidsSuffice ==
  ASSUME Setting, Types, Held, Nested, DriverPresent, InitialSlots <= MaxSlots,
         NEW t \in Threads, pc[t] = "newcall", NEW h \in Table0, NEW d \in Devs
  PROVE  FreeSids(h, d) # {}
<1> SUFFICES ASSUME FreeSids(h, d) = {} PROVE FALSE
  OBVIOUS
<1> DEFINE X(l) == [hid |-> h, dev |-> d, lid |-> l]
           H(l) == CHOOSE u \in Threads : Holder(u) /\ sid[u] = X(l)
           f == [l \in 1 .. MaxLids |-> Owner(H(l))]
           others == Sessions \ {Owner(t)}
<1>1. h \in Hids
  BY ThreadKinds DEF Table0, Hids
<1>2. \A l \in 1 .. MaxLids : X(l) \in open
  BY <1>1 DEF FreeSids, Sids
<1>3. \A l \in 1 .. MaxLids : H(l) \in Threads /\ Holder(H(l)) /\ sid[H(l)] = X(l)
  <2> TAKE l \in 1 .. MaxLids
  <2> HIDE DEF X
  <2>1. \E u \in Threads : Holder(u) /\ sid[u] = X(l)
    BY <1>2 DEF Held, DriverPresent
  <2> QED BY <2>1
<1>4. \A u \in Threads : Owner(u) \in Sessions
  BY ThreadKinds DEF Owner
<1>5. \A l \in 1 .. MaxLids : Owner(H(l)) # Owner(t)
  <2> TAKE l \in 1 .. MaxLids
  <2> DEFINE u == H(l)
  <2>1. u \in Threads /\ Holder(u)
    BY <1>3
  <2> HIDE DEF u
  <2>2. ~Holder(t)
    BY DEF Holder
  <2>3. Owner(u) # Owner(t)
    BY <2>1, <2>2, OwnersDiffer
  <2> QED BY <2>3 DEF u
<1>6. \A k, l \in 1 .. MaxLids : X(k) = X(l) => k = l
  BY Zenon
<1>7. \A k, l \in 1 .. MaxLids : Owner(H(k)) = Owner(H(l)) => k = l
  <2> SUFFICES ASSUME NEW k \in 1 .. MaxLids, NEW l \in 1 .. MaxLids,
                      Owner(H(k)) = Owner(H(l))
               PROVE  k = l
    OBVIOUS
  <2> DEFINE u == H(k)
             v == H(l)
  <2>1. u \in Threads /\ Holder(u) /\ sid[u] = X(k)
    BY <1>3
  <2>2. v \in Threads /\ Holder(v) /\ sid[v] = X(l)
    BY <1>3
  <2>3. Owner(u) = Owner(v)
    OBVIOUS
  <2> HIDE DEF u, v, X
  <2>4. u = v
    BY <2>1, <2>2, <2>3, OwnersDiffer
  <2> QED BY <2>1, <2>2, <2>4, <1>6
<1>8. f \in [1 .. MaxLids -> others] /\ \A l \in 1 .. MaxLids : f[l] = Owner(H(l))
  <2> HIDE DEF H
  <2> QED BY <1>3, <1>4, <1>5
<1>9. /\ IsFiniteSet(1 .. MaxLids) /\ Cardinality(1 .. MaxLids) = MaxLids
  BY FS_Interval, ThreadKinds
<1>10. /\ IsFiniteSet(others) /\ Cardinality(others) = Cardinality(Sessions) - 1
       /\ Cardinality(Sessions) \in Nat
  BY <1>4, FS_RemoveElement, FS_CardinalityType DEF Setting
<1>11. Cardinality(others) < Cardinality(1 .. MaxLids)
  BY <1>9, <1>10, ThreadKinds DEF Setting
<1> HIDE DEF f, others, H
<1>12. \E k, l \in 1 .. MaxLids : k # l /\ f[k] = f[l]
  <2> DEFINE L == 1 .. MaxLids
  <2>1. /\ f \in [L -> others] /\ IsFiniteSet(L) /\ IsFiniteSet(others)
        /\ Cardinality(others) < Cardinality(L)
    BY <1>8, <1>9, <1>10, <1>11
  <2> HIDE DEF L
  <2>2. \E k, l \in L : k # l /\ f[k] = f[l]
    BY <2>1, FS_PigeonHole
  <2> QED BY <2>2 DEF L
<1> QED BY <1>7, <1>8, <1>12

\* A new session is held by the thread that asked for it.
LEMMA HeldGains ==
  ASSUME Types, Held, NEW t \in Threads, NEW l, Moves(t, l), NEW x,
         x \notin open, open' = open \cup {x}, sid' = [sid EXCEPT ![t] = x],
         ~Holder(t), Holder(t)', pc[t] # "oops"
  PROVE  Held'
<1>1. sid'[t] = x /\ \A u \in Threads : u # t => sid'[u] = sid[u]
  BY DEF Types
<1>2. \A u \in Threads : u # t => (Holder(u)' <=> Holder(u))
  BY OthersHold, Zenon
<1>3. \A u \in Threads : u # t => pc'[u] = pc[u]
  BY PcMoves, Zenon DEF Moves
<1>4. ASSUME NEW u \in Threads, Holder(u)' PROVE sid'[u] \in open'
  BY <1>1, <1>2, <1>4 DEF Held
<1>5. ASSUME NEW u \in Threads, NEW v \in Threads, Holder(u)', Holder(v)',
             sid'[u] = sid'[v]
      PROVE  u = v
  <2>1. \A w \in Threads : w # t /\ Holder(w)' => sid'[w] # x
    BY <1>1, <1>2 DEF Held
  <2> QED BY <1>1, <1>2, <1>5, <2>1 DEF Held
<1>6. ASSUME NEW y \in open'
      PROVE  \E u \in Threads : sid'[u] = y /\ (Holder(u)' \/ pc'[u] = "oops")
  <2>1. CASE y = x
    BY <1>1, <2>1
  <2>2. CASE y \in open
    <3>1. PICK u \in Threads : sid[u] = y /\ (Holder(u) \/ pc[u] = "oops")
      BY <2>2 DEF Held
    <3>2. u # t
      BY <3>1
    <3> QED BY <1>1, <1>2, <1>3, <3>1, <3>2
  <2> QED BY <2>1, <2>2
<1> QED BY <1>4, <1>5, <1>6, Zenon DEF Held

\* A session that is freed takes no other with it.
LEMMA HeldLoses ==
  ASSUME Types, Held, NEW t \in Threads, NEW l, Moves(t, l), sid' = sid,
         open' = open \ {sid[t]}, Holder(t), ~Holder(t)', pc[t] # "oops"
  PROVE  Held'
<1>1. \A u \in Threads : u # t => (Holder(u)' <=> Holder(u))
  BY OthersHold, Zenon
<1>2. \A u \in Threads : u # t => pc'[u] = pc[u]
  BY PcMoves, Zenon DEF Moves
<1>3. ASSUME NEW u \in Threads, Holder(u)' PROVE sid[u] \in open'
  <2>1. u # t /\ Holder(u)
    BY <1>1, <1>3
  <2> QED BY <2>1 DEF Held
<1>4. ASSUME NEW y \in open'
      PROVE  \E u \in Threads : sid[u] = y /\ (Holder(u)' \/ pc'[u] = "oops")
  <2>1. PICK u \in Threads : sid[u] = y /\ (Holder(u) \/ pc[u] = "oops")
    BY <1>4 DEF Held
  <2>2. u # t
    BY <1>4, <2>1
  <2> QED BY <1>1, <1>2, <2>1, <2>2
<1> QED BY <1>1, <1>3, <1>4 DEF Held

(* A step on one slot that leaves its driver there. *)
Resized(h, v) ==
  /\ v \in Slot /\ table' = [table EXCEPT ![h] = v]
  /\ drv' = drv /\ slotOf' = slotOf
  /\ v.dev = table[h].dev /\ v.algs = table[h].algs /\ v.kops = 0
  /\ v.cleanup => table[h].cleanup /\ v.sessions # 0
  /\ v.dev = None /\ ~v.cleanup => v.sessions = 0
  /\ v.dev # None /\ drv[v.dev] = "claimed" => v.sessions = table[h].sessions

\* Slots and drivers agree after a step that only counts sessions.
LEMMA SlotsResized ==
  ASSUME Types, Slots, NEW h \in Table0, NEW v, Resized(h, v)
  PROVE  /\ table' \in [Table0 -> Slot] /\ Slots'
         /\ table'[h] = v /\ \A g \in Table0 : g # h => table'[g] = table[g]
         /\ \A g \in Table0 : table'[g].dev = table[g].dev
         /\ Booted => Booted'
<1>1. table \in [Table0 -> Slot]
  BY DEF Types
<1>2. /\ table' \in [Table0 -> Slot] /\ table'[h] = v
      /\ \A g \in Table0 : g # h => table'[g] = table[g]
  BY <1>1 DEF Resized
<1>3. \A g \in Table0 : /\ table'[g].dev = table[g].dev
                        /\ table'[g].algs = table[g].algs
  BY <1>2 DEF Resized
<1>4. ASSUME NEW g \in Table0 PROVE SlotOK(g)'
  <2>1. SlotOK(g)
    BY DEF Slots
  <2>2. CASE g # h
    BY <1>2, <2>1, <2>2 DEF SlotOK, Resized
  <2>3. CASE g = h
    <3>1. /\ v.dev # None => drv[v.dev] # "out" /\ slotOf[v.dev] = h
          /\ v.dev = None => v.algs = {}
      BY <2>1, <2>3 DEF SlotOK, Resized
    <3>2. v.dev # None => ~v.cleanup
      BY <2>1, <2>3 DEF SlotOK, Resized
    <3> QED BY <1>2, <2>3, <3>1, <3>2 DEF SlotOK, Resized
  <2> QED BY <2>2, <2>3
<1>5. ASSUME NEW d \in Devs PROVE DriverOK(d)'
  <2>1. DriverOK(d) /\ slotOf[d] \in Table0 /\ slotOf'[d] = slotOf[d] /\ drv' = drv
    BY DEF Slots, Types, Resized
  <2>2. drv[d] = "claimed" => table'[slotOf[d]].sessions = table[slotOf[d]].sessions
    <3>1. SUFFICES ASSUME drv[d] = "claimed", slotOf[d] = h PROVE v.sessions = table[h].sessions
      BY <1>2, <2>1
    <3>2. table[h].dev = d /\ d # None
      BY <2>1, <3>1, DevsAssumption DEF DriverOK
    <3> QED BY <3>1, <3>2 DEF Resized
  <2> QED BY <1>3, <2>1, <2>2 DEF DriverOK
<1>6. Booted => Booted'
  <2> SUFFICES ASSUME Booted, NEW d \in Resident PROVE Attached(d)'
    BY DEF Booted
  <2>1. d \in Devs
    BY SessionsAssumption
  <2>2. Attached(d) /\ slotOf[d] \in Table0
    BY <2>1 DEF Booted, Types
  <2> QED BY <1>3, <2>2 DEF Attached, Resized
<1> QED BY <1>2, <1>3, <1>4, <1>5, <1>6 DEF Slots

\* What threads know of the slot they point to stays true while slots keep their
\* drivers.
LEMMA CapsKept ==
  ASSUME Types, Caps, NEW t \in Threads, NEW l, Moves(t, l), sid' = sid,
         \A u \in Threads : u # t => cap'[u] = cap[u],
         \A g \in Table0 : table'[g].dev = table[g].dev,
         l \in {"freecall", "freeend"} => cap'[t] = sid[t].hid,
         l # "newbad"
  PROVE  Caps'
<1>1. pc'[t] = l /\ \A u \in Threads : u # t => pc'[u] = pc[u]
  BY PcMoves DEF Moves
<1>2. \A u \in Threads : cap[u] \in Table0
  BY DEF Types
<1> QED BY <1>1, <1>2 DEF Caps

\* crypto_newsession claims a place in the slot it chose.
LEMMA NewSessionBeginStep ==
  ASSUME Setting, Core, DriverPresent, edition = 0, NEW t \in Threads,
         NEW crid \in CridsOf(t), NewSessionBegin(t, crid)
  PROVE  Core'
<1>0. /\ Types /\ Slots /\ Placed /\ Held /\ Nested /\ Caps /\ Running /\ Counted
      /\ MayOpen(t)
  BY DEF Core, NewSessionBegin
<1> DEFINE l == "newcall"
<1>1. PICK h \in Chosen(crid) : /\ cap' = [cap EXCEPT ![t] = h]
                                /\ table' = [table EXCEPT ![h] = Claim(@)]
  BY DEF NewSessionBegin
<1>2. /\ pc' = [pc EXCEPT ![t] = l] /\ seen' = [seen EXCEPT ![t] = 0]
      /\ UNCHANGED <<drv, slotOf, open, sid>>
  BY DEF NewSessionBegin, Goto, driverVars
<1>3. /\ h \in Table0 /\ table[h].dev \in Devs /\ ~table[h].cleanup
      /\ drv[table[h].dev] = "in" /\ table[h] \in Slot
  BY <1>0, ChosenIsIn DEF Types
<1> DEFINE n == table[h].sessions + 1
           v == [table[h] EXCEPT !.sessions = n]
<1>4. n \in Nat /\ table' = [table EXCEPT ![h] = v]
  BY <1>1, <1>3, SlotFields DEF Claim
<1>5. /\ v \in Slot /\ v.dev = table[h].dev /\ v.algs = table[h].algs
      /\ v.kops = table[h].kops /\ v.cleanup = table[h].cleanup
      /\ v.sessions = n
  BY <1>3, <1>4, CountedSlot
<1> HIDE DEF v, n
<1>6. table[h].kops = 0
  BY <1>0, <1>3 DEF Slots, SlotOK
<1>7. Resized(h, v)
  BY <1>2, <1>3, <1>4, <1>5, <1>6, DevsAssumption DEF Resized
<1>8. /\ table' \in [Table0 -> Slot] /\ Slots'
      /\ table'[h] = v /\ \A g \in Table0 : g # h => table'[g] = table[g]
      /\ \A g \in Table0 : table'[g].dev = table[g].dev
      /\ Booted => Booted'
  BY <1>0, <1>3, <1>7, SlotsResized
<1>9. Moves(t, l)
  BY <1>0, <1>2, ThreadKinds
     DEF Moves, Labels, SessionLabels, RequestLabels, MayOpen
<1>10. /\ pc' \in [Threads -> SessionLabels \cup RequestLabels]
       /\ \A s \in Sessions : pc'[s] \in SessionLabels
       /\ \A r \in Reqs : pc'[r] \in RequestLabels
       /\ pc'[t] = l /\ \A u \in Threads : u # t => pc'[u] = pc[u]
  BY <1>0, <1>9, PcMoves DEF Moves
<1>11. /\ cap' \in [Threads -> Table0] /\ seen' \in [Threads -> {0}]
       /\ cap'[t] = h /\ \A u \in Threads : u # t => cap'[u] = cap[u]
  BY <1>0, <1>1, <1>2, <1>3 DEF Types
<1>12. Types'
  BY <1>0, <1>2, <1>8, <1>10, <1>11 DEF Types
<1>13. pc[t] \in {"closed", "renew"} /\ ~Holder(t) /\ ~Holder(t)'
  BY <1>0, <1>10 DEF MayOpen, Holder
<1>14. Held'
  BY <1>0, <1>2, <1>9, <1>13, HeldKept
<1>15. Placed'
  BY <1>0, <1>2, <1>5, <1>8 DEF Placed
<1>16. Nested'
  BY <1>0, <1>2, <1>9, NestedKept
<1>17. Caps'
  BY <1>0, <1>2, <1>8, <1>9, <1>11, CapsKept
<1>18. Running'
  <2>1. t \in Sessions /\ pc[t] = "closed" => Booted \/ l = "closed"
    BY <1>0 DEF MayOpen
  <2> QED BY <1>0, <1>8, <1>9, <2>1, RunningKept
<1>19. ASSUME NEW g \in Table0 PROVE CountAt(g)'
  <2>1. CountAt(g) /\ OpenOn(g)' = OpenOn(g) /\ MarksOn(g)' = MarksOn(g)
    BY <1>0, <1>2 DEF OpenOn, MarksOn, Counted
  <2>2. CASE g # h
    <3>1. ClaimsOn(g)' = ClaimsOn(g)
      BY <1>10, <1>11, <1>13, <2>2 DEF ClaimsOn
    <3> QED BY <1>8, <2>1, <2>2, <3>1 DEF CountAt
  <2>3. CASE g = h
    <3>1. t \notin ClaimsOn(h) /\ ClaimsOn(h)' = ClaimsOn(h) \cup {t}
      BY <1>10, <1>11, <1>13 DEF ClaimsOn
    <3>2. Cardinality(ClaimsOn(h)') = Cardinality(ClaimsOn(h)) + 1
      BY <1>0, <3>1, CountsFinite, OneMore
    <3>3. table'[h].sessions = table[h].sessions + 1
      BY <1>5, <1>8 DEF n
    <3> QED BY <1>0, <2>1, <2>3, <3>2, <3>3, CountsFinite DEF CountAt
  <2> QED BY <2>2, <2>3
<1>20. Counted'
  BY <1>19 DEF Counted
<1> QED BY <1>8, <1>12, <1>14, <1>15, <1>16, <1>17, <1>18, <1>20 DEF Core

\* A thread frees the session it holds: the count follows, and a slot that waited
\* for its last session is empty.
LEMMA FreesStep ==
  ASSUME Setting, Core, DriverPresent, NEW t \in Threads, NEW l,
         l = Freed(t), Moves(t, l), Holder(t), pc[t] # "newok",
         NEW h \in Table0, h = sid[t].hid,
         table' = [table EXCEPT ![h] = SessionFreed(@)],
         open' = open \ {sid[t]},
         UNCHANGED <<drv, slotOf, sid, cap, seen>>
  PROVE  Core'
<1>0. /\ Types /\ Slots /\ Placed /\ Held /\ Nested /\ Caps /\ Running /\ Counted
  BY DEF Core
<1> DEFINE v == SessionFreed(table[h])
<1>1. /\ sid[t] \in open /\ h \in Table0 /\ table[h] \in Slot /\ CountAt(h)
      /\ SlotOK(h)
  BY <1>0 DEF Held, Types, Counted, Slots
<1>2. /\ IsFiniteSet(OpenOn(h)) /\ sid[t] \in OpenOn(h)
      /\ OpenOn(h)' = OpenOn(h) \ {sid[t]}
  BY <1>0, <1>1, CountsFinite DEF OpenOn
<1>3. /\ Cardinality(OpenOn(h)') = Cardinality(OpenOn(h)) - 1
      /\ IsFiniteSet(OpenOn(h)')
  BY <1>2, OneFewer
<1>4. Cardinality(OpenOn(h)') \in Nat
  BY <1>3, FS_CardinalityType
<1>5. /\ table[h].sessions # 0 /\ table[h].sessions \in Nat
      /\ table[h].sessions = 1 => Cardinality(MarksOn(h)) = 0
  <2>1. /\ Cardinality(OpenOn(h)) \in Nat /\ Cardinality(ClaimsOn(h)) \in Nat
        /\ Cardinality(MarksOn(h)) \in Nat
    BY <1>0, CountsFinite
  <2> QED BY <1>1, <1>3, <1>4, <2>1 DEF CountAt
<1>6. table[h].cleanup => table[h].dev = None /\ table[h].algs = {}
  BY <1>1 DEF SlotOK
<1>7. /\ v \in Slot /\ v.dev = table[h].dev /\ v.algs = table[h].algs
      /\ v.kops = 0 /\ v.sessions = table[h].sessions - 1
      /\ v.cleanup => table[h].cleanup /\ v.sessions # 0
      /\ table[h].cleanup => v.cleanup \/ v.sessions = 0
  <2>1. table[h].kops = 0
    BY <1>1 DEF SlotOK
  <2> QED BY <1>1, <1>5, <1>6, <2>1, FreedSlot
<1>8. table' = [table EXCEPT ![h] = v]
  OBVIOUS
<1>9. table[h].dev # None => drv[table[h].dev] # "claimed"
  <2>1. SUFFICES ASSUME table[h].dev # None, drv[table[h].dev] = "claimed"
                 PROVE  FALSE
    OBVIOUS
  <2>2. table[h].dev \in Devs /\ slotOf[table[h].dev] = h
    BY <1>1, <2>1, SlotFields DEF SlotOK
  <2>3. table[h].sessions = 1
    BY <1>0, <2>1, <2>2 DEF Slots, DriverOK
  <2>4. MarksOn(h) # {}
    BY <2>1, <2>2 DEF MarksOn
  <2>5. IsFiniteSet(MarksOn(h))
    BY <1>0, CountsFinite
  <2>6. Cardinality(MarksOn(h)) # 0
    BY <2>4, <2>5, FS_EmptySet
  <2> QED BY <1>5, <2>3, <2>6
<1> HIDE DEF v
<1>10. Resized(h, v)
  <2>1. v.dev = None /\ ~v.cleanup => v.sessions = 0
    BY <1>1, <1>5, <1>7 DEF SlotOK
  <2> QED BY <1>7, <1>8, <1>9, <2>1 DEF Resized
<1>11. /\ table' \in [Table0 -> Slot] /\ Slots'
       /\ table'[h] = v /\ \A g \in Table0 : g # h => table'[g] = table[g]
       /\ \A g \in Table0 : table'[g].dev = table[g].dev
       /\ Booted => Booted'
  BY <1>0, <1>1, <1>10, SlotsResized
<1>12. /\ pc' \in [Threads -> SessionLabels \cup RequestLabels]
       /\ \A s \in Sessions : pc'[s] \in SessionLabels
       /\ \A r \in Reqs : pc'[r] \in RequestLabels
       /\ pc'[t] = l /\ \A u \in Threads : u # t => pc'[u] = pc[u]
  BY <1>0, PcMoves DEF Moves
<1>13. IsFiniteSet(open') /\ open' \subseteq Sids
  BY <1>0, FS_RemoveElement DEF Types
<1>14. Types'
  BY <1>0, <1>11, <1>12, <1>13 DEF Types
<1>15. /\ l \in {"closed", "renew"} /\ ~Holder(t)'
       /\ pc[t] \notin {"newcall", "newbad", "oops", "closed"}
  <2>1. l \in {"closed", "renew"}
    BY DEF Freed
  <2> QED BY <2>1, <1>12 DEF Holder
<1>16. Held'
  BY <1>0, <1>15, HeldLoses
<1>17. Nested'
  BY <1>0, <1>15, NestedKept
<1>18. Caps'
  BY <1>0, <1>11, <1>15, CapsKept
<1>19. Running'
  BY <1>0, <1>11, <1>15, RunningKept
<1>20. ASSUME NEW g \in Table0 PROVE CountAt(g)'
  <2>1. CountAt(g) /\ MarksOn(g)' = MarksOn(g)
    BY <1>0 DEF MarksOn, Counted
  <2>2. ClaimsOn(g)' = ClaimsOn(g)
    BY <1>12, <1>15 DEF ClaimsOn
  <2>3. CASE g # h
    <3>1. OpenOn(g)' = OpenOn(g)
      BY <2>3 DEF OpenOn
    <3> QED BY <1>11, <2>1, <2>2, <2>3, <3>1 DEF CountAt
  <2>4. CASE g = h
    <3>1. table'[h].sessions = table[h].sessions - 1
      BY <1>7, <1>11
    <3>2. /\ Cardinality(OpenOn(h)) \in Nat /\ Cardinality(ClaimsOn(h)) \in Nat
          /\ Cardinality(MarksOn(h)) \in Nat
      BY <1>0, CountsFinite
    <3> QED BY <1>3, <2>1, <2>2, <2>4, <3>1, <3>2 DEF CountAt
  <2> QED BY <2>3, <2>4
<1>21. Placed'
  <2> SUFFICES ASSUME NEW x \in open'
               PROVE  /\ x.hid \in Table0
                      /\ table'[x.hid].dev = x.dev \/ table'[x.hid].cleanup
    BY DEF Placed
  <2>1. x \in open /\ x.hid \in Table0
        /\ (table[x.hid].dev = x.dev \/ table[x.hid].cleanup)
    BY <1>0 DEF Placed
  <2>2. CASE x.hid # h
    BY <1>11, <2>1, <2>2
  <2>3. CASE x.hid = h
    <3>1. OpenOn(h)' # {}
      BY <2>3 DEF OpenOn
    <3>2. Cardinality(OpenOn(h)') # 0
      BY <1>3, <3>1, FS_EmptySet
    <3>3. v.sessions # 0
      <4>1. CountAt(h)' /\ table'[h] = v
        BY <1>1, <1>11, <1>20
      <4>2. /\ ClaimsOn(h)' = ClaimsOn(h) /\ MarksOn(h)' = MarksOn(h)
        BY <1>12, <1>15 DEF ClaimsOn, MarksOn
      <4>3. /\ Cardinality(ClaimsOn(h)) \in Nat /\ Cardinality(MarksOn(h)) \in Nat
        BY <1>0, CountsFinite
      <4> QED BY <1>4, <3>2, <4>1, <4>2, <4>3 DEF CountAt
    <3>4. table[h].cleanup => v.cleanup
      BY <1>7, <3>3
    <3> QED BY <1>7, <1>11, <2>1, <2>3, <3>4
  <2> QED BY <2>2, <2>3
<1>22. Counted'
  BY <1>20 DEF Counted
<1> QED BY <1>11, <1>14, <1>16, <1>17, <1>18, <1>19, <1>21, <1>22 DEF Core

\* crypto_freesession after the method of the driver.
LEMMA FreeSessionEndStep ==
  ASSUME Setting, Core, DriverPresent, edition = 0, NEW t \in Threads,
         FreeSessionEnd(t)
  PROVE  Core'
<1>0. Types /\ Held /\ Placed /\ Caps /\ Nested
  BY DEF Core
<1>1. /\ pc[t] = "freeend" /\ pc' = [pc EXCEPT ![t] = Freed(t)]
      /\ UNCHANGED <<drv, slotOf, sid, cap, seen>> /\ open' = open \ {sid[t]}
  BY DEF FreeSessionEnd, Goto, driverVars
<1>2. Holder(t) /\ cap[t] = sid[t].hid /\ seen[t] = edition
  BY <1>0, <1>1 DEF Holder, Caps, Types
<1>3. sid[t].hid \in Table0
  BY <1>0, <1>2 DEF Held, Placed
<1>4. table' = [table EXCEPT ![cap[t]] = SessionFreed(table[cap[t]])]
  BY <1>2 DEF FreeSessionEnd, StoreSlot
<1>5. PICK h \in Table0 : h = sid[t].hid
  BY <1>3
<1>7. table' = [table EXCEPT ![h] = SessionFreed(@)]
  BY <1>2, <1>4, <1>5
<1>6. Moves(t, Freed(t))
  BY <1>1, ThreadKinds
     DEF Moves, Labels, Freed, SessionLabels, RequestLabels
<1> QED BY <1>1, <1>2, <1>5, <1>6, <1>7, FreesStep

\* crypto_freesession for a driver that is gone.
LEMMA FreeSessionGoneStep ==
  ASSUME Setting, Core, DriverPresent, NEW t \in Threads, FreeSessionGone(t)
  PROVE  Core'
<1>0. Types /\ Held /\ Placed /\ MayFree(t)
  BY DEF Core, FreeSessionGone
<1>1. /\ pc' = [pc EXCEPT ![t] = Freed(t)]
      /\ table' = [table EXCEPT ![sid[t].hid] = SessionFreed(@)]
      /\ UNCHANGED <<drv, slotOf, sid, cap, seen>> /\ open' = open \ {sid[t]}
  BY DEF FreeSessionGone, Goto, driverVars
<1>2. Holder(t) /\ pc[t] # "newok"
  BY <1>0 DEF Holder, MayFree
<1>3. sid[t].hid \in Table0
  BY <1>0, <1>2 DEF Held, Placed
<1>5. PICK h \in Table0 : h = sid[t].hid
  BY <1>3
<1>4. Moves(t, Freed(t))
  BY <1>0, <1>1, ThreadKinds
     DEF Moves, Labels, Freed, SessionLabels, RequestLabels, MayFree
<1> QED BY <1>1, <1>2, <1>4, <1>5, FreesStep

\* The newsession method: a session, a refusal, or no driver to call.
LEMMA NewSessionCallStep ==
  ASSUME Setting, Core, DriverPresent, InitialSlots <= MaxSlots,
         NEW t \in Threads, NewSessionCall(t)
  PROVE  Core'
<1>0. /\ Types /\ Slots /\ Placed /\ Held /\ Nested /\ Caps /\ Running /\ Counted
  BY DEF Core
<1>1. PICK h \in Table0 : h = cap[t]
  BY <1>0 DEF Types
<1>2. PICK d \in Devs \cup {None} : d = table[h].dev
  BY <1>0, <1>1, SlotFields DEF Types
<1>3. /\ pc[t] = "newcall" /\ UNCHANGED <<table, drv, slotOf, cap, seen>>
  BY DEF NewSessionCall, driverVars
<1>4. ~Holder(t) /\ pc[t] # "oops"
  BY <1>3 DEF Holder
<1>5. /\ cap' \in [Threads -> Table0] /\ seen' \in [Threads -> {0}]
  BY <1>0, <1>3 DEF Types
<1>6. CASE d = None /\ Goto(t, "oops") /\ UNCHANGED <<sid, open>>
  <2> DEFINE l == "oops"
  <2>1. Moves(t, l)
    BY <1>3, <1>6, ThreadKinds
       DEF Goto, Moves, Labels, SessionLabels, RequestLabels
  <2>2. pc'[t] = l
    BY <1>0, <2>1, PcMoves DEF Moves
  <2>3. ~Holder(t)'
    BY <2>2 DEF Holder
  <2> QED BY <1>3, <1>4, <1>5, <1>6, <2>1, <2>3, QuietStep
<1>7. ASSUME NEW x \in FreeSids(h, d), sid' = [sid EXCEPT ![t] = x],
             open' = open \cup {x}, Goto(t, "newok")
      PROVE  Core'
  <2> DEFINE l == "newok"
  <2>1. /\ x \in Sids /\ x \notin open /\ x.hid = h /\ x.dev = d
    BY DEF FreeSids
  <2>2. Moves(t, l)
    BY <1>3, <1>7, ThreadKinds
       DEF Goto, Moves, Labels, SessionLabels, RequestLabels
  <2>3. /\ pc' \in [Threads -> SessionLabels \cup RequestLabels]
        /\ \A s \in Sessions : pc'[s] \in SessionLabels
        /\ \A r \in Reqs : pc'[r] \in RequestLabels
        /\ pc'[t] = l /\ \A u \in Threads : u # t => pc'[u] = pc[u]
    BY <1>0, <2>2, PcMoves DEF Moves
  <2>4. Holder(t)'
    BY <2>3 DEF Holder
  <2>5. Types'
    <3>1. sid' \in [Threads -> Sids \cup {None}]
      BY <1>0, <1>7, <2>1 DEF Types
    <3>2. open' \subseteq Sids /\ IsFiniteSet(open')
      BY <1>0, <1>7, <2>1, FS_AddElement DEF Types
    <3> QED BY <1>0, <1>3, <1>5, <2>3, <3>1, <3>2 DEF Types
  <2>6. Slots'
    BY <1>0, <1>3, SlotsSame
  <2>7. Placed'
    BY <1>0, <1>2, <1>3, <1>7, <2>1 DEF Placed
  <2>8. Held'
    BY <1>0, <1>4, <1>7, <2>1, <2>2, <2>4, HeldGains
  <2>9. Nested'
    <3> SUFFICES ASSUME NEW r \in Reqs
                 PROVE  /\ pc'[r] # "idle" => pc'[SessionOf[r]] = "open"
                        /\ pc'[r] \in {"queued", "process"} =>
                             sid'[SessionOf[r]] = sid'[r]
      BY DEF Nested
    <3> DEFINE s == SessionOf[r]
    <3>1. s \in Sessions /\ s \in Threads /\ r \in Threads /\ r # s
      BY ThreadKinds
    <3>2. /\ pc[r] # "idle" => pc[s] = "open"
          /\ pc[r] \in {"queued", "process"} => sid[s] = sid[r]
      BY <1>0 DEF Nested
    <3>3. \A u \in Threads : u # t => sid'[u] = sid[u]
      BY <1>0, <1>7 DEF Types
    <3> HIDE DEF s
    <3>4. CASE t = s
      <4>1. pc[r] = "idle" /\ pc'[r] = pc[r]
        BY <1>3, <2>3, <3>1, <3>2, <3>4
      <4> QED BY <4>1 DEF s
    <3>5. CASE t # s /\ t = r
      <4>1. pc'[s] = pc[s] /\ pc'[r] = l /\ pc[r] = "newcall"
        BY <1>3, <2>3, <3>1, <3>5
      <4> QED BY <3>2, <4>1 DEF s
    <3>6. CASE t # s /\ t # r
      <4>1. pc'[s] = pc[s] /\ pc'[r] = pc[r] /\ sid'[s] = sid[s] /\ sid'[r] = sid[r]
        BY <2>3, <3>1, <3>3, <3>6
      <4> QED BY <3>2, <4>1 DEF s
    <3> QED BY <3>4, <3>5, <3>6
  <2>10. Caps'
    <3>1. \A u \in Threads : u # t => sid'[u] = sid[u]
      BY <1>0, <1>7 DEF Types
    <3> QED BY <1>0, <1>3, <2>3, <3>1 DEF Caps
  <2>11. Running'
    BY <1>0, <1>3, <2>2, BootedSame, RunningKept
  <2>12. Counted'
    <3> SUFFICES ASSUME NEW g \in Table0 PROVE CountAt(g)'
      BY DEF Counted
    <3>1. CountAt(g) /\ MarksOn(g)' = MarksOn(g)
      BY <1>0, <1>3 DEF MarksOn, Counted
    <3>2. CASE g # h
      <4>1. OpenOn(g)' = OpenOn(g)
        BY <1>7, <2>1, <3>2 DEF OpenOn
      <4>2. ClaimsOn(g)' = ClaimsOn(g)
        BY <1>1, <1>3, <2>3, <3>2 DEF ClaimsOn
      <4> QED BY <1>3, <3>1, <4>1, <4>2 DEF CountAt
    <3>3. CASE g = h
      <4>1. x \notin OpenOn(h) /\ OpenOn(h)' = OpenOn(h) \cup {x}
        BY <1>7, <2>1 DEF OpenOn
      <4>2. t \in ClaimsOn(h) /\ ClaimsOn(h)' = ClaimsOn(h) \ {t}
        BY <1>1, <1>3, <2>3 DEF ClaimsOn
      <4>3. /\ IsFiniteSet(OpenOn(h)) /\ IsFiniteSet(ClaimsOn(h))
            /\ Cardinality(OpenOn(h)) \in Nat /\ Cardinality(ClaimsOn(h)) \in Nat
            /\ Cardinality(MarksOn(h)) \in Nat
        BY <1>0, CountsFinite
      <4>4. Cardinality(OpenOn(h)') = Cardinality(OpenOn(h)) + 1
        BY <4>1, <4>3, OneMore
      <4>5. Cardinality(ClaimsOn(h)') = Cardinality(ClaimsOn(h)) - 1
        BY <4>2, <4>3, OneFewer
      <4> QED BY <1>3, <3>1, <3>3, <4>3, <4>4, <4>5 DEF CountAt
    <3> QED BY <3>2, <3>3
  <2> QED BY <1>3, <2>5, <2>6, <2>7, <2>8, <2>9, <2>10, <2>11, <2>12 DEF Core
<1>8. CASE /\ d # None /\ (<<t, d>> \in Failing \/ FreeSids(h, d) = {})
           /\ Goto(t, "newbad") /\ UNCHANGED <<sid, open>>
  <2> DEFINE l == "newbad"
  <2>1. d \in Devs
    BY <1>8
  <2>2. FreeSids(h, d) # {}
    BY <1>0, <1>3, <2>1, SidsSuffice
  <2>3. t \in Sessions /\ d \in Devs \ Removable
    BY <1>8, <2>2 DEF Setting
  <2>4. Moves(t, l)
    BY <1>3, <1>8, <2>3, ThreadKinds DEF Goto, Moves, Labels, SessionLabels
  <2>5. pc'[t] = l
    BY <1>0, <2>4, PcMoves DEF Moves
  <2>6. ~Holder(t)'
    BY <2>5 DEF Holder
  <2>7. table[cap'[t]].dev \in Devs \ Removable
    BY <1>1, <1>2, <1>3, <2>3
  <2> QED BY <1>3, <1>4, <1>5, <1>8, <2>4, <2>6, <2>7, QuietStep
<1>9. \/ d = None /\ Goto(t, "oops") /\ UNCHANGED <<sid, open>>
      \/ \E x \in FreeSids(h, d) : /\ sid' = [sid EXCEPT ![t] = x]
                                   /\ open' = open \cup {x} /\ Goto(t, "newok")
      \/ /\ d # None /\ (<<t, d>> \in Failing \/ FreeSids(h, d) = {})
         /\ Goto(t, "newbad") /\ UNCHANGED <<sid, open>>
  BY <1>1, <1>2 DEF NewSessionCall
<1> QED BY <1>6, <1>7, <1>8, <1>9

\* crypto_newsession returns the session, or gives its place back.
LEMMA NewSessionEndStep ==
  ASSUME Setting, Core, DriverPresent, edition = 0, NEW t \in Threads,
         NewSessionEnd(t)
  PROVE  Core'
<1>0. /\ Types /\ Slots /\ Placed /\ Held /\ Nested /\ Caps /\ Running /\ Counted
  BY DEF Core
<1>1. UNCHANGED <<drv, slotOf, sid, cap, seen, open>>
  BY DEF NewSessionEnd, driverVars
<1>2. /\ cap' \in [Threads -> Table0] /\ seen' \in [Threads -> {0}]
  BY <1>0, <1>1 DEF Types
<1>3. CASE pc[t] = "newok" /\ Goto(t, Opened(t)) /\ UNCHANGED table
  <2>1. PICK l \in {"open", "again"} : l = Opened(t)
    BY DEF Opened
  <2>2. Moves(t, l)
    BY <1>3, <2>1, ThreadKinds
       DEF Goto, Moves, Labels, SessionLabels, RequestLabels, Opened
  <2>3. pc'[t] = l /\ \A u \in Threads : u # t => pc'[u] = pc[u]
    BY <1>0, <2>2, PcMoves DEF Moves
  <2>4. Holder(t)
    BY <1>3 DEF Holder
  <2>5. Holder(t)'
    <3>1. CASE t \in Reqs
      BY <2>1, <2>3, <3>1, ThreadKinds DEF Opened, Holder
    <3>2. CASE t \in Sessions
      <4>1. \A r \in Requests(t) : pc[r] = "idle"
        BY <1>0, <1>3, <3>2, Alone
      <4>2. \A r \in Requests(t) : r \in Threads /\ r # t
        BY <3>2, ThreadKinds DEF Requests
      <4>3. \A r \in Requests(t) : pc'[r] = "idle"
        BY <2>3, <4>1, <4>2
      <4> QED BY <2>1, <2>3, <3>2, <4>3 DEF Opened, Holder
    <3> QED BY <3>1, <3>2, ThreadKinds
  <2> QED BY <1>1, <1>2, <1>3, <2>1, <2>2, <2>4, <2>5, QuietStep
<1>4. CASE /\ pc[t] = "newbad" /\ Goto(t, Refused(t))
           /\ StoreSlot(t, Unclaim(table[cap[t]]))
  <2>1. PICK h \in Table0 : h = cap[t]
    BY <1>0 DEF Types
  <2> DEFINE n == table[h].sessions - 1
             v == [table[h] EXCEPT !.sessions = n]
             l == "closed"
  <2>2. t \in Sessions /\ table[h].dev \in Devs /\ table[h] \in Slot
    BY <1>0, <1>4, <2>1, ThreadKinds DEF Caps, Types, RequestLabels
  <2>3. table' = [table EXCEPT ![h] = v]
    BY <1>0, <1>4, <2>1 DEF StoreSlot, Types, Unclaim
  <2>4. /\ IsFiniteSet(ClaimsOn(h)) /\ Cardinality(ClaimsOn(h)) \in Nat
        /\ Cardinality(OpenOn(h)) \in Nat /\ Cardinality(MarksOn(h)) \in Nat
    BY <1>0, CountsFinite
  <2>5. t \in ClaimsOn(h)
    BY <1>4, <2>1 DEF ClaimsOn
  <2>6. Cardinality(ClaimsOn(h)) # 0
    BY <2>4, <2>5, FS_EmptySet
  <2>7. n \in Nat /\ CountAt(h) /\ table[h].sessions \in Nat
    BY <1>0, <2>4, <2>6 DEF Counted, CountAt
  <2>8. /\ v \in Slot /\ v.dev = table[h].dev /\ v.algs = table[h].algs
        /\ v.kops = table[h].kops /\ v.cleanup = table[h].cleanup
        /\ v.sessions = n
    BY <2>2, <2>7, CountedSlot
  <2>9. drv[table[h].dev] # "claimed"
    <3> SUFFICES ASSUME drv[table[h].dev] = "claimed" PROVE FALSE
      OBVIOUS
    <3> DEFINE d == table[h].dev
    <3>1. SlotOK(h) /\ d # None
      BY <1>0, <2>2, DevsAssumption DEF Slots
    <3>2. slotOf[d] = h
      BY <3>1 DEF SlotOK
    <3>3. table[h].sessions = 1
      BY <1>0, <2>2, <3>2 DEF Slots, DriverOK
    <3>4. d \in MarksOn(h) /\ IsFiniteSet(MarksOn(h))
      BY <1>0, <2>2, <3>2, CountsFinite DEF MarksOn
    <3>5. Cardinality(MarksOn(h)) # 0
      BY <3>4, FS_EmptySet
    <3> QED BY <2>4, <2>6, <2>7, <3>3, <3>5, SMTT(30) DEF CountAt
  <2>10. Resized(h, v)
    <3>1. SlotOK(h) /\ table[h].dev # None
      BY <1>0, <2>2, DevsAssumption DEF Slots
    <3>2. table[h].kops = 0 /\ ~table[h].cleanup
      BY <3>1 DEF SlotOK
    <3> HIDE DEF v, n
    <3> QED BY <1>1, <2>3, <2>8, <2>9, <3>1, <3>2 DEF Resized
  <2> HIDE DEF v
  <2>11. /\ table' \in [Table0 -> Slot] /\ Slots'
         /\ table'[h] = v /\ \A g \in Table0 : g # h => table'[g] = table[g]
         /\ \A g \in Table0 : table'[g].dev = table[g].dev
         /\ Booted => Booted'
    BY <1>0, <2>10, SlotsResized
  <2>12. pc' = [pc EXCEPT ![t] = l]
    BY <1>4, <2>2 DEF Goto, Refused
  <2>13. Moves(t, l)
    BY <1>4, <2>2, <2>12, ThreadKinds DEF Moves, Labels, SessionLabels
  <2>14. /\ pc' \in [Threads -> SessionLabels \cup RequestLabels]
         /\ \A s \in Sessions : pc'[s] \in SessionLabels
         /\ \A r \in Reqs : pc'[r] \in RequestLabels
         /\ pc'[t] = l /\ \A u \in Threads : u # t => pc'[u] = pc[u]
    BY <1>0, <2>13, PcMoves DEF Moves
  <2>15. Types'
    BY <1>0, <1>1, <2>11, <2>14 DEF Types
  <2>16. Held'
    <3>1. ~Holder(t) /\ ~Holder(t)' /\ pc[t] # "oops"
      BY <1>4, <2>14 DEF Holder
    <3> QED BY <1>0, <1>1, <2>13, <3>1, HeldKept
  <2>17. Placed'
    BY <1>0, <1>1, <2>8, <2>11 DEF Placed
  <2>18. Nested'
    BY <1>0, <1>1, <2>13, NestedKept
  <2>19. Caps'
    BY <1>0, <1>1, <2>11, <2>13, CapsKept
  <2>20. Running'
    BY <1>0, <2>11, <2>13, RunningKept
  <2>21. Counted'
    <3> SUFFICES ASSUME NEW g \in Table0 PROVE CountAt(g)'
      BY DEF Counted
    <3>1. CountAt(g) /\ OpenOn(g)' = OpenOn(g) /\ MarksOn(g)' = MarksOn(g)
      BY <1>0, <1>1 DEF OpenOn, MarksOn, Counted
    <3>2. CASE g # h
      <4>1. ClaimsOn(g)' = ClaimsOn(g)
        BY <1>1, <1>4, <2>1, <2>14, <3>2 DEF ClaimsOn
      <4> QED BY <2>11, <3>1, <3>2, <4>1 DEF CountAt
    <3>3. CASE g = h
      <4>1. ClaimsOn(h)' = ClaimsOn(h) \ {t}
        BY <1>1, <1>4, <2>14 DEF ClaimsOn
      <4>2. Cardinality(ClaimsOn(h)') = Cardinality(ClaimsOn(h)) - 1
        BY <2>4, <2>5, <4>1, OneFewer
      <4>3. table'[h].sessions = table[h].sessions - 1
        BY <2>8, <2>11
      <4> QED BY <2>4, <2>7, <3>1, <3>3, <4>2, <4>3 DEF CountAt
    <3> QED BY <3>2, <3>3
  <2> QED BY <2>11, <2>15, <2>16, <2>17, <2>18, <2>19, <2>20, <2>21 DEF Core
<1> QED BY <1>3, <1>4 DEF NewSessionEnd

\* A session has one request.
LEMMA OnlyRequest ==
  ASSUME Setting, NEW r \in Reqs, NEW q \in Requests(SessionOf[r])
  PROVE  q = r
BY ThreadKinds DEF Setting, Requests

(* Where a request is while it only passes its session on. *)
Passing == {"idle", "queued", "process", "again"}

\* Such a step of a request changes nothing but who holds the session.
LEMMA PassingStep ==
  ASSUME Setting, Core, NEW r \in Reqs, NEW l \in Passing, pc[r] \in Passing,
         pc' = [pc EXCEPT ![r] = l], sid' \in [Threads -> Sids \cup {None}],
         \A u \in Threads : pc[u] \in {"freecall", "freeend"} => sid'[u] = sid[u],
         UNCHANGED <<table, drv, slotOf, cap, seen, open>>
  PROVE  /\ Types' /\ Slots' /\ Placed' /\ Caps' /\ Running' /\ Counted'
         /\ pc'[r] = l /\ \A u \in Threads : u # r => pc'[u] = pc[u]
         /\ \A u \in Threads : u # r /\ u # SessionOf[r] =>
              (Holder(u)' <=> Holder(u))
         /\ \A u \in Reqs : u # r => SessionOf[u] # SessionOf[r]
<1>0. /\ Types /\ Slots /\ Placed /\ Held /\ Nested /\ Caps /\ Running /\ Counted
      /\ r \in Threads /\ r \notin Sessions
  BY ThreadKinds DEF Core
<1>1. l \in Labels(r)
  BY <1>0 DEF Passing, Labels, RequestLabels
<1>2. /\ pc' \in [Threads -> SessionLabels \cup RequestLabels]
      /\ \A s \in Sessions : pc'[s] \in SessionLabels
      /\ \A q \in Reqs : pc'[q] \in RequestLabels
      /\ pc'[r] = l /\ \A u \in Threads : u # r => pc'[u] = pc[u]
  BY <1>0, <1>1, PcMoves
<1>3. Types'
  BY <1>0, <1>2 DEF Types
<1>4. Slots' /\ Placed'
  BY <1>0, SlotsSame DEF Placed
<1>5. Caps'
  BY <1>0, <1>2 DEF Caps, Passing
<1>6. Running'
  BY <1>0, <1>2, BootedSame, ThreadKinds DEF Running
<1>7. Counted'
  <2> SUFFICES ASSUME DriverPresent', NEW h \in Table0 PROVE CountAt(h)'
    BY DEF Counted
  <2>1. DriverPresent
    BY <1>0, <1>2 DEF DriverPresent, Passing
  <2>2. ClaimsOn(h)' = ClaimsOn(h)
    BY <1>2 DEF ClaimsOn, Passing
  <2>3. OpenOn(h)' = OpenOn(h) /\ MarksOn(h)' = MarksOn(h) /\ CountAt(h)
    BY <1>0, <2>1 DEF OpenOn, MarksOn, Counted
  <2> QED BY <2>2, <2>3 DEF CountAt
<1>8. \A u \in Reqs : u # r => SessionOf[u] # SessionOf[r]
  BY DEF Setting
<1>9. ASSUME NEW u \in Threads, u # r, u # SessionOf[r]
      PROVE  Holder(u)' <=> Holder(u)
  <2>1. pc'[u] = pc[u]
    BY <1>2, <1>9
  <2>2. \A q \in Requests(u) : q # r /\ q \in Threads
    BY <1>9, ThreadKinds DEF Requests
  <2>3. \A q \in Requests(u) : pc'[q] = pc[q]
    BY <1>2, <2>2
  <2> QED BY <2>1, <2>3 DEF Holder
<1> QED BY <1>2, <1>3, <1>4, <1>5, <1>6, <1>7, <1>8, <1>9

\* An open session is held by its client while its request is idle.
LEMMA SessionHolds ==
  ASSUME Setting, NEW r \in Reqs, pc[SessionOf[r]] = "open"
  PROVE  Holder(SessionOf[r]) <=> pc[r] = "idle"
<1>1. r \in Requests(SessionOf[r]) /\ SessionOf[r] \in Sessions
  BY ThreadKinds DEF Requests
<1> QED BY <1>1, OnlyRequest, Zenon DEF Holder

(* The session passes from one thread to the other of a client. *)
LEMMA HeldPasses ==
  ASSUME Held, NEW a \in Threads, NEW b \in Threads,
         Holder(a), ~Holder(a)', ~Holder(b), Holder(b)',
         pc[a] # "oops", pc[b] # "oops", sid'[b] = sid[a], open' = open,
         \A u \in Threads : u # a /\ u # b =>
           (Holder(u)' <=> Holder(u)) /\ pc'[u] = pc[u] /\ sid'[u] = sid[u]
  PROVE  Held'
<1>1. ASSUME NEW u \in Threads, Holder(u)' PROVE sid'[u] \in open'
  BY <1>1 DEF Held
<1>2. ASSUME NEW u \in Threads, NEW v \in Threads, Holder(u)', Holder(v)',
             sid'[u] = sid'[v]
      PROVE  u = v
  BY <1>2 DEF Held
<1>3. ASSUME NEW x \in open'
      PROVE  \E u \in Threads : sid'[u] = x /\ (Holder(u)' \/ pc'[u] = "oops")
  <2>1. PICK u \in Threads : sid[u] = x /\ (Holder(u) \/ pc[u] = "oops")
    BY <1>3 DEF Held
  <2>2. u # b
    BY <2>1
  <2>3. CASE u = a
    BY <2>1, <2>3
  <2>4. CASE u # a
    BY <2>1, <2>2, <2>4
  <2> QED BY <2>3, <2>4
<1> QED BY <1>1, <1>2, <1>3, Zenon DEF Held

\* A request stays within its session when it takes it over or gives it back.
LEMMA NestedPasses ==
  ASSUME Nested, NEW r \in Reqs, pc[SessionOf[r]] = "open",
         pc'[SessionOf[r]] = "open",
         pc'[r] \in {"queued", "process"} => sid'[SessionOf[r]] = sid'[r],
         \A q \in Reqs : q # r =>
           /\ pc'[q] = pc[q] /\ sid'[q] = sid[q]
           /\ pc'[SessionOf[q]] = pc[SessionOf[q]]
           /\ sid'[SessionOf[q]] = sid[SessionOf[q]]
  PROVE  Nested'
BY DEF Nested

\* The client dispatches a request.
LEMMA SubmitStep ==
  ASSUME Setting, Core, DriverPresent, NEW r \in Reqs, Submit(r)
  PROVE  Core'
<1>0. /\ Types /\ Held /\ Nested
  BY DEF Core
<1>1. PICK s \in Sessions : s = SessionOf[r]
  BY ThreadKinds
<1>2. /\ pc[r] = "idle" /\ pc[s] = "open" /\ pc' = [pc EXCEPT ![r] = "queued"]
      /\ sid' = [sid EXCEPT ![r] = sid[s]]
      /\ UNCHANGED <<table, drv, slotOf, cap, seen, open>>
  BY <1>1 DEF Submit, Goto, driverVars
<1>3. r \in Threads /\ s \in Threads /\ s # r
  BY ThreadKinds
<1>4. /\ sid'[r] = sid[s] /\ \A u \in Threads : u # r => sid'[u] = sid[u]
      /\ sid' \in [Threads -> Sids \cup {None}]
  BY <1>0, <1>2, <1>3 DEF Types
<1> DEFINE l == "queued"
<1>5. /\ Types' /\ Slots' /\ Placed' /\ Caps' /\ Running' /\ Counted'
      /\ pc'[r] = l /\ \A u \in Threads : u # r => pc'[u] = pc[u]
      /\ \A u \in Threads : u # r /\ u # s => (Holder(u)' <=> Holder(u))
      /\ \A u \in Reqs : u # r => SessionOf[u] # s
  <2>1. \A u \in Threads : pc[u] \in {"freecall", "freeend"} => sid'[u] = sid[u]
    BY <1>2, <1>4
  <2>2. l \in Passing /\ pc[r] \in Passing
    BY <1>2 DEF Passing
  <2> QED BY <1>1, <1>2, <1>4, <2>1, <2>2, PassingStep
<1>6. Holder(s) /\ ~Holder(s)'
  <2>1. Holder(s)
    BY <1>1, <1>2, SessionHolds
  <2>2. r \in Requests(s) /\ pc'[s] = "open"
    BY <1>1, <1>2, <1>3, <1>5 DEF Requests
  <2> QED BY <1>5, <2>1, <2>2 DEF Holder
<1>7. ~Holder(r) /\ Holder(r)'
  BY <1>2, <1>5, ThreadKinds DEF Holder
<1>8. Held'
  BY <1>0, <1>2, <1>3, <1>4, <1>5, <1>6, <1>7, HeldPasses
<1>9. Nested'
  <2>1. ASSUME NEW q \in Reqs, q # r
        PROVE  /\ pc'[q] = pc[q] /\ sid'[q] = sid[q]
               /\ pc'[SessionOf[q]] = pc[SessionOf[q]]
               /\ sid'[SessionOf[q]] = sid[SessionOf[q]]
    <3>1. q \in Threads /\ SessionOf[q] \in Threads /\ SessionOf[q] # r
      BY ThreadKinds
    <3> QED BY <1>4, <1>5, <2>1, <3>1
  <2>2. pc'[s] = "open" /\ sid'[s] = sid[s]
    BY <1>2, <1>3, <1>4, <1>5
  <2> QED BY <1>0, <1>1, <1>2, <1>4, <2>1, <2>2, NestedPasses
<1> QED BY <1>2, <1>5, <1>8, <1>9 DEF Core

\* crypto_invoke calls the driver, if it is still there.
LEMMA ProcessStep ==
  ASSUME Setting, Core, DriverPresent, NEW r \in Reqs, Process(r)
  PROVE  Core'
<1>0. /\ Types /\ Held /\ Nested
  BY DEF Core
<1>1. PICK s \in Sessions : s = SessionOf[r]
  BY ThreadKinds
<1>2. /\ pc[r] = "process"
      /\ UNCHANGED <<table, drv, slotOf, sid, cap, seen, open>>
      /\ Goto(r, "oops") \/ Goto(r, "idle")
  BY DEF Process, driverVars
<1>3. r \in Threads /\ s \in Threads /\ s # r /\ r \notin Sessions
  BY ThreadKinds
<1>4. pc[s] = "open" /\ sid[s] = sid[r] /\ Holder(r)
  BY <1>0, <1>1, <1>2 DEF Nested, Holder
<1>5. CASE Goto(r, "oops")
  <2> DEFINE l == "oops"
  <2>1. Moves(r, l)
    BY <1>2, <1>3, <1>5 DEF Goto, Moves, Labels, RequestLabels
  <2>2. /\ cap' \in [Threads -> Table0] /\ seen' \in [Threads -> {0}]
    BY <1>0, <1>2 DEF Types
  <2> QED BY <1>2, <1>3, <1>4, <2>1, <2>2, QuietStep
<1>6. CASE Goto(r, "idle")
  <2> DEFINE l == "idle"
  <2>1. pc' = [pc EXCEPT ![r] = l] /\ l \in Passing /\ pc[r] \in Passing
    BY <1>2, <1>6 DEF Goto, Passing
  <2>2. sid' \in [Threads -> Sids \cup {None}]
    BY <1>0, <1>2 DEF Types
  <2>3. /\ Types' /\ Slots' /\ Placed' /\ Caps' /\ Running' /\ Counted'
        /\ pc'[r] = l /\ \A u \in Threads : u # r => pc'[u] = pc[u]
        /\ \A u \in Threads : u # r /\ u # s => (Holder(u)' <=> Holder(u))
        /\ \A u \in Reqs : u # r => SessionOf[u] # s
    BY <1>1, <1>2, <2>1, <2>2, PassingStep
  <2>4. ~Holder(s)
    BY <1>1, <1>2, <1>4, SessionHolds
  <2>5. Holder(s)'
    <3>1. \A q \in Requests(s) : q = r
      BY <1>1, OnlyRequest
    <3>2. \A q \in Requests(s) : pc'[q] = "idle"
      BY <2>3, <3>1
    <3> QED BY <1>3, <1>4, <2>3, <3>2 DEF Holder
  <2>6. ~Holder(r)'
    BY <1>3, <2>3 DEF Holder
  <2>7. Held'
    BY <1>0, <1>2, <1>3, <1>4, <2>3, <2>4, <2>5, <2>6, HeldPasses
  <2>8. Nested'
    <3>1. ASSUME NEW q \in Reqs, q # r
          PROVE  /\ pc'[q] = pc[q] /\ sid'[q] = sid[q]
                 /\ pc'[SessionOf[q]] = pc[SessionOf[q]]
                 /\ sid'[SessionOf[q]] = sid[SessionOf[q]]
      <4>1. q \in Threads /\ SessionOf[q] \in Threads /\ SessionOf[q] # r
        BY ThreadKinds
      <4> QED BY <1>2, <2>3, <3>1, <4>1
    <3>2. pc'[s] = "open"
      BY <1>3, <1>4, <2>3
    <3> QED BY <1>0, <1>1, <1>4, <2>3, <3>1, <3>2, NestedPasses
  <2> QED BY <1>2, <2>3, <2>7, <2>8 DEF Core
<1> QED BY <1>2, <1>5, <1>6

\* The callback dispatches the request again with the new session.
LEMMA AgainStep ==
  ASSUME Setting, Core, DriverPresent, NEW r \in Reqs, Again(r)
  PROVE  Core'
<1>0. /\ Types /\ Held /\ Nested
  BY DEF Core
<1>1. PICK s \in Sessions : s = SessionOf[r]
  BY ThreadKinds
<1>2. /\ pc[r] = "again" /\ pc' = [pc EXCEPT ![r] = "queued"]
      /\ sid' = [sid EXCEPT ![s] = sid[r]]
      /\ UNCHANGED <<table, drv, slotOf, cap, seen, open>>
  BY <1>1 DEF Again, Goto, driverVars, Setting
<1>3. r \in Threads /\ s \in Threads /\ s # r
  BY ThreadKinds
<1>4. /\ sid'[s] = sid[r] /\ \A u \in Threads : u # s => sid'[u] = sid[u]
      /\ sid' \in [Threads -> Sids \cup {None}]
  BY <1>0, <1>2, <1>3 DEF Types
<1>5. pc[s] = "open"
  BY <1>0, <1>1, <1>2 DEF Nested
<1> DEFINE l == "queued"
<1>6. /\ Types' /\ Slots' /\ Placed' /\ Caps' /\ Running' /\ Counted'
      /\ pc'[r] = l /\ \A u \in Threads : u # r => pc'[u] = pc[u]
      /\ \A u \in Threads : u # r /\ u # s => (Holder(u)' <=> Holder(u))
      /\ \A u \in Reqs : u # r => SessionOf[u] # s
  <2>1. \A u \in Threads : pc[u] \in {"freecall", "freeend"} => sid'[u] = sid[u]
    BY <1>4, <1>5
  <2>2. l \in Passing /\ pc[r] \in Passing
    BY <1>2 DEF Passing
  <2> QED BY <1>1, <1>2, <1>4, <2>1, <2>2, PassingStep
<1>7. Holder(r) /\ Holder(r)'
  BY <1>2, <1>6 DEF Holder
<1>8. ~Holder(s) /\ ~Holder(s)' /\ pc[s] # "oops" /\ pc'[s] = pc[s]
  <2>1. r \in Requests(s) /\ pc'[s] = "open"
    BY <1>1, <1>3, <1>5, <1>6 DEF Requests
  <2> QED BY <1>2, <1>5, <1>6, <2>1 DEF Holder
<1>9. Held'
  <2>1. \A u \in Threads : Holder(u)' <=> Holder(u)
    BY <1>6, <1>7, <1>8
  <2>2. \A u \in Threads : Holder(u) \/ pc[u] = "oops" => sid'[u] = sid[u]
    BY <1>4, <1>8
  <2>3. \A u \in Threads : pc[u] = "oops" => pc'[u] = "oops"
    BY <1>2, <1>6
  <2> QED BY <1>0, <1>2, <2>1, <2>2, <2>3 DEF Held
<1>10. Nested'
  <2>1. ASSUME NEW q \in Reqs, q # r
        PROVE  /\ pc'[q] = pc[q] /\ sid'[q] = sid[q]
               /\ pc'[SessionOf[q]] = pc[SessionOf[q]]
               /\ sid'[SessionOf[q]] = sid[SessionOf[q]]
    <3>1. q \in Threads /\ SessionOf[q] \in Threads /\ SessionOf[q] # r /\ q # s
      BY ThreadKinds
    <3>2. SessionOf[q] # s
      BY <1>6, <2>1
    <3> QED BY <1>4, <1>6, <2>1, <3>1, <3>2
  <2>2. sid'[s] = sid'[r]
    BY <1>3, <1>4
  <2> QED BY <1>0, <1>1, <1>5, <1>8, <2>1, <2>2, NestedPasses
<1> QED BY <1>2, <1>6, <1>9, <1>10 DEF Core

(* A step of a driver moves no thread. *)
LEMMA DriverFrame ==
  ASSUME Types, Held, Nested, UNCHANGED <<pc, sid, cap, seen, open>>,
         table' \in [Table0 -> Slot], slotOf' \in [Devs -> Table0],
         drv' \in [Devs -> {"out", "claimed", "in"}]
  PROVE  /\ Types' /\ Held' /\ Nested'
         /\ \A h : OpenOn(h)' = OpenOn(h) /\ ClaimsOn(h)' = ClaimsOn(h)
<1>1. \A t \in Threads : Holder(t)' <=> Holder(t)
  BY DEF Holder
<1>2. Held'
  BY <1>1 DEF Held
<1>3. Types'
  BY DEF Types
<1>4. Nested'
  BY DEF Nested
<1>5. \A h : OpenOn(h)' = OpenOn(h) /\ ClaimsOn(h)' = ClaimsOn(h)
  BY DEF OpenOn, ClaimsOn
<1> QED BY <1>2, <1>3, <1>4, <1>5

\* No session lies in a free slot.
LEMMA NothingOpen ==
  ASSUME Setting, Types, Placed, NEW h \in Table0, table[h].dev = None, ~table[h].cleanup
  PROVE  OpenOn(h) = {}
<1> SUFFICES ASSUME NEW x \in open, x.hid = h PROVE FALSE
  BY DEF OpenOn
<1>1. x.dev \in Devs
  BY DEF Types, Sids
<1>2. table[h].dev = x.dev
  BY DEF Placed
<1> QED BY <1>1, <1>2, DevsAssumption

\* crypto_get_driverid takes a free slot and marks it.
LEMMA GetDriverIdStep ==
  ASSUME Setting, Core, DriverPresent, edition = 0, edition' = 0,
         NEW d \in Devs, GetDriverId(d)
  PROVE  Core'
<1>0. /\ Types /\ Slots /\ Placed /\ Held /\ Nested /\ Caps /\ Running /\ Counted
  BY DEF Core
<1>1. FirstUnused(table) # {}
  BY DEF GetDriverId
<1>2. PICK h \in FirstUnused(table) :
        /\ table' = [table EXCEPT ![h].sessions = 1, ![h].dev = d]
        /\ slotOf' = [slotOf EXCEPT ![d] = h]
  BY <1>1 DEF GetDriverId
<1>3. /\ drv[d] = "out" /\ drv' = [drv EXCEPT ![d] = "claimed"]
      /\ UNCHANGED <<pc, sid, cap, seen, open>>
  BY DEF GetDriverId
<1>4. h \in Table0 /\ table[h].dev = None /\ ~table[h].cleanup /\ table[h] \in Slot
  BY <1>0, TableDomain DEF FirstUnused, Unused, Types
<1>5. table[h].algs = {} /\ table[h].sessions = 0 /\ table[h].kops = 0
  BY <1>0, <1>4 DEF Slots, SlotOK
<1> DEFINE v == [table[h] EXCEPT !.sessions = 1, !.dev = d]
<1>6. table' = [table EXCEPT ![h] = v]
  BY <1>0, <1>2, <1>4 DEF Types
<1>7. /\ v \in Slot /\ v.dev = d /\ v.algs = {} /\ v.kops = 0 /\ ~v.cleanup
      /\ v.sessions = 1
  BY <1>4, <1>5 DEF Slot
<1> HIDE DEF v
<1>8. /\ table' \in [Table0 -> Slot] /\ table'[h] = v
      /\ \A g \in Table0 : g # h => table'[g] = table[g]
  BY <1>0, <1>4, <1>6, <1>7 DEF Types
<1>9. /\ drv' \in [Devs -> {"out", "claimed", "in"}]
      /\ drv'[d] = "claimed" /\ \A e \in Devs : e # d => drv'[e] = drv[e]
      /\ slotOf' \in [Devs -> Table0]
      /\ slotOf'[d] = h /\ \A e \in Devs : e # d => slotOf'[e] = slotOf[e]
  BY <1>0, <1>2, <1>3, <1>4 DEF Types
<1>10. /\ Types' /\ Held' /\ Nested'
       /\ \A g : OpenOn(g)' = OpenOn(g) /\ ClaimsOn(g)' = ClaimsOn(g)
  BY <1>0, <1>3, <1>8, <1>9, DriverFrame
<1>11. d # None
  BY DevsAssumption
<1>12. ASSUME NEW g \in Table0 PROVE SlotOK(g)'
  <2>1. CASE g = h
    BY <1>7, <1>8, <1>9, <1>11, <2>1 DEF SlotOK
  <2>2. CASE g # h
    <3> DEFINE e == table[g].dev
    <3>1. SlotOK(g) /\ e \in Devs \cup {None} /\ table'[g] = table[g]
      BY <1>0, <1>8, <2>2, SlotFields DEF Slots, Types
    <3>2. e # None => drv'[e] = drv[e] /\ slotOf'[e] = slotOf[e]
      BY <1>3, <1>9, <3>1 DEF SlotOK
    <3> QED BY <3>1, <3>2 DEF SlotOK
  <2> QED BY <2>1, <2>2
<1>13. \A e \in Devs : e # d /\ drv[e] # "out" =>
         slotOf[e] \in Table0 /\ slotOf[e] # h
  BY <1>0, <1>4, DevsAssumption DEF Slots, DriverOK, Types
<1>14. ASSUME NEW e \in Devs PROVE DriverOK(e)'
  <2>1. CASE e = d
    BY <1>7, <1>8, <1>9, <2>1 DEF DriverOK
  <2>2. CASE e # d /\ drv[e] = "out"
    BY <1>9, <2>2 DEF DriverOK
  <2>3. CASE e # d /\ drv[e] # "out"
    <3>1. DriverOK(e) /\ table'[slotOf[e]] = table[slotOf[e]]
      BY <1>0, <1>8, <1>13, <2>3 DEF Slots
    <3> QED BY <1>9, <2>3, <3>1 DEF DriverOK
  <2> QED BY <2>1, <2>2, <2>3
<1>15. OpenOn(h) = {}
  BY <1>0, <1>4, NothingOpen
<1>16. Placed'
  <2>1. \A x \in open : x.hid \in Table0 /\ x.hid # h
    BY <1>0, <1>15 DEF Placed, OpenOn
  <2> QED BY <1>0, <1>3, <1>8, <2>1 DEF Placed
<1>17. Caps'
  <2>1. \A t \in Threads : cap[t] \in Table0
    BY <1>0 DEF Types
  <2>2. \A t \in Threads : pc[t] = "newbad" => cap[t] # h
    BY <1>0, <1>4, DevsAssumption DEF Caps
  <2> QED BY <1>0, <1>3, <1>8, <2>1, <2>2 DEF Caps
<1>18. Running'
  <2>1. ASSUME Booted, NEW e \in Resident PROVE Attached(e)'
    <3>1. e \in Devs /\ Attached(e) /\ drv[e] = "in" /\ e # d
      BY <1>3, <2>1, SessionsAssumption DEF Booted, Attached
    <3> QED BY <1>8, <1>9, <1>13, <3>1 DEF Attached
  <2>2. Booted => Booted'
    BY <2>1 DEF Booted
  <2> QED BY <1>0, <1>3, <2>2 DEF Running
<1>19. Counted'
  <2> SUFFICES ASSUME NEW g \in Table0 PROVE CountAt(g)'
    BY DEF Counted
  <2>1. CountAt(g) /\ OpenOn(g)' = OpenOn(g) /\ ClaimsOn(g)' = ClaimsOn(g)
    BY <1>0, <1>10 DEF Counted
  <2>2. CASE g # h
    <3>1. MarksOn(g)' = MarksOn(g)
      BY <1>3, <1>9, <2>2 DEF MarksOn
    <3> QED BY <1>8, <2>1, <2>2, <3>1 DEF CountAt
  <2>3. CASE g = h
    <3>1. d \notin MarksOn(h) /\ MarksOn(h)' = MarksOn(h) \cup {d}
      BY <1>3, <1>9, <1>13 DEF MarksOn
    <3>2. Cardinality(MarksOn(h)') = Cardinality(MarksOn(h)) + 1
      BY <1>0, <3>1, CountsFinite, OneMore
    <3>3. /\ Cardinality(OpenOn(h)) \in Nat /\ Cardinality(ClaimsOn(h)) \in Nat
          /\ Cardinality(MarksOn(h)) \in Nat
      BY <1>0, CountsFinite
    <3> QED BY <1>5, <1>7, <1>8, <2>1, <2>3, <3>2, <3>3 DEF CountAt
  <2> QED BY <2>2, <2>3
<1>20. Slots'
  BY <1>12, <1>14 DEF Slots
<1> QED BY <1>8, <1>10, <1>16, <1>17, <1>18, <1>19, <1>20 DEF Core

\* crypto_register takes the mark away.
LEMMA RegisterStep ==
  ASSUME Setting, Core, DriverPresent, NEW d \in Devs, NEW a \in Provides[d],
         Register(d, a)
  PROVE  Core'
<1>0. /\ Types /\ Slots /\ Placed /\ Held /\ Nested /\ Caps /\ Running /\ Counted
  BY DEF Core
<1>1. PICK h \in Table0 : h = slotOf[d]
  BY <1>0 DEF Types
<1>2. /\ drv[d] \in {"claimed", "in"} /\ a \notin table[h].algs
      /\ table' = [table EXCEPT ![h] = Unmark(@, a)]
      /\ drv' = [drv EXCEPT ![d] = "in"]
      /\ UNCHANGED <<slotOf, pc, sid, cap, seen, open>>
  BY <1>1 DEF Register
<1>3. DriverOK(d) /\ SlotOK(h) /\ table[h] \in Slot /\ d # None
  BY <1>0, <1>1, DevsAssumption DEF Slots, Types
<1>4. /\ drv[d] = "claimed" /\ table[h].dev = d /\ table[h].algs = {}
      /\ table[h].sessions = 1
  BY <1>1, <1>2, <1>3 DEF DriverOK
<1>5. ~table[h].cleanup /\ table[h].kops = 0
  BY <1>3, <1>4 DEF SlotOK
<1>6. Provides[d] = {a} /\ a \in Algs
  BY SessionsAssumption DEF Setting
<1> DEFINE v == [table[h] EXCEPT !.algs = @ \cup {a}, !.sessions = 0]
<1>7. table' = [table EXCEPT ![h] = v]
  BY <1>2 DEF Unmark
<1>8. /\ v \in Slot /\ v.dev = d /\ v.algs = Provides[d] /\ v.kops = 0 /\ ~v.cleanup
      /\ v.sessions = 0
  BY <1>3, <1>4, <1>5, <1>6 DEF Slot
<1> HIDE DEF v
<1>9. /\ table' \in [Table0 -> Slot] /\ table'[h] = v
      /\ \A g \in Table0 : g # h => table'[g] = table[g]
  BY <1>0, <1>7, <1>8 DEF Types
<1>10. /\ drv' \in [Devs -> {"out", "claimed", "in"}]
       /\ drv'[d] = "in" /\ \A e \in Devs : e # d => drv'[e] = drv[e]
       /\ slotOf' \in [Devs -> Table0]
  BY <1>0, <1>2 DEF Types
<1>11. /\ Types' /\ Held' /\ Nested'
       /\ \A g : OpenOn(g)' = OpenOn(g) /\ ClaimsOn(g)' = ClaimsOn(g)
  BY <1>0, <1>2, <1>9, <1>10, DriverFrame
<1>12. ASSUME NEW g \in Table0 PROVE SlotOK(g)'
  <2>1. CASE g = h
    BY <1>1, <1>2, <1>3, <1>8, <1>9, <1>10, <2>1 DEF SlotOK
  <2>2. CASE g # h
    <3> DEFINE e == table[g].dev
    <3>1. SlotOK(g) /\ e \in Devs \cup {None} /\ table'[g] = table[g]
      BY <1>0, <1>9, <2>2, SlotFields DEF Slots, Types
    <3>2. e # None => drv'[e] # "out" /\ slotOf'[e] = slotOf[e]
      BY <1>2, <1>10, <3>1 DEF SlotOK
    <3> QED BY <3>1, <3>2 DEF SlotOK
  <2> QED BY <2>1, <2>2
<1>13. \A e \in Devs : e # d /\ drv[e] # "out" =>
         slotOf[e] \in Table0 /\ slotOf[e] # h
  BY <1>0, <1>4 DEF Slots, DriverOK, Types
<1>14. ASSUME NEW e \in Devs PROVE DriverOK(e)'
  <2>1. CASE e = d
    BY <1>1, <1>2, <1>8, <1>9, <1>10, <2>1 DEF DriverOK
  <2>2. CASE e # d /\ drv[e] = "out"
    BY <1>10, <2>2 DEF DriverOK
  <2>3. CASE e # d /\ drv[e] # "out"
    <3>1. DriverOK(e) /\ table'[slotOf[e]] = table[slotOf[e]]
      BY <1>0, <1>9, <1>13, <2>3 DEF Slots
    <3> QED BY <1>2, <1>10, <2>3, <3>1 DEF DriverOK
  <2> QED BY <2>1, <2>2, <2>3
<1>15. Placed'
  BY <1>0, <1>2, <1>4, <1>5, <1>8, <1>9 DEF Placed
<1>16. \A g \in Table0 : table'[g].dev = table[g].dev
  BY <1>4, <1>8, <1>9
<1>17. Caps'
  <2>1. \A t \in Threads : cap[t] \in Table0
    BY <1>0 DEF Types
  <2> QED BY <1>0, <1>2, <1>16, <2>1 DEF Caps
<1>18. Running'
  <2>1. ASSUME Booted, NEW e \in Resident PROVE Attached(e)'
    <3>1. e \in Devs /\ Attached(e) /\ drv[e] = "in" /\ e # d
      BY <1>4, <2>1, SessionsAssumption DEF Booted, Attached
    <3> QED BY <1>2, <1>9, <1>10, <1>13, <3>1 DEF Attached
  <2>2. Booted => Booted'
    BY <2>1 DEF Booted
  <2> QED BY <1>0, <1>2, <2>2 DEF Running
<1>19. Counted'
  <2> SUFFICES ASSUME NEW g \in Table0 PROVE CountAt(g)'
    BY DEF Counted
  <2>1. CountAt(g) /\ OpenOn(g)' = OpenOn(g) /\ ClaimsOn(g)' = ClaimsOn(g)
    BY <1>0, <1>11 DEF Counted
  <2>2. CASE g # h
    <3>1. MarksOn(g)' = MarksOn(g)
      BY <1>1, <1>2, <1>10, <2>2 DEF MarksOn
    <3> QED BY <1>9, <2>1, <2>2, <3>1 DEF CountAt
  <2>3. CASE g = h
    <3>1. d \in MarksOn(h) /\ MarksOn(h)' = MarksOn(h) \ {d}
      BY <1>1, <1>2, <1>4, <1>10 DEF MarksOn
    <3>2. /\ Cardinality(MarksOn(h)') = Cardinality(MarksOn(h)) - 1
          /\ IsFiniteSet(MarksOn(h)')
      BY <1>0, <3>1, CountsFinite, OneFewer
    <3>3. /\ Cardinality(OpenOn(h)) \in Nat /\ Cardinality(ClaimsOn(h)) \in Nat
          /\ Cardinality(MarksOn(h)') \in Nat
      BY <1>0, <3>2, CountsFinite, FS_CardinalityType
    <3>4. table'[h].sessions = table[h].sessions - 1
      BY <1>4, <1>8, <1>9
    <3>5. Cardinality(MarksOn(h)) \in Nat
      BY <1>0, CountsFinite
    <3> QED BY <2>1, <2>3, <3>2, <3>3, <3>4, <3>5 DEF CountAt
  <2> QED BY <2>2, <2>3
<1>20. Slots'
  BY <1>12, <1>14 DEF Slots
<1> QED BY <1>9, <1>11, <1>15, <1>17, <1>18, <1>19, <1>20 DEF Core

\* crypto_unregister_all leaves the slot marked for cleanup while it has sessions.
LEMMA UnregisterAllStep ==
  ASSUME Setting, Core, DriverPresent, NEW d \in Devs, UnregisterAll(d)
  PROVE  Core'
<1>0. /\ Types /\ Slots /\ Placed /\ Held /\ Nested /\ Caps /\ Running /\ Counted
  BY DEF Core
<1>1. PICK h \in Table0 : h = slotOf[d]
  BY <1>0 DEF Types
<1>2. /\ d \in Removable /\ drv[d] = "in"
      /\ table' = [table EXCEPT ![h] = Finis(@)]
      /\ drv' = [drv EXCEPT ![d] = "out"]
      /\ UNCHANGED <<slotOf, pc, sid, cap, seen, open>>
  BY <1>1 DEF UnregisterAll, Attached
<1>3. DriverOK(d) /\ SlotOK(h) /\ table[h] \in Slot /\ d # None
  BY <1>0, <1>1, DevsAssumption DEF Slots, Types
<1>4. table[h].dev = d /\ table[h].kops = 0
  BY <1>1, <1>2, <1>3 DEF DriverOK, SlotOK
<1> DEFINE v == Finis(table[h])
<1>5. table' = [table EXCEPT ![h] = v]
  BY <1>2
<1>6. /\ v \in Slot /\ v.dev = None /\ v.algs = {} /\ v.kops = 0
      /\ v.sessions = table[h].sessions
      /\ v.cleanup => v.sessions # 0
      /\ v.cleanup \/ v.sessions = 0
  BY <1>3, <1>4, FinisSlot
<1> HIDE DEF v
<1>7. /\ table' \in [Table0 -> Slot] /\ table'[h] = v
      /\ \A g \in Table0 : g # h => table'[g] = table[g]
  BY <1>0, <1>5, <1>6 DEF Types
<1>8. /\ drv' \in [Devs -> {"out", "claimed", "in"}]
      /\ drv'[d] = "out" /\ \A e \in Devs : e # d => drv'[e] = drv[e]
      /\ slotOf' \in [Devs -> Table0]
  BY <1>0, <1>2 DEF Types
<1>9. /\ Types' /\ Held' /\ Nested'
      /\ \A g : OpenOn(g)' = OpenOn(g) /\ ClaimsOn(g)' = ClaimsOn(g)
  BY <1>0, <1>2, <1>7, <1>8, DriverFrame
<1>10. ASSUME NEW g \in Table0 PROVE SlotOK(g)'
  <2>1. CASE g = h
    BY <1>6, <1>7, <2>1 DEF SlotOK
  <2>2. CASE g # h
    <3> DEFINE e == table[g].dev
    <3>1. SlotOK(g) /\ e \in Devs \cup {None} /\ table'[g] = table[g]
      BY <1>0, <1>7, <2>2, SlotFields DEF Slots, Types
    <3>2. e # None => drv'[e] = drv[e] /\ slotOf'[e] = slotOf[e]
      BY <1>1, <1>2, <1>8, <2>2, <3>1 DEF SlotOK
    <3> QED BY <3>1, <3>2 DEF SlotOK
  <2> QED BY <2>1, <2>2
<1>11. \A e \in Devs : e # d /\ drv[e] # "out" =>
         slotOf[e] \in Table0 /\ slotOf[e] # h
  BY <1>0, <1>4 DEF Slots, DriverOK, Types
<1>12. ASSUME NEW e \in Devs PROVE DriverOK(e)'
  <2>1. CASE e = d
    BY <1>8, <2>1 DEF DriverOK
  <2>2. CASE e # d /\ drv[e] = "out"
    BY <1>8, <2>2 DEF DriverOK
  <2>3. CASE e # d /\ drv[e] # "out"
    <3>1. DriverOK(e) /\ table'[slotOf[e]] = table[slotOf[e]]
      BY <1>0, <1>7, <1>11, <2>3 DEF Slots
    <3> QED BY <1>2, <1>8, <2>3, <3>1 DEF DriverOK
  <2> QED BY <2>1, <2>2, <2>3
<1>13. Placed'
  <2> SUFFICES ASSUME NEW x \in open, x.hid = h PROVE v.cleanup
    BY <1>0, <1>2, <1>7 DEF Placed
  <2>1. OpenOn(h) # {} /\ CountAt(h)
    BY <1>0 DEF OpenOn, Counted
  <2>2. /\ IsFiniteSet(OpenOn(h)) /\ Cardinality(OpenOn(h)) \in Nat
        /\ Cardinality(ClaimsOn(h)) \in Nat /\ Cardinality(MarksOn(h)) \in Nat
    BY <1>0, CountsFinite
  <2>3. Cardinality(OpenOn(h)) # 0
    BY <2>1, <2>2, FS_EmptySet
  <2>4. table[h].sessions # 0
    BY <2>1, <2>2, <2>3 DEF CountAt
  <2> QED BY <1>6, <2>4
<1>14. Caps'
  <2>1. \A t \in Threads : cap[t] \in Table0
    BY <1>0 DEF Types
  <2>2. \A t \in Threads : pc[t] = "newbad" => cap[t] # h
    BY <1>0, <1>2, <1>4 DEF Caps
  <2> QED BY <1>0, <1>2, <1>7, <2>1, <2>2 DEF Caps
<1>15. Running'
  <2>1. ASSUME Booted, NEW e \in Resident PROVE Attached(e)'
    <3>1. e \in Devs /\ Attached(e) /\ drv[e] = "in" /\ e # d
      BY <1>2, <2>1, SessionsAssumption DEF Booted, Attached
    <3> QED BY <1>2, <1>7, <1>8, <1>11, <3>1 DEF Attached
  <2>2. Booted => Booted'
    BY <2>1 DEF Booted
  <2> QED BY <1>0, <1>2, <2>2 DEF Running
<1>16. Counted'
  <2> SUFFICES ASSUME NEW g \in Table0 PROVE CountAt(g)'
    BY DEF Counted
  <2>1. CountAt(g) /\ OpenOn(g)' = OpenOn(g) /\ ClaimsOn(g)' = ClaimsOn(g)
    BY <1>0, <1>9 DEF Counted
  <2>2. MarksOn(g)' = MarksOn(g)
    BY <1>2, <1>8 DEF MarksOn
  <2>3. table'[g].sessions = table[g].sessions
    BY <1>6, <1>7
  <2> QED BY <2>1, <2>2, <2>3 DEF CountAt
<1>17. Slots'
  BY <1>10, <1>12 DEF Slots
<1> QED BY <1>7, <1>9, <1>13, <1>14, <1>15, <1>16, <1>17 DEF Core

\* Every step of crypto_newsession and crypto_freesession.
LEMMA SessionStepCore ==
  ASSUME Setting, Core, DriverPresent, edition = 0, NEW t \in Threads,
         SessionStep(t)
  PROVE  Core'
<1>1. CASE \E crid \in CridsOf(t) :
             NewSessionNone(t, crid) \/ NewSessionBegin(t, crid)
  BY <1>1, NewSessionNoneStep, NewSessionBeginStep
<1>2. CASE NewSessionCall(t) \/ NewSessionEnd(t)
  BY <1>2, NewSessionCallStep, NewSessionEndStep, ThreadKinds
<1>3. CASE FreeSessionBegin(t) \/ FreeSessionCall(t)
  BY <1>3, FreeSessionBeginStep, FreeSessionCallStep
<1>4. CASE FreeSessionEnd(t) \/ FreeSessionGone(t)
  BY <1>4, FreeSessionEndStep, FreeSessionGoneStep
<1> QED BY <1>1, <1>2, <1>3, <1>4 DEF SessionStep

\* Nothing happens.
LEMMA StutterStep == ASSUME Core, UNCHANGED vars PROVE Core'
<1>1. UNCHANGED <<table, drv, slotOf, pc, sid, cap, seen, open>>
  BY DEF vars
<1>2. \A t \in Threads : Holder(t)' <=> Holder(t)
  BY <1>1 DEF Holder
<1>3. Types' /\ Placed' /\ Nested' /\ Caps'
  BY <1>1 DEF Core, Types, Placed, Nested, Caps
<1>4. Slots' /\ Running'
  BY <1>1, SlotsSame, BootedSame DEF Core, Running
<1>5. Held'
  BY <1>1, <1>2 DEF Core, Held
<1>6. Counted'
  <2>1. \A h : /\ OpenOn(h)' = OpenOn(h) /\ ClaimsOn(h)' = ClaimsOn(h)
               /\ MarksOn(h)' = MarksOn(h)
    BY <1>1 DEF OpenOn, ClaimsOn, MarksOn
  <2> QED BY <1>1, <2>1 DEF Core, Counted, CountAt, DriverPresent
<1> QED BY <1>3, <1>4, <1>5, <1>6 DEF Core

\* Every step keeps the invariant; once the table has moved it says nothing more.
LEMMA NextIInv == ASSUME Setting PROVE IInv /\ [Next]_vars => IInv'
<1> SUFFICES ASSUME IInv, [Next]_vars PROVE IInv'
  BY SMTT(30)
<1>1. edition' \in {edition, edition + 1}
  BY DEF IInv, Next, DriverStep, SessionStep, RequestStep, GetDriverId,
         Register, UnregisterAll, NewSessionNone, NewSessionBegin,
         NewSessionCall, NewSessionEnd, FreeSessionBegin, FreeSessionCall,
         FreeSessionEnd, FreeSessionGone, Submit, Invoke, Process, Again, vars
<1>2. edition' \in Nat /\ (edition' = 0 => edition = 0)
  BY <1>1 DEF IInv
<1>3. ASSUME edition' = 0 PROVE Core'
  <2>1. edition = 0 /\ Core
    BY <1>2, <1>3 DEF IInv
  <2>2. CASE UNCHANGED vars
    BY <2>1, <2>2, StutterStep
  <2>3. CASE Next
    <3>1. DriverPresent
      BY <2>3 DEF Next
    <3>2. ASSUME NEW d \in Devs, DriverStep(d) PROVE Core'
      BY <1>3, <2>1, <3>1, <3>2, GetDriverIdStep, RegisterStep,
         UnregisterAllStep DEF DriverStep
    <3>3. ASSUME NEW t \in Threads, SessionStep(t) PROVE Core'
      BY <2>1, <3>1, <3>3, SessionStepCore
    <3>4. ASSUME NEW r \in Reqs, RequestStep(r) PROVE Core'
      BY <2>1, <3>1, <3>4, SubmitStep, InvokeStep, ProcessStep, AgainStep
         DEF RequestStep
    <3> QED BY <2>3, <3>2, <3>3, <3>4 DEF Next
  <2> QED BY <2>2, <2>3
<1> QED BY <1>2, <1>3 DEF IInv

\* The inductive invariant holds until the table moves.
THEOREM SpecIInv == ASSUME Setting PROVE Spec => []IInv
<1>1. Init => IInv
  BY InitIInv
<1>2. IInv /\ [Next]_vars => IInv'
  BY NextIInv
<1> QED BY <1>1, <1>2, PTL DEF Spec

\* Slots, driver ids, session ids and local variables of crypto_newsession and
\* crypto_freesession keep their types: cc_sessions never falls below zero.
THEOREM SessionTypes == ASSUME Setting PROVE Spec => [](edition = 0 => TypeOK)
<1>1. IInv => (edition = 0 => TypeOK)
  <2> SUFFICES ASSUME Types, edition = 0 PROVE TypeOK
    BY DEF IInv, Core
  <2>1. InitialSlots \in 1 .. MaxSlots
    BY ThreadKinds
  <2>2. \E n \in 1 .. MaxSlots : table \in [0 .. n - 1 -> Slot]
    BY <2>1 DEF Types, Table0
  <2>3. edition \in 0 .. MaxSlots /\ seen \in [Threads -> 0 .. edition]
    BY ThreadKinds DEF Types
  <2>4. slotOf \in [Devs -> DOMAIN table] /\ cap \in [Threads -> DOMAIN table]
    BY TableDomain DEF Types
  <2>5. pc \in [Threads -> {"closed", "open", "idle", "queued", "process",
                            "migrate", "renew", "again", "oops", "newcall",
                            "newok", "newbad", "freecall", "freeend"}]
    BY DEF Types, SessionLabels, RequestLabels
  <2> QED BY <2>2, <2>3, <2>4, <2>5 DEF Types, TypeOK
<1> QED BY <1>1, SpecIInv, PTL

\* cc_sessions is exact: the sessions that exist, those under way, and the mark of a
\* driver that has not registered.
THEOREM SessionsCounted ==
  ASSUME Setting PROVE Spec => [](edition = 0 => SessionCount)
<1>1. IInv => (edition = 0 => SessionCount)
  <2> SUFFICES ASSUME Core PROVE SessionCount
    BY DEF IInv
  <2>1. DOMAIN table = Table0
    BY TableDomain DEF Core
  <2> QED BY <2>1 DEF Core, Counted, CountAt, OpenOn, ClaimsOn, MarksOn, SessionCount
<1> QED BY <1>1, SpecIInv, PTL

\* A client finds in the slot of its session the driver that made it, or the mark
\* that it is gone.
THEOREM SessionsFindTheirDriver ==
  ASSUME Setting PROVE Spec => [](edition = 0 => SessionsDetect)
<1>1. IInv => (edition = 0 => SessionsDetect)
  <2> SUFFICES ASSUME Core, NEW s \in Sessions, pc[s] = "open",
                      \A r \in Requests(s) : pc[r] = "idle"
               PROVE  \/ table[sid[s].hid].dev = sid[s].dev
                      \/ table[sid[s].hid].cleanup
    BY DEF IInv, SessionsDetect
  <2>1. s \in Threads /\ Holder(s)
    BY ThreadKinds DEF Holder
  <2>2. sid[s] \in open
    BY <2>1 DEF Core, Held
  <2> QED BY <2>2 DEF Core, Placed
<1> QED BY <1>1, SpecIInv, PTL

\* A slot marked for cleanup has a session whose end will free it.
THEOREM CleanupIsLeft ==
  ASSUME Setting PROVE Spec => [](edition = 0 => CleanupEnds)
<1>1. IInv => (edition = 0 => CleanupEnds)
  BY TableDomain DEF IInv, Core, Slots, SlotOK, CleanupEnds, Busy
<1> QED BY <1>1, SpecIInv, PTL

\* Every session is held by a client or by a request that moves it, which can still
\* free it.
THEOREM SessionsAreNotLeaked ==
  ASSUME Setting PROVE Spec => [](edition = 0 => NoLeakedSession)
<1>1. IInv => (edition = 0 => NoLeakedSession)
  <2> SUFFICES ASSUME Core, NEW x \in open
               PROVE  \E t \in Threads :
                        sid[t] = x /\ (t \in Sessions => pc[t] # "closed")
                                   /\ (t \in Reqs => pc[t] # "idle")
    BY DEF IInv, NoLeakedSession
  <2>1. PICK t \in Threads : sid[t] = x /\ (Holder(t) \/ pc[t] = "oops")
    BY DEF Core, Held
  <2>2. (t \in Sessions => pc[t] # "closed") /\ (t \in Reqs => pc[t] # "idle")
    BY <2>1, ThreadKinds DEF Holder
  <2> QED BY <2>1, <2>2
<1> QED BY <1>1, SpecIInv, PTL

=============================================================================
