----------------------------- MODULE OcfSession -----------------------------
(***************************************************************************)
(* Drivers and sessions of the OCF framework (crypto/ocf/crypto.c): a      *)
(* driver takes a slot of the table, registers its algorithms and may      *)
(* unregister; a client opens a session, has requests of it processed and  *)
(* closes it; crypto_invoke moves a session whose driver has unregistered. *)
(* A step is a section under crypto_drivers_lock or a call of the driver   *)
(* with no lock held, so the slot may change between two steps.            *)
(*                                                                         *)
(* The queues are in OcfSym; here a request that was dispatched is         *)
(* "queued" until some thread calls crypto_invoke for it.                  *)
(***************************************************************************)
EXTENDS OcfTable

CONSTANTS
  Sessions,      \* the sessions clients open
  Reqs,          \* their requests
  SessionOf,     \* the session of each request
  Wanted,        \* the algorithms a session asks for
  Crids,         \* the crid arguments of crypto_newsession: flags, or a slot
  Provides,      \* the algorithms each device registers
  Removable,     \* devices whose module may be unloaded
  Resident,      \* devices attached at boot, before a client runs
  Failing,       \* <<thread, device>>: newsession may fail for that caller
  Following,     \* sessions whose callback keeps the new crp_sid
  InitialSlots,  \* CRYPTO_DRIVERS_INITIAL
  MaxSlots,      \* bound: slots of the table
  MaxLids        \* bound: sessions a device can hold at a time

ASSUME SessionsAssumption ==
  /\ SessionOf \in [Reqs -> Sessions]
  /\ Sessions \cap Reqs = {}
  /\ Provides \in [Devs -> SUBSET Algs]
  /\ Wanted \subseteq Algs
  /\ InitialSlots \in Nat \ {0} /\ MaxSlots \in Nat /\ MaxLids \in Nat
  /\ InitialSlots <= MaxSlots
  /\ Removable \subseteq Devs
  /\ Resident \subseteq Devs \ Removable
  /\ Failing \subseteq (Sessions \cup Reqs) \X Devs
  /\ Following \subseteq Sessions

Threads == Sessions \cup Reqs
Hids == 0 .. MaxSlots - 1

(* A session id: the slot, and the session the driver knows it by. *)
Sids == [hid : Hids, dev : Devs, lid : 1 .. MaxLids]

VARIABLES
  table,   \* crypto_drivers
  edition, \* how often the table was moved
  drv,     \* of each device: "out", "claimed" (has a slot) or "in"
  slotOf,  \* of each device: its driver id
  pc, sid, \* of each thread: where it is and its session id
  cap,     \* of each thread: the slot its local variable cap points to
  seen,    \* of each thread: the edition of the table cap points into
  open     \* the sessions created and not freed

vars == <<table, edition, drv, slotOf, pc, sid, cap, seen, open>>
driverVars == <<drv, slotOf>>

Init ==
  /\ table = [h \in 0 .. InitialSlots - 1 |-> Zeroed]
  /\ edition = 0
  /\ drv = [d \in Devs |-> "out"] /\ slotOf = [d \in Devs |-> 0]
  /\ pc = [t \in Threads |-> IF t \in Sessions THEN "closed" ELSE "idle"]
  /\ sid = [t \in Threads |-> None]
  /\ cap = [t \in Threads |-> 0] /\ seen = [t \in Threads |-> 0]
  /\ open = {}

Goto(t, label) == pc' = [pc EXCEPT ![t] = label]

(* A write through cap is lost when the table has moved meanwhile: it goes  *)
(* to freed memory.                                                        *)
StoreSlot(t, slot) ==
  table' = IF seen[t] = edition THEN [table EXCEPT ![cap[t]] = slot] ELSE table

-----------------------------------------------------------------------------
(* crypto_get_driverid; the table doubles when it is full. *)
GetDriverId(d) ==
  /\ drv[d] = "out"
  /\ LET full  == FirstUnused(table) = {}
         wider == IF full THEN Doubled(table) ELSE table
     IN /\ Cardinality(DOMAIN wider) <= MaxSlots
        /\ edition' = IF full THEN edition + 1 ELSE edition
        /\ \E h \in FirstUnused(wider) :
             /\ table' = [wider EXCEPT ![h].sessions = 1, ![h].dev = d]
             /\ slotOf' = [slotOf EXCEPT ![d] = h]
  /\ drv' = [drv EXCEPT ![d] = "claimed"]
  /\ UNCHANGED <<pc, sid, cap, seen, open>>

(* crypto_register *)
UnmarkForgets(slot, a) == [slot EXCEPT !.algs = @ \cup {a}]
Unmark(slot, a) == [slot EXCEPT !.algs = @ \cup {a}, !.sessions = 0]

Register(d, a) ==
  /\ drv[d] \in {"claimed", "in"}
  /\ a \in Provides[d] \ table[slotOf[d]].algs
  /\ table' = [table EXCEPT ![slotOf[d]] = Unmark(@, a)]
  /\ drv' = [drv EXCEPT ![d] = "in"]
  /\ UNCHANGED <<edition, slotOf, pc, sid, cap, seen, open>>

(* The attach routine registers every algorithm before it returns. *)
Attached(d) == drv[d] = "in" /\ table[slotOf[d]].algs = Provides[d]

(* crypto_unregister_all, when the module is unloaded. *)
UnregisterAll(d) ==
  /\ d \in Removable /\ Attached(d)
  /\ table' = [table EXCEPT ![slotOf[d]] = Finis(@)]
  /\ drv' = [drv EXCEPT ![d] = "out"]
  /\ UNCHANGED <<edition, slotOf, pc, sid, cap, seen, open>>

-----------------------------------------------------------------------------
(* crypto_newsession, by a client for a new session or by crypto_invoke for *)
(* a request whose session must move                                       *)

(* The driver chosen for a crid; the empty set for NULL. *)
Chosen(crid) ==
  IF crid.flags = {}
    THEN {h \in DOMAIN table \cap {crid.slot} : Suitable(table[h], Wanted)}
    ELSE Select(table, crid.flags, Wanted, SessionLoad(table))

(* crypto_invoke lets the new session be of any kind. *)
CridsOf(t) == IF t \in Sessions THEN Crids ELSE {[flags |-> {"hw", "sw"}, slot |-> 0]}

Booted == \A d \in Resident : Attached(d)

MayOpen(t) ==
  IF t \in Sessions THEN pc[t] = "closed" /\ Booted ELSE pc[t] = "renew"
OpenedUnseen(t) == IF t \in Sessions THEN "closed" ELSE "again"
Opened(t)  == IF t \in Sessions THEN "open" ELSE "again"
Refused(t) == IF t \in Sessions THEN "closed" ELSE "again"

NewSessionNone(t, crid) ==
  /\ MayOpen(t)
  /\ Chosen(crid) = {}
  /\ Goto(t, Refused(t))
  /\ UNCHANGED <<table, edition, driverVars, sid, cap, seen, open>>

Claim(slot) == [slot EXCEPT !.sessions = @ + 1]

NewSessionBegin(t, crid) ==
  /\ MayOpen(t)
  /\ \E h \in Chosen(crid) :
       /\ cap' = [cap EXCEPT ![t] = h]
       /\ table' = [table EXCEPT ![h] = Claim(@)]
  /\ seen' = [seen EXCEPT ![t] = edition]
  /\ Goto(t, "newcall")
  /\ UNCHANGED <<edition, driverVars, sid, open>>

FreeSids(h, d) ==
  {x \in Sids : x.hid = h /\ x.dev = d} \ open

(* CRYPTODEV_NEWSESSION(cap->cc_dev), with no lock held. *)
NewSessionCall(t) ==
  LET h == cap[t]
      d == table[h].dev
  IN /\ pc[t] = "newcall"
     /\ \/ d = None /\ Goto(t, "oops") /\ UNCHANGED <<sid, open>>
        \/ \E x \in FreeSids(h, d) :
             /\ \A y \in FreeSids(h, d) : x.lid <= y.lid
             /\ sid' = [sid EXCEPT ![t] = x]
             /\ open' = open \cup {x}
             /\ Goto(t, "newok")
        \/ /\ d # None /\ (<<t, d>> \in Failing \/ FreeSids(h, d) = {})
           /\ Goto(t, "newbad") /\ UNCHANGED <<sid, open>>
     /\ UNCHANGED <<table, edition, driverVars, cap, seen>>

UnclaimForgets(slot) == slot
UnclaimTwice(slot) == [slot EXCEPT !.sessions = @ - 2]
Unclaim(slot) == [slot EXCEPT !.sessions = @ - 1]

NewSessionEnd(t) ==
  /\ \/ pc[t] = "newok" /\ Goto(t, Opened(t)) /\ UNCHANGED table
     \/ /\ pc[t] = "newbad" /\ Goto(t, Refused(t))
        /\ StoreSlot(t, Unclaim(table[cap[t]]))
  /\ UNCHANGED <<edition, driverVars, sid, cap, seen, open>>

-----------------------------------------------------------------------------
(* crypto_freesession, by a client or by crypto_invoke *)

Requests(s) == {r \in Reqs : SessionOf[r] = s}

MayFree(t) == IF t \in Sessions
                THEN pc[t] = "open" /\ \A r \in Requests(t) : pc[r] = "idle"
                ELSE pc[t] = "migrate"
Freed(t) == IF t \in Sessions THEN "closed" ELSE "renew"

(* The driver is there: its freesession method is called unlocked. *)
FreeSessionBegin(t) ==
  /\ MayFree(t)
  /\ table[sid[t].hid].dev # None
  /\ cap' = [cap EXCEPT ![t] = sid[t].hid]
  /\ seen' = [seen EXCEPT ![t] = edition]
  /\ Goto(t, "freecall")
  /\ UNCHANGED <<table, edition, driverVars, sid, open>>

FreeSessionCall(t) ==
  /\ pc[t] = "freecall"
  /\ Goto(t, IF table[cap[t]].dev = None THEN "oops" ELSE "freeend")
  /\ UNCHANGED <<table, edition, driverVars, sid, cap, seen, open>>

FreeSessionEnd(t) ==
  /\ pc[t] = "freeend"
  /\ StoreSlot(t, SessionFreed(table[cap[t]]))
  /\ open' = open \ {sid[t]}
  /\ Goto(t, Freed(t))
  /\ UNCHANGED <<edition, driverVars, sid, cap, seen>>

(* The driver is gone: there is nothing to call. *)
FreeSessionGone(t) ==
  /\ MayFree(t)
  /\ table[sid[t].hid].dev = None
  /\ table' = [table EXCEPT ![sid[t].hid] = SessionFreed(@)]
  /\ open' = open \ {sid[t]}
  /\ Goto(t, Freed(t))
  /\ UNCHANGED <<edition, driverVars, sid, cap, seen>>

-----------------------------------------------------------------------------
(* A request, from crypto_dispatch to its callback *)

(* The client copies the session id and calls crypto_dispatch. *)
Submit(r) ==
  /\ pc[r] = "idle" /\ pc[SessionOf[r]] = "open"
  /\ sid' = [sid EXCEPT ![r] = sid[SessionOf[r]]]
  /\ Goto(r, "queued")
  /\ UNCHANGED <<table, edition, driverVars, cap, seen, open>>

NeverMigrate(slot) == FALSE
MustMigrate(slot) == slot.cleanup

(* crypto_invoke reads cc_flags ... *)
Invoke(r) ==
  /\ pc[r] = "queued"
  /\ cap' = [cap EXCEPT ![r] = sid[r].hid]
  /\ seen' = [seen EXCEPT ![r] = edition]
  /\ Goto(r, IF MustMigrate(table[sid[r].hid]) THEN "migrate" ELSE "process")
  /\ UNCHANGED <<table, edition, driverVars, sid, open>>

(* ... and calls CRYPTODEV_PROCESS(cap->cc_dev). *)
Process(r) ==
  /\ pc[r] = "process"
  /\ Goto(r, IF table[cap[r]].dev = None THEN "oops" ELSE "idle")
  /\ UNCHANGED <<table, edition, driverVars, sid, cap, seen, open>>

(* The callback, given EAGAIN, dispatches the request again. *)
Again(r) ==
  /\ pc[r] = "again"
  /\ sid' = IF SessionOf[r] \in Following
              THEN [sid EXCEPT ![SessionOf[r]] = sid[r]] ELSE sid
  /\ Goto(r, "queued")
  /\ UNCHANGED <<table, edition, driverVars, cap, seen, open>>

-----------------------------------------------------------------------------
DriverStep(d) ==
  \/ GetDriverId(d) \/ UnregisterAll(d)
  \/ \E a \in Provides[d] : Register(d, a)
SessionStep(t) ==
  \/ \E crid \in CridsOf(t) : NewSessionNone(t, crid) \/ NewSessionBegin(t, crid)
  \/ NewSessionCall(t) \/ NewSessionEnd(t)
  \/ FreeSessionBegin(t) \/ FreeSessionCall(t) \/ FreeSessionEnd(t)
  \/ FreeSessionGone(t)
RequestStep(r) == Submit(r) \/ Invoke(r) \/ Process(r) \/ Again(r)

(* The framework never calls a method of a driver that is gone: what the    *)
(* kernel does after such a call is left out, so the model stops there.    *)
DriverPresent == \A t \in Threads : pc[t] # "oops"

Next ==
  /\ DriverPresent
  /\ \/ \E d \in Devs : DriverStep(d)
     \/ \E t \in Threads : SessionStep(t)
     \/ \E r \in Reqs : RequestStep(r)

Spec == Init /\ [][Next]_vars

-----------------------------------------------------------------------------
(* Properties *)

(* Slots, session ids and local variables keep their types, and every       *)
(* driver id and local cap is a slot of the table.                         *)
TypeOK ==
  /\ \E n \in 1 .. MaxSlots : table \in [0 .. n - 1 -> Slot]
  /\ edition \in 0 .. MaxSlots
  /\ drv \in [Devs -> {"out", "claimed", "in"}]
  /\ slotOf \in [Devs -> DOMAIN table]
  /\ pc \in [Threads -> {"closed", "open", "idle", "queued", "process",
                         "migrate", "renew", "again", "oops", "newcall",
                         "newok", "newbad", "freecall", "freeend"}]
  /\ sid \in [Threads -> Sids \cup {None}]
  /\ cap \in [Threads -> DOMAIN table]
  /\ seen \in [Threads -> 0 .. edition]
  /\ open \subseteq Sids

(* "# of sessions": cc_sessions of a slot is the number of sessions that    *)
(* were created on it and not freed, those being created included, plus    *)
(* the mark of a driver that has not registered an algorithm yet.          *)
SessionCount ==
  DriverPresent => \A h \in DOMAIN table :
    table[h].sessions =
      Cardinality({x \in open : x.hid = h})
      + Cardinality({t \in Threads : pc[t] \in {"newcall", "newbad"} /\ cap[t] = h})
      + Cardinality({d \in Devs : drv[d] = "claimed" /\ slotOf[d] = h})

(* "subsequent calls using those sessions will correctly detect the driver  *)
(* has been unregistered": while a client has a session open, the slot     *)
(* holds the driver that made the session, or is marked for cleanup.       *)
SessionsDetect ==
  \A s \in Sessions :
    pc[s] = "open" /\ (\A r \in Requests(s) : pc[r] = "idle") =>
      LET slot == table[sid[s].hid]
      IN slot.dev = sid[s].dev \/ slot.cleanup

(* A slot marked for cleanup is in use by a session or an asymmetric        *)
(* operation: it is handed out again once they are gone.                   *)
CleanupEnds == \A h \in DOMAIN table : table[h].cleanup => Busy(table[h])

(* A session exists only for a client that holds its id, or for the request *)
(* or call that is moving it; otherwise nobody can ever free it.           *)
NoLeakedSession ==
  \A x \in open : \E t \in Threads :
    sid[t] = x /\ (t \in Sessions => pc[t] # "closed")
               /\ (t \in Reqs => pc[t] # "idle")

=============================================================================
