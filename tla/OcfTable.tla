------------------------------ MODULE OcfTable ------------------------------
(***************************************************************************)
(* The table of crypto drivers (crypto_drivers in crypto/ocf/crypto.c) and *)
(* what the framework computes on it under crypto_drivers_lock.  A slot    *)
(* (struct cryptocap) is                                                   *)
(*   dev       cc_dev, the driver in the slot, or None,                    *)
(*   cleanup   CRYPTOCAP_F_CLEANUP: unregistered, resources still in use,  *)
(*   algs      the algorithms with a non-zero cc_alg,                      *)
(*   sessions  cc_sessions,                                                *)
(*   kops      cc_koperations.                                             *)
(* The hardware and software bits of cc_flags are a constant of the device.*)
(***************************************************************************)
EXTENDS Integers, FiniteSets

CONSTANTS Devs, Hardware, Algs, None

ASSUME DevsAssumption == Hardware \subseteq Devs /\ None \notin Devs

Slot == [dev : Devs \cup {None}, cleanup : BOOLEAN, algs : SUBSET Algs,
         sessions : Nat, kops : Nat]

(* bzero of a slot *)
Zeroed == [dev |-> None, cleanup |-> FALSE, algs |-> {},
           sessions |-> 0, kops |-> 0]

Busy(slot) == slot.sessions # 0 \/ slot.kops # 0

(* driver_finis *)
FinisForgets(slot) == Zeroed
Finis(slot) ==
  IF Busy(slot) THEN [Zeroed EXCEPT !.cleanup = TRUE,
                                    !.sessions = slot.sessions,
                                    !.kops = slot.kops]
                ELSE Zeroed

(* crypto_remove *)
RemoveNever(slot) == slot
Remove(slot) == IF Busy(slot) THEN slot ELSE Zeroed

(* The end of crypto_freesession: one session less, and a slot that only    *)
(* waited for its sessions is free again.                                  *)
SessionFreed(slot) ==
  LET left == [slot EXCEPT !.sessions = IF @ # 0 THEN @ - 1 ELSE 0]
  IN IF left.cleanup THEN Remove(left) ELSE left

(* crypto_get_driverid: is the slot unused? *)
ReusedEarly(slot) == slot.dev = None
Unused(slot) == slot.dev = None /\ ~slot.cleanup

FirstUnused(table) ==
  {h \in DOMAIN table : /\ Unused(table[h])
                        /\ \A g \in DOMAIN table : Unused(table[g]) => h <= g}

(* crypto_get_driverid: the table doubles when it has no unused slot. *)
Doubled(table) ==
  LET n == Cardinality(DOMAIN table)
  IN [h \in 0 .. 2 * n - 1 |-> IF h < n THEN table[h] ELSE Zeroed]

(* driver_suitable, kdriver_suitable *)
Suitable(slot, algs) == algs \subseteq slot.algs

(* crypto_select_driver and crypto_select_kdriver: among the suitable       *)
(* drivers of the wanted kind, the one with the least load, the first of    *)
(* them; the empty set for NULL.                                           *)
Candidates(table, hardware, algs) ==
  {h \in DOMAIN table :
     /\ table[h].dev # None /\ ~table[h].cleanup
     /\ table[h].dev \in Hardware <=> hardware
     /\ Suitable(table[h], algs)}

Least(hs, load) ==
  {h \in hs : \A g \in hs : \/ load[h] < load[g]
                            \/ (load[h] = load[g] /\ h <= g)}

Select(table, flags, algs, load) ==
  LET best(hardware) == Least(Candidates(table, hardware, algs), load)
  IN IF "hw" \notin flags THEN best(FALSE)
     ELSE IF best(TRUE) = {} /\ "sw" \in flags THEN best(FALSE)
     ELSE best(TRUE)

SessionLoad(table) == [h \in DOMAIN table |-> table[h].sessions]
KopLoad(table) == [h \in DOMAIN table |-> table[h].kops]

=============================================================================
