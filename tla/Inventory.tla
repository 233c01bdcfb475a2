----------------------------- MODULE Inventory -----------------------------
(***************************************************************************)
(* What the stock service (modules/inventory) promises its callers: every  *)
(* primitive is one atomic change of the tables of Stock.                   *)
(*                                                                          *)
(* A transaction that throws leaves the tables alone, so only the commits   *)
(* are steps.  InventoryTx takes each primitive apart into its statements   *)
(* and implements this module; InventoryProofs proves that, and the         *)
(* invariants below, for every value of the constants.  `version` is left   *)
(* to InventoryTx.                                                          *)
(***************************************************************************)
EXTENDS Stock

VARIABLES
    rows,       \* the keys that have a StockLevel row
    onHand,     \* Key -> units in the building
    reserved,   \* Key -> units of them that are held
    res,        \* Res -> reservation row; status "NONE" before it is created
    ledger      \* Key -> totals of the StockMovement rows

vars == <<rows, onHand, reserved, res, ledger>>

(* Faulty: the units already held are counted as available. *)
AvailableIgnoresHolds(k) == onHand[k]

Available(k) == onHand[k] - reserved[k]

Init ==
    /\ rows = {}
    /\ onHand = [k \in Key |-> 0]
    /\ reserved = [k \in Key |-> 0]
    /\ res = [r \in Res |-> NoReservation]
    /\ ledger = [k \in Key |-> NoMovement]

-----------------------------------------------------------------------------

(* A new SKU gets an empty row at each warehouse active at that moment. *)
SeedLevels(s, W) ==
    /\ \A w \in Warehouse : <<s, w>> \notin rows
    /\ rows' = rows \cup ({s} \X W)
    /\ UNCHANGED <<onHand, reserved, res, ledger>>

(* All lines or none; ids gives the reservation created for each line. *)
ReserveMany(demand, ids) ==
    /\ \A k \in DOMAIN demand : /\ k \in rows
                                /\ Available(k) >= demand[k]
                                /\ res[ids[k]].status = "NONE"
    /\ \A k, j \in DOMAIN demand : ids[k] = ids[j] => k = j
    /\ reserved' = [k \in Key |-> IF k \in DOMAIN demand
                                  THEN reserved[k] + demand[k] ELSE reserved[k]]
    /\ res' = [r \in Res |->
                 IF \E k \in DOMAIN demand : ids[k] = r
                 THEN LET k == CHOOSE k \in DOMAIN demand : ids[k] = r
                      IN [status |-> "ACTIVE", key |-> k, qty |-> demand[k]]
                 ELSE res[r]]
    /\ ledger' = [k \in Key |->
                    IF k \in DOMAIN demand
                    THEN WriteMovement(ledger[k], 0, demand[k], onHand[k])
                    ELSE ledger[k]]
    /\ UNCHANGED <<rows, onHand>>

(* Faulty: a reservation that is already finished is given back again. *)
ReleaseTwice(r, terminal) ==
    LET k == res[r].key  q == res[r].qty IN
    /\ res[r].status # "NONE"
    /\ reserved[k] >= q
    /\ reserved' = [reserved EXCEPT ![k] = @ - q]
    /\ res' = [res EXCEPT ![r].status = terminal]
    /\ ledger' = [ledger EXCEPT ![k] = WriteMovement(@, 0, -q, onHand[k])]
    /\ UNCHANGED <<rows, onHand>>

(* An ACTIVE reservation is given back: RELEASED by a cancel, EXPIRED by the cron. *)
ReleaseReservation(r, terminal) ==
    LET k == res[r].key  q == res[r].qty IN
    /\ res[r].status = "ACTIVE"
    /\ reserved[k] >= q
    /\ reserved' = [reserved EXCEPT ![k] = @ - q]
    /\ res' = [res EXCEPT ![r].status = terminal]
    /\ ledger' = [ledger EXCEPT ![k] = WriteMovement(@, 0, -q, onHand[k])]
    /\ UNCHANGED <<rows, onHand>>

(* An ACTIVE reservation is sold: its units leave both counters. *)
CommitReservation(r) ==
    LET k == res[r].key  q == res[r].qty IN
    /\ res[r].status = "ACTIVE"
    /\ onHand[k] >= q
    /\ reserved[k] >= q
    /\ onHand' = [onHand EXCEPT ![k] = @ - q]
    /\ reserved' = [reserved EXCEPT ![k] = @ - q]
    /\ res' = [res EXCEPT ![r].status = "CONSUMED"]
    /\ ledger' = [ledger EXCEPT ![k] = WriteMovement(@, -q, -q, onHand[k] - q)]
    /\ UNCHANGED rows

Restock(k, q) ==
    /\ k \in rows
    /\ onHand[k] + q <= MaxOnHand
    /\ onHand' = [onHand EXCEPT ![k] = @ + q]
    /\ ledger' = [ledger EXCEPT ![k] = WriteMovement(@, q, 0, onHand[k] + q)]
    /\ UNCHANGED <<rows, reserved, res>>

(* A purchase receipt: like Restock, but it creates the row when there is none. *)
ReceiveStock(k, q) ==
    /\ onHand[k] + q <= MaxOnHand
    /\ rows' = rows \cup {k}
    /\ onHand' = [onHand EXCEPT ![k] = @ + q]
    /\ ledger' = [ledger EXCEPT ![k] = WriteMovement(@, q, 0, onHand[k] + q)]
    /\ UNCHANGED <<reserved, res>>

(* Faulty: the correction may go below what is held, or below zero. *)
AdjustUnguarded(k, delta) ==
    /\ k \in rows
    /\ onHand' = [onHand EXCEPT ![k] = @ + delta]
    /\ ledger' = [ledger EXCEPT ![k] = WriteMovement(@, delta, 0, onHand[k] + delta)]
    /\ UNCHANGED <<rows, reserved, res>>

(* A manual correction by a signed, non-zero delta. *)
Adjust(k, delta) ==
    LET newOnHand == onHand[k] + delta IN
    /\ delta # 0
    /\ k \in rows
    /\ newOnHand >= 0
    /\ newOnHand >= reserved[k]
    /\ newOnHand <= MaxOnHand
    /\ onHand' = [onHand EXCEPT ![k] = newOnHand]
    /\ ledger' = [ledger EXCEPT ![k] = WriteMovement(@, delta, 0, newOnHand)]
    /\ UNCHANGED <<rows, reserved, res>>

(* Faulty: the movement into the destination is not written. *)
TransferOneMovement(s, from, to, q) ==
    LET src == <<s, from>>  dst == <<s, to>> IN
    /\ from # to
    /\ {src, dst} \subseteq rows
    /\ Available(src) >= q
    /\ onHand[dst] + q <= MaxOnHand
    /\ onHand' = [onHand EXCEPT ![src] = @ - q, ![dst] = @ + q]
    /\ ledger' = [ledger EXCEPT ![src] = WriteMovement(@, -q, 0, onHand[src] - q)]
    /\ UNCHANGED <<rows, reserved, res>>

Transfer(s, from, to, q) ==
    LET src == <<s, from>>  dst == <<s, to>> IN
    /\ from # to
    /\ {src, dst} \subseteq rows
    /\ Available(src) >= q
    /\ onHand[dst] + q <= MaxOnHand
    /\ onHand' = [onHand EXCEPT ![src] = @ - q, ![dst] = @ + q]
    /\ ledger' = [ledger EXCEPT ![src] = WriteMovement(@, -q, 0, onHand[src] - q),
                                ![dst] = WriteMovement(@, q, 0, onHand[dst] + q)]
    /\ UNCHANGED <<rows, reserved, res>>

Next ==
    \/ \E s \in Sku, W \in SUBSET Warehouse : SeedLevels(s, W)
    \/ \E demand \in Demands : \E ids \in [DOMAIN demand -> Res] : ReserveMany(demand, ids)
    \/ \E r \in Res, t \in {"RELEASED", "EXPIRED"} : ReleaseReservation(r, t)
    \/ \E r \in Res : CommitReservation(r)
    \/ \E k \in Key, q \in Qty : Restock(k, q)
    \/ \E k \in Key, q \in Qty : ReceiveStock(k, q)
    \/ \E k \in Key, delta \in -MaxQty .. MaxQty : Adjust(k, delta)
    \/ \E s \in Sku, from, to \in Warehouse, q \in Qty : Transfer(s, from, to, q)

Spec == Init /\ [][Next]_vars

-----------------------------------------------------------------------------

(* The tables hold values of their column types. *)
TypeOK ==
    /\ rows \in SUBSET Key
    /\ onHand \in [Key -> Nat]
    /\ reserved \in [Key -> Nat]
    /\ res \in [Res -> Reservation]
    /\ ledger \in [Key -> Movements]

ActiveOn(k) == {r \in Res : res[r].status = "ACTIVE" /\ res[r].key = k}

(* The units held on a row, one element for each: <<r, i>> is unit i of r. *)
HeldUnits(k) == UNION {{r} \X (1 .. res[r].qty) : r \in ActiveOn(k)}

(***************************************************************************)
(* `reserved` of a row is exactly the sum of its ACTIVE reservations: the   *)
(* counter and the reservation table are two tables changed by four         *)
(* primitives, and a double release or a commit that forgets one of the two *)
(* counters makes them drift apart for ever (inventory.service.ts "ONE      *)
(* coupled CAS pair").                                                      *)
(***************************************************************************)
HeldIsReserved ==
    \A k \in Key : /\ IsFiniteSet(HeldUnits(k))
                   /\ reserved[k] = Cardinality(HeldUnits(k))

(***************************************************************************)
(* Nothing is sold twice: the units held on a row are in the building, and  *)
(* a row that does not exist holds nothing.                                 *)
(***************************************************************************)
NoOversell ==
    /\ \A k \in Key : reserved[k] <= onHand[k]
    /\ \A k \in Key \ rows : onHand[k] = 0

(***************************************************************************)
(* A reservation that is ACTIVE can always be finished: the invariant       *)
(* guards whose failure makes releaseReservation and commitReservation      *)
(* throw ("Failed to commit stock ... invariant guard") are never reached.  *)
(***************************************************************************)
NoStrandedReservation ==
    \A r \in Res : res[r].status = "ACTIVE" =>
        /\ res[r].key \in rows
        /\ reserved[res[r].key] >= res[r].qty
        /\ onHand[res[r].key] >= res[r].qty

(***************************************************************************)
(* The append-only ledger explains the counters: replaying a row's          *)
(* movements gives its onHand and its reserved, and the last balanceAfter   *)
(* is its onHand.                                                           *)
(***************************************************************************)
LedgerExplainsLevel ==
    \A k \in Key : /\ ledger[k].quantity = onHand[k]
                   /\ ledger[k].reservedDelta = reserved[k]
                   /\ ledger[k].balance = onHand[k]

(***************************************************************************)
(* A reservation is finished once: a terminal row never changes again, so a *)
(* redelivered webhook or a second cron run cannot sell or give back the    *)
(* same units twice.                                                        *)
(***************************************************************************)
FinishedOnce ==
    [][\A r \in Res : res[r].status \in Terminal => res'[r] = res[r]]_vars

=============================================================================
