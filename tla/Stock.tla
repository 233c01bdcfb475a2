------------------------------- MODULE Stock -------------------------------
(***************************************************************************)
(* The tables of the stock service (modules/inventory), for Inventory and   *)
(* InventoryTx:                                                             *)
(*                                                                          *)
(*   StockLevel        one row per (sku, warehouse): onHand, reserved       *)
(*   StockReservation  ACTIVE -> CONSUMED | RELEASED | EXPIRED              *)
(*   StockMovement     the append-only ledger of every change               *)
(*                                                                          *)
(* The ledger is kept as its totals per row (the sum of `quantity`, the sum *)
(* of `reservedDelta`, the last `balanceAfter`); actors, notes and realtime *)
(* emits are omitted.                                                       *)
(***************************************************************************)
EXTENDS Integers, FiniteSets

CONSTANTS
    Sku, Warehouse,     \* a stock row is a pair of them
    Res,                \* the reservation ids that may be used
    MaxQty,             \* bound on the quantity of one request
    MaxOnHand           \* bound on the stock of one row

Key == Sku \X Warehouse

ASSUME InventoryAssumption ==
    /\ Key # {}
    /\ MaxQty \in Nat
    /\ MaxOnHand \in Nat

Terminal == {"CONSUMED", "RELEASED", "EXPIRED"}

Qty == 1 .. MaxQty

Reservation ==
    [status : {"NONE", "ACTIVE"} \cup Terminal, key : Key, qty : Nat]

NoReservation == [status |-> "NONE", key |-> CHOOSE k \in Key : TRUE, qty |-> 0]

Movements == [quantity : Int, reservedDelta : Int, balance : Int]

NoMovement == [quantity |-> 0, reservedDelta |-> 0, balance |-> 0]

(***************************************************************************)
(* A coalesced line set: one positive quantity for each distinct row.       *)
(***************************************************************************)
Demands == UNION {[K -> Qty] : K \in (SUBSET Key) \ {{}}}

(* The ledger after a movement m is appended for row k. *)
WriteMovement(l, quantity, reservedDelta, balanceAfter) ==
    [quantity      |-> l.quantity + quantity,
     reservedDelta |-> l.reservedDelta + reservedDelta,
     balance       |-> balanceAfter]

=============================================================================
