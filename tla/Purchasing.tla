----------------------------- MODULE Purchasing -----------------------------
(***************************************************************************)
(* PurchasingService: purchase orders of one supplier for one warehouse,    *)
(* from the draft, raised by an admin or by the daily reorder cron of every *)
(* replica, to the receipt of the goods.                                    *)
(*                                                                          *)
(* A receipt is one transaction under po_receive_<id>: it reads the order   *)
(* and its lines (StartReceive); at its commit it compares and sets every   *)
(* line, brings in the stock and sets the status.  A cancel takes no lock:  *)
(* it reads (StartCancel) and, as it writes, compares the status only.      *)
(*                                                                          *)
(* Abstractions: a purchase order is its place in the sequence, with one    *)
(* line per SKU (0 ordered: no line); prices are left out; what sales and   *)
(* other writers do to the stock is Sell.                                   *)
(***************************************************************************)
EXTENDS Integers, Sequences, FiniteSets

CONSTANTS
    Sku,
    Session,        \* requests and cron runs in flight at once
    ReorderPoint, ReorderQty,
    MaxQty,         \* bound on a quantity an admin orders or receives
    MaxOrders       \* bound on the purchase orders

ASSUME PurchasingAssumption ==
    /\ ReorderPoint \in Nat
    /\ ReorderQty \in Nat \ {0} /\ MaxQty \in Nat \ {0} /\ MaxOrders \in Nat

VARIABLES
    po,         \* the purchase orders, by number: status, ordered, received, auto
    onHand,     \* Sku -> units
    sold,       \* Sku -> units that have left since
    supplier,   \* the supplier is ACTIVE
    lock,       \* the sessions that hold po_receive of an order, with the order
    job         \* Session -> what it does

vars == <<po, onHand, sold, supplier, lock, job>>

Quantities == [Sku -> 0..(MaxQty + ReorderQty)]

None == [s \in Sku |-> 0]

Idle == [pc |-> "idle", po |-> 0, qty |-> None, seen |-> None, auto |-> FALSE]

Init ==
    /\ po = <<>>
    /\ onHand = None /\ sold = None
    /\ supplier = TRUE
    /\ lock = {}
    /\ job = [a \in Session |-> Idle]

Go(a, j) == job' = [job EXCEPT ![a] = j]

Open(p) == po[p].status \in {"DRAFT", "SUBMITTED"}

-----------------------------------------------------------------------------
(* Drafts.                                                                 *)

StartDraft(a, qty, auto) ==
    /\ job[a].pc = "idle"
    /\ qty # None
    /\ Go(a, [Idle EXCEPT !.pc = "draft", !.qty = qty, !.auto = auto])
    /\ UNCHANGED <<po, onHand, sold, supplier, lock>>

CreatePurchaseOrder(a, qty) == supplier /\ StartDraft(a, qty, FALSE)

openPoSkuIds == {s \in Sku : \E p \in DOMAIN po : Open(p) /\ po[p].ordered[s] > 0}

(* The supplier of a SKU is that of its last purchase order not cancelled. *)
HasSupplier(s) == \E p \in DOMAIN po : po[p].status # "CANCELLED" /\ po[p].ordered[s] > 0

Reorder(a) ==
    LET rows == {s \in Sku : onHand[s] <= ReorderPoint /\ HasSupplier(s)} \ openPoSkuIds
    IN StartDraft(a, [s \in Sku |-> IF s \in rows THEN ReorderQty ELSE 0], TRUE)

(* In the transaction, before the number is drawn. *)
CheckSupplier(a) ==
    /\ job[a].pc = "draft"
    /\ Go(a, IF supplier THEN [job[a] EXCEPT !.pc = "insert"] ELSE Idle)
    /\ UNCHANGED <<po, onHand, sold, supplier, lock>>

InsertDraft(a) ==
    /\ job[a].pc = "insert"
    /\ Len(po) < MaxOrders
    /\ po' = Append(po, [status |-> "DRAFT", ordered |-> job[a].qty, received |-> None,
                         auto |-> job[a].auto])
    /\ Go(a, Idle)
    /\ UNCHANGED <<onHand, sold, supplier, lock>>

-----------------------------------------------------------------------------
(* Placing and cancelling.                                                 *)

PlacePurchaseOrder(p) ==
    /\ po[p].status = "DRAFT"
    /\ po' = [po EXCEPT ![p].status = "SUBMITTED"]
    /\ UNCHANGED <<onHand, sold, supplier, lock, job>>

StartCancel(a, p) ==
    /\ job[a].pc = "idle"
    /\ Open(p) /\ po[p].received = None
    /\ Go(a, [Idle EXCEPT !.pc = "cancel", !.po = p])
    /\ UNCHANGED <<po, onHand, sold, supplier, lock>>

(* Faulty: the status that was read is not compared again. *)
CancellableAsRead(p) == TRUE

Cancellable(p) == Open(p)

CancelPurchaseOrder(a) ==
    LET p == job[a].po IN
    /\ job[a].pc = "cancel"
    /\ po' = IF Cancellable(p) THEN [po EXCEPT ![p].status = "CANCELLED"] ELSE po
    /\ Go(a, Idle)
    /\ UNCHANGED <<onHand, sold, supplier, lock>>

-----------------------------------------------------------------------------
(* Receiving.                                                              *)

(* Faulty: what was received before is forgotten. *)
FitsTheOrder(p, s, n) == n <= po[p].ordered[s]

Fits(p, s, n) == n <= po[p].ordered[s] - po[p].received[s]

(* Faulty: the second receipt does not wait for the first. *)
NobodyWaits(p) == TRUE

LockFree(p) == \A h \in lock : h[2] # p

StartReceive(a, p, qty) ==
    /\ job[a].pc = "idle"
    /\ qty # None
    /\ LockFree(p)
    /\ po[p].status \notin {"CANCELLED", "DRAFT"}
    /\ \A s \in Sku : Fits(p, s, qty[s])
    /\ lock' = lock \cup {<<a, p>>}
    /\ Go(a, [Idle EXCEPT !.pc = "receive", !.po = p, !.qty = qty,
                          !.seen = po[p].received])
    /\ UNCHANGED <<po, onHand, sold, supplier>>

StatusAfter(ordered, received) ==
    IF \A s \in Sku : received[s] >= ordered[s] THEN "RECEIVED" ELSE "PARTIALLY_RECEIVED"

(* Faulty: a line that came in short is closed. *)
CloseLine(ordered, received, n) == IF n > 0 THEN ordered ELSE received

Bump(ordered, received, n) == received + n

ReceivePurchaseOrder(a) ==
    LET p == job[a].po
        qty == job[a].qty
        now == [s \in Sku |-> Bump(po[p].ordered[s], po[p].received[s], qty[s])]
    IN
    /\ job[a].pc = "receive"
    /\ \A s \in Sku : qty[s] > 0 => po[p].received[s] = job[a].seen[s] /\ Fits(p, s, qty[s])
    /\ po' = [po EXCEPT ![p].received = now, ![p].status = StatusAfter(po[p].ordered, now)]
    /\ onHand' = [s \in Sku |-> onHand[s] + qty[s]]
    /\ lock' = lock \ {<<a, p>>}
    /\ Go(a, Idle)
    /\ UNCHANGED <<sold, supplier>>

(* A transaction that fails, or whose node dies, leaves no trace. *)
Abort(a) ==
    /\ job[a].pc # "idle"
    /\ lock' = {h \in lock : h[1] # a}
    /\ Go(a, Idle)
    /\ UNCHANGED <<po, onHand, sold, supplier>>

-----------------------------------------------------------------------------

(* deactivateSupplier, and updateSupplier, which can activate it again. *)
SetSupplier ==
    /\ supplier' = ~supplier
    /\ UNCHANGED <<po, onHand, sold, lock, job>>

Sell(s) ==
    /\ onHand[s] > 0
    /\ onHand' = [onHand EXCEPT ![s] = @ - 1]
    /\ sold' = [sold EXCEPT ![s] = @ + 1]
    /\ UNCHANGED <<po, supplier, lock, job>>

Next ==
    \/ \E a \in Session :
        \/ \E qty \in [Sku -> 0..MaxQty] : CreatePurchaseOrder(a, qty)
        \/ Reorder(a)
        \/ CheckSupplier(a)
        \/ InsertDraft(a)
        \/ \E p \in DOMAIN po : StartCancel(a, p)
        \/ CancelPurchaseOrder(a)
        \/ \E p \in DOMAIN po, qty \in [Sku -> 0..MaxQty] : StartReceive(a, p, qty)
        \/ ReceivePurchaseOrder(a)
        \/ Abort(a)
    \/ \E p \in DOMAIN po : PlacePurchaseOrder(p)
    \/ SetSupplier
    \/ \E s \in Sku : Sell(s)

Spec == Init /\ [][Next]_vars

-----------------------------------------------------------------------------
(* Properties.                                                             *)

(* Every variable has its type, and one session at most receives an order. *)
TypeOK ==
    /\ po \in Seq([status : {"DRAFT", "SUBMITTED", "PARTIALLY_RECEIVED", "RECEIVED", "CANCELLED"},
                   ordered : Quantities, received : [Sku -> Nat], auto : BOOLEAN])
    /\ onHand \in [Sku -> Nat] /\ sold \in [Sku -> Nat]
    /\ supplier \in BOOLEAN
    /\ job \in [Session -> [pc : {"idle", "draft", "insert", "cancel", "receive"},
                            po : Nat, qty : Quantities, seen : Quantities, auto : BOOLEAN]]
    /\ \A g, h \in lock : g[2] = h[2] => g = h

(* Concurrent receipts never take in more than was ordered. *)
NeverOverReceived == \A p \in DOMAIN po, s \in Sku : po[p].received[s] <= po[p].ordered[s]

ReceivedUnits(s) == UNION {{p} \X (1 .. po[p].received[s]) : p \in DOMAIN po}

(* What the lines say was received is what came into the stock. *)
StockIsWhatWasReceived ==
    \A s \in Sku : /\ IsFiniteSet(ReceivedUnits(s))
                   /\ onHand[s] + sold[s] = Cardinality(ReceivedUnits(s))

(* However receipts and cancels interleave, the status tells what was received: an *)
(* order that is cancelled, or not placed yet, has received nothing.               *)
StatusTellsReceipts ==
    \A p \in DOMAIN po :
        /\ po[p].status \in {"DRAFT", "SUBMITTED", "CANCELLED"} => po[p].received = None
        /\ po[p].status = "PARTIALLY_RECEIVED" =>
            po[p].received # None /\ po[p].received # po[p].ordered
        /\ po[p].status = "RECEIVED" => po[p].received = po[p].ordered

(* "A CANCELLED PO rejects receipts": a cancelled order stays cancelled. *)
CancelledStays ==
    [][\A p \in DOMAIN po : po[p].status = "CANCELLED" => po'[p].status = "CANCELLED"]_vars

(* "Two replicas firing together never draft a duplicate replenishment PO." *)
NoDuplicateDraft ==
    \A p, q \in DOMAIN po :
        (po[p].auto /\ po[q].auto /\ Open(p) /\ Open(q) /\ p # q) =>
            \A s \in Sku : po[p].ordered[s] = 0 \/ po[q].ordered[s] = 0

(* "A concurrent deactivation between the pre-checks and the insert is still caught." *)
NoOrderToInactiveSupplier == [][Len(po') > Len(po) => supplier]_vars

=============================================================================
