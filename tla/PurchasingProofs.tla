-------------------------- MODULE PurchasingProofs ---------------------------
(***************************************************************************)
(* What holds of Purchasing for any number of SKUs, sessions, orders and      *)
(* units.  None of it needs the lock of a receipt: the lines are compared as  *)
(* they are written, and so is the status by a cancel, which alone would not  *)
(* be enough if a DRAFT or SUBMITTED order could have received anything.      *)
(***************************************************************************)
EXTENDS Purchasing, FiniteSetTheorems, TLAPS

Status == {"DRAFT", "SUBMITTED", "PARTIALLY_RECEIVED", "RECEIVED", "CANCELLED"}

PurchaseOrder == [status : Status, ordered : Quantities, received : [Sku -> Nat], auto : BOOLEAN]

Job == [pc : {"idle", "draft", "insert", "cancel", "receive"},
        po : Nat, qty : Quantities, seen : Quantities, auto : BOOLEAN]

(* A cancel and a receipt are of an order that exists, and a receipt is of something. *)
Named ==
    \A a \in Session :
        /\ job[a].pc \in {"cancel", "receive"} => job[a].po \in DOMAIN po
        /\ job[a].pc = "receive" => \E s \in Sku : job[a].qty[s] > 0

IInv == TypeOK /\ Named /\ NeverOverReceived /\ StatusTellsReceipts

(* What the two properties say of one order. *)
Sound(o) ==
    /\ \A s \in Sku : o.received[s] <= o.ordered[s]
    /\ o.status \in {"DRAFT", "SUBMITTED", "CANCELLED"} => o.received = None
    /\ o.status = "PARTIALLY_RECEIVED" => o.received # None /\ o.received # o.ordered
    /\ o.status = "RECEIVED" => o.received = o.ordered

LEMMA SoundOrders ==
    NeverOverReceived /\ StatusTellsReceipts <=> \A p \in DOMAIN po : Sound(po[p])
BY DEF NeverOverReceived, StatusTellsReceipts, Sound

(* Nothing, and what an administrator may ask for, are quantities. *)
LEMMA QuantityTypes ==
    /\ None \in Quantities /\ None \in [Sku -> Nat]
    /\ [Sku -> 0..MaxQty] \subseteq Quantities
    /\ Quantities \subseteq [Sku -> Nat]
    /\ Idle \in Job /\ Idle.pc = "idle"
BY PurchasingAssumption DEF None, Quantities, Idle, Job

LEMMA SomethingAsked ==
    ASSUME NEW qty \in Quantities, qty # None
    PROVE  \E s \in Sku : qty[s] > 0
BY PurchasingAssumption DEF None, Quantities

(* The tables, without the locks. *)
Typed ==
    /\ po \in Seq(PurchaseOrder) /\ job \in [Session -> Job]
    /\ onHand \in [Sku -> Nat] /\ sold \in [Sku -> Nat] /\ supplier \in BOOLEAN

OneReceiver == \A g, h \in lock : g[2] = h[2] => g = h

LEMMA TypedTables ==
    /\ TypeOK <=> Typed /\ OneReceiver
    /\ TypeOK' <=> Typed' /\ OneReceiver'
BY DEF TypeOK, Typed, OneReceiver, PurchaseOrder, Status, Job

(* A step of one session that leaves the orders alone keeps the invariant, when its new *)
(* record names an order and something to receive.                                       *)
LEMMA SessionStep ==
    ASSUME IInv, NEW a \in Session, NEW j \in Job, Go(a, j),
           UNCHANGED <<po, onHand, sold, supplier>>,
           j.pc \in {"cancel", "receive"} => j.po \in DOMAIN po,
           j.pc = "receive" => \E s \in Sku : j.qty[s] > 0,
           OneReceiver'
    PROVE  IInv'
<1>1. Typed'
  BY TypedTables DEF IInv, Typed, Go
<1>2. Named'
  BY TypedTables DEF IInv, Typed, Named, Go
<1>3. NeverOverReceived' /\ StatusTellsReceipts'
  BY DEF IInv, NeverOverReceived, StatusTellsReceipts
<1> QED
  BY <1>1, <1>2, <1>3, TypedTables DEF IInv

(* A step that writes one order, to one that is sound, keeps the invariant. *)
LEMMA OrderStep ==
    ASSUME IInv, NEW p \in DOMAIN po, NEW o \in PurchaseOrder, Sound(o),
           po' = [po EXCEPT ![p] = o],
           Typed', UNCHANGED sold,
           \/ UNCHANGED job
           \/ \E a \in Session : Go(a, Idle),
           OneReceiver'
    PROVE  IInv'
<1>1. DOMAIN po' = DOMAIN po
  OBVIOUS
<1>2. Named'
  <2>1. CASE UNCHANGED job
    BY <1>1, <2>1 DEF IInv, Named
  <2>2. ASSUME NEW a \in Session, Go(a, Idle)
        PROVE  Named'
    BY <1>1, <2>2, QuantityTypes, TypedTables DEF IInv, Named, Typed, Go
  <2> QED
    BY <2>1, <2>2
<1>3. \A q \in DOMAIN po : po'[q] = IF q = p THEN o ELSE po[q]
  BY TypedTables DEF IInv, Typed
<1>4. \A q \in DOMAIN po : Sound(po[q])
  BY SoundOrders DEF IInv
<1>5. \A q \in DOMAIN po' : Sound(po'[q])
  BY <1>1, <1>3, <1>4
<1>6. NeverOverReceived' /\ StatusTellsReceipts'
  BY <1>5 DEF NeverOverReceived, StatusTellsReceipts, Sound
<1> QED
  BY <1>2, <1>6, TypedTables DEF IInv

-----------------------------------------------------------------------------
LEMMA InitIInv == Init => IInv
<1> SUFFICES ASSUME Init PROVE IInv
  OBVIOUS
<1>1. po \in Seq(PurchaseOrder) /\ DOMAIN po = {}
  BY DEF Init
<1>2. Typed /\ OneReceiver
  BY <1>1, QuantityTypes DEF Init, Typed, OneReceiver
<1>3. Named
  BY QuantityTypes DEF Init, Named
<1>4. NeverOverReceived /\ StatusTellsReceipts
  BY <1>1 DEF NeverOverReceived, StatusTellsReceipts
<1> QED
  BY <1>2, <1>3, <1>4, TypedTables DEF IInv

(* The drafts. *)
LEMMA StartDraftKeeps ==
    ASSUME IInv, NEW a \in Session, NEW qty \in Quantities, NEW auto \in BOOLEAN,
           StartDraft(a, qty, auto)
    PROVE  IInv'
<1> DEFINE j == [Idle EXCEPT !.pc = "draft", !.qty = qty, !.auto = auto]
<1>1. j \in Job /\ j.pc = "draft"
  BY QuantityTypes DEF Idle, Job
<1>2. Go(a, j) /\ UNCHANGED <<po, onHand, sold, supplier, lock>>
  BY DEF StartDraft
<1>3. OneReceiver'
  BY <1>2, TypedTables DEF IInv, OneReceiver
<1> HIDE DEF j
<1> QED
  BY <1>1, <1>2, <1>3, SessionStep

LEMMA ReorderKeeps ==
    ASSUME IInv, NEW a \in Session, Reorder(a)
    PROVE  IInv'
<1> DEFINE rows == {s \in Sku : onHand[s] <= ReorderPoint /\ HasSupplier(s)} \ openPoSkuIds
           qty == [s \in Sku |-> IF s \in rows THEN ReorderQty ELSE 0]
<1>1. StartDraft(a, qty, TRUE)
  BY DEF Reorder
<1> HIDE DEF rows
<1>2. qty \in Quantities
  BY PurchasingAssumption DEF Quantities
<1> HIDE DEF qty
<1> QED
  BY <1>1, <1>2, StartDraftKeeps

LEMMA CheckSupplierKeeps ==
    ASSUME IInv, NEW a \in Session, CheckSupplier(a)
    PROVE  IInv'
<1> DEFINE j == IF supplier THEN [job[a] EXCEPT !.pc = "insert"] ELSE Idle
<1>1. job[a] \in Job
  BY TypedTables DEF IInv, Typed
<1>2. j \in Job /\ j.pc \notin {"cancel", "receive"}
  BY <1>1, QuantityTypes DEF Job
<1>3. Go(a, j) /\ UNCHANGED <<po, onHand, sold, supplier, lock>>
  BY DEF CheckSupplier
<1>4. OneReceiver'
  BY <1>3, TypedTables DEF IInv, OneReceiver
<1> HIDE DEF j
<1> QED
  BY <1>2, <1>3, <1>4, SessionStep

LEMMA InsertDraftKeeps ==
    ASSUME IInv, NEW a \in Session, InsertDraft(a)
    PROVE  IInv'
<1> DEFINE o == [status |-> "DRAFT", ordered |-> job[a].qty, received |-> None, auto |-> job[a].auto]
<1>1. /\ po' = Append(po, o) /\ job' = [job EXCEPT ![a] = Idle]
      /\ UNCHANGED <<onHand, sold, supplier, lock>>
  BY DEF InsertDraft, Go
<1>2. job[a] \in Job /\ po \in Seq(PurchaseOrder)
  BY TypedTables DEF IInv, Typed
<1>3. o \in PurchaseOrder
  BY <1>2, QuantityTypes DEF PurchaseOrder, Status, Job
<1>4. Sound(o)
  BY <1>2, QuantityTypes, PurchasingAssumption DEF Sound, Job, None, Quantities
<1> HIDE DEF o
<1>5. Typed'
  BY <1>1, <1>2, <1>3, QuantityTypes, TypedTables DEF IInv, Typed
<1>6. \A q \in DOMAIN po' : (q \in DOMAIN po /\ po'[q] = po[q]) \/ po'[q] = o
  BY <1>1, <1>2, <1>3
<1>7. \A q \in DOMAIN po' : Sound(po'[q])
  BY <1>4, <1>6, SoundOrders DEF IInv
<1>8. NeverOverReceived' /\ StatusTellsReceipts'
  BY <1>7 DEF NeverOverReceived, StatusTellsReceipts, Sound
<1>9. DOMAIN po \subseteq DOMAIN po'
  BY <1>1, <1>2, <1>3
<1>10. Named'
  BY <1>1, <1>2, <1>9, QuantityTypes, TypedTables DEF IInv, Named, Typed
<1>11. OneReceiver'
  BY <1>1, TypedTables DEF IInv, OneReceiver
<1> QED
  BY <1>5, <1>8, <1>10, <1>11, TypedTables DEF IInv

(* Placing and cancelling. *)
LEMMA PlaceKeeps ==
    ASSUME IInv, NEW p \in DOMAIN po, PlacePurchaseOrder(p)
    PROVE  IInv'
<1> DEFINE o == [po[p] EXCEPT !.status = "SUBMITTED"]
<1>1. po \in Seq(PurchaseOrder) /\ po[p] \in PurchaseOrder
  BY TypedTables DEF IInv, Typed
<1>2. po' = [po EXCEPT ![p] = o] /\ UNCHANGED <<onHand, sold, supplier, lock, job>>
  BY <1>1 DEF PlacePurchaseOrder, PurchaseOrder
<1>3. o \in PurchaseOrder
  BY <1>1 DEF PurchaseOrder, Status
<1>4. Sound(po[p]) /\ po[p].status = "DRAFT"
  BY SoundOrders DEF IInv, PlacePurchaseOrder
<1>5. Sound(o)
  BY <1>1, <1>4 DEF Sound, PurchaseOrder
<1> HIDE DEF o
<1>6. Typed' /\ OneReceiver'
  BY <1>1, <1>2, <1>3, TypedTables DEF IInv, Typed, OneReceiver
<1> QED
  BY <1>2, <1>3, <1>5, <1>6, OrderStep

LEMMA StartCancelKeeps ==
    ASSUME IInv, NEW a \in Session, NEW p \in DOMAIN po, StartCancel(a, p)
    PROVE  IInv'
<1> DEFINE j == [Idle EXCEPT !.pc = "cancel", !.po = p]
<1>1. p \in Nat
  BY TypedTables DEF IInv, Typed
<1>2. j \in Job /\ j.pc = "cancel" /\ j.po = p
  BY <1>1, QuantityTypes DEF Idle, Job
<1>3. Go(a, j) /\ UNCHANGED <<po, onHand, sold, supplier, lock>>
  BY DEF StartCancel
<1>4. OneReceiver'
  BY <1>3, TypedTables DEF IInv, OneReceiver
<1> HIDE DEF j
<1> QED
  BY <1>2, <1>3, <1>4, SessionStep

LEMMA CancelKeeps ==
    ASSUME IInv, NEW a \in Session, CancelPurchaseOrder(a)
    PROVE  IInv'
<1> DEFINE p == job[a].po
           o == [po[p] EXCEPT !.status = "CANCELLED"]
<1>1. p \in DOMAIN po
  BY DEF IInv, Named, CancelPurchaseOrder
<1>2. po \in Seq(PurchaseOrder) /\ po[p] \in PurchaseOrder
  BY <1>1, TypedTables DEF IInv, Typed
<1>3. Go(a, Idle) /\ UNCHANGED <<onHand, sold, supplier, lock>>
  BY DEF CancelPurchaseOrder
<1>4. OneReceiver'
  BY <1>3, TypedTables DEF IInv, OneReceiver
<1>5. CASE Open(p)
  <2>1. po' = [po EXCEPT ![p] = o]
    BY <1>2, <1>5 DEF CancelPurchaseOrder, Cancellable, PurchaseOrder
  <2>2. o \in PurchaseOrder
    BY <1>2 DEF PurchaseOrder, Status
  <2>3. Sound(po[p])
    BY <1>1, SoundOrders DEF IInv
  <2>4. Sound(o)
    BY <1>2, <1>5, <2>3 DEF Sound, Open, PurchaseOrder
  <2> HIDE DEF o, p
  <2>5. Typed'
    BY <1>1, <1>2, <1>3, <2>1, <2>2, QuantityTypes, TypedTables DEF IInv, Typed, Go
  <2> QED
    BY <1>1, <1>3, <1>4, <2>1, <2>2, <2>4, <2>5, OrderStep
<1>6. CASE ~Open(p)
  <2>1. UNCHANGED po
    BY <1>6 DEF CancelPurchaseOrder, Cancellable
  <2> QED
    BY <1>3, <1>4, <2>1, QuantityTypes, SessionStep
<1> QED
  BY <1>5, <1>6

(* The receipt of goods. *)
LEMMA StartReceiveKeeps ==
    ASSUME IInv, NEW a \in Session, NEW p \in DOMAIN po, NEW qty \in [Sku -> 0..MaxQty],
           StartReceive(a, p, qty)
    PROVE  IInv'
<1> DEFINE j == [Idle EXCEPT !.pc = "receive", !.po = p, !.qty = qty, !.seen = po[p].received]
<1>1. p \in Nat /\ po[p] \in PurchaseOrder
  BY TypedTables DEF IInv, Typed
<1>2. \A s \in Sku : po[p].received[s] <= po[p].ordered[s]
  BY DEF IInv, NeverOverReceived
<1>3. po[p].received \in Quantities
  BY <1>1, <1>2, PurchasingAssumption DEF PurchaseOrder, Quantities
<1>4. qty \in Quantities /\ qty # None
  BY QuantityTypes DEF StartReceive
<1>5. /\ j \in Job /\ j.pc = "receive" /\ j.po = p
      /\ \E s \in Sku : j.qty[s] > 0
  BY <1>1, <1>3, <1>4, QuantityTypes, SomethingAsked DEF Idle, Job
<1>6. /\ Go(a, j) /\ UNCHANGED <<po, onHand, sold, supplier>>
      /\ lock' = lock \cup {<<a, p>>} /\ \A h \in lock : h[2] # p
  BY DEF StartReceive, LockFree
<1>7. OneReceiver'
  BY <1>6, TypedTables DEF IInv, OneReceiver
<1> HIDE DEF j
<1> QED
  BY <1>5, <1>6, <1>7, SessionStep

LEMMA WithinLimits ==
    ASSUME NEW received \in [Sku -> Nat], NEW n \in [Sku -> Nat], NEW ordered \in [Sku -> Nat],
           \A s \in Sku : received[s] <= ordered[s],
           \A s \in Sku : n[s] > 0 => n[s] <= ordered[s] - received[s]
    PROVE  LET now == [s \in Sku |-> received[s] + n[s]]
           IN  now \in [Sku -> Nat] /\ \A s \in Sku : now[s] <= ordered[s]
OBVIOUS

LEMMA ReceiveKeeps ==
    ASSUME IInv, NEW a \in Session, ReceivePurchaseOrder(a)
    PROVE  IInv'
<1> DEFINE p == job[a].po
           qty == job[a].qty
           now == [s \in Sku |-> po[p].received[s] + qty[s]]
           o == [po[p] EXCEPT !.received = now, !.status = StatusAfter(po[p].ordered, now)]
<1>1. p \in DOMAIN po /\ \E s \in Sku : qty[s] > 0
  BY DEF IInv, Named, ReceivePurchaseOrder
<1>2. /\ po \in Seq(PurchaseOrder) /\ po[p] \in PurchaseOrder
      /\ qty \in [Sku -> Nat] /\ onHand \in [Sku -> Nat]
  BY <1>1, QuantityTypes, TypedTables DEF IInv, Typed, Job
<1>3. /\ Go(a, Idle) /\ UNCHANGED <<sold, supplier>> /\ lock' \subseteq lock
      /\ onHand' = [s \in Sku |-> onHand[s] + qty[s]]
      /\ \A s \in Sku : qty[s] > 0 => qty[s] <= po[p].ordered[s] - po[p].received[s]
  BY DEF ReceivePurchaseOrder, Fits
<1>4. po' = [po EXCEPT ![p] = o]
  BY <1>2 DEF ReceivePurchaseOrder, Bump, PurchaseOrder
<1>5. /\ po[p].received \in [Sku -> Nat] /\ po[p].ordered \in [Sku -> Nat]
      /\ \A s \in Sku : po[p].received[s] <= po[p].ordered[s]
  BY <1>1, <1>2, QuantityTypes DEF IInv, NeverOverReceived, PurchaseOrder
<1>6. now \in [Sku -> Nat] /\ \A s \in Sku : now[s] <= po[p].ordered[s]
  BY <1>2, <1>3, <1>5, WithinLimits
<1>7. now # None
  BY <1>1, <1>2, <1>5 DEF None
<1>8. StatusAfter(po[p].ordered, now) = IF now = po[p].ordered THEN "RECEIVED" ELSE "PARTIALLY_RECEIVED"
  BY <1>5, <1>6 DEF StatusAfter
<1>9. /\ o \in PurchaseOrder /\ o.received = now /\ o.ordered = po[p].ordered
      /\ o.status = StatusAfter(po[p].ordered, now)
  BY <1>2, <1>6, <1>8 DEF PurchaseOrder, Status
<1>10. Sound(o)
  BY <1>6, <1>7, <1>8, <1>9 DEF Sound
<1> HIDE DEF p, qty, now, o
<1>11. onHand' \in [Sku -> Nat]
  BY <1>2, <1>3
<1>12. Typed' /\ OneReceiver'
  BY <1>1, <1>2, <1>3, <1>4, <1>9, <1>11, QuantityTypes, TypedTables DEF IInv, Typed, OneReceiver, Go
<1>13. UNCHANGED sold /\ \E b \in Session : Go(b, Idle)
  BY <1>3
<1> QED
  BY <1>1, <1>4, <1>9, <1>10, <1>12, <1>13, OrderStep

LEMMA AbortKeeps ==
    ASSUME IInv, NEW a \in Session, Abort(a)
    PROVE  IInv'
<1>1. Go(a, Idle) /\ UNCHANGED <<po, onHand, sold, supplier>> /\ lock' \subseteq lock
  BY DEF Abort
<1>2. OneReceiver'
  BY <1>1, TypedTables DEF IInv, OneReceiver
<1> QED
  BY <1>1, <1>2, QuantityTypes, SessionStep

(* A step that touches neither orders nor sessions. *)
LEMMA OutsideKeeps ==
    ASSUME IInv, SetSupplier \/ (\E s \in Sku : Sell(s)) \/ UNCHANGED vars
    PROVE  IInv'
<1>1. UNCHANGED <<po, lock, job>>
  BY DEF SetSupplier, Sell, vars
<1>2. onHand \in [Sku -> Nat] /\ sold \in [Sku -> Nat] /\ supplier \in BOOLEAN
  BY TypedTables DEF IInv, Typed
<1>3. onHand' \in [Sku -> Nat] /\ sold' \in [Sku -> Nat]
  BY <1>2 DEF SetSupplier, Sell, vars
<1>4. supplier' = supplier \/ supplier' = ~supplier
  BY DEF SetSupplier, Sell, vars
<1>5. supplier' \in BOOLEAN
  BY <1>2, <1>4, Zenon
<1>6. Typed' /\ OneReceiver'
  BY <1>1, <1>3, <1>5, TypedTables DEF IInv, Typed, OneReceiver
<1>7. Named' /\ NeverOverReceived' /\ StatusTellsReceipts'
  BY <1>1 DEF IInv, Named, NeverOverReceived, StatusTellsReceipts
<1> QED
  BY <1>6, <1>7, TypedTables DEF IInv

LEMMA NextKeeps == IInv /\ [Next]_vars => IInv'
<1> SUFFICES ASSUME IInv, [Next]_vars PROVE IInv'
  OBVIOUS
<1>1. ASSUME NEW a \in Session, NEW qty \in [Sku -> 0..MaxQty], CreatePurchaseOrder(a, qty)
      PROVE  IInv'
  <2>1. qty \in Quantities /\ StartDraft(a, qty, FALSE)
    BY <1>1, QuantityTypes DEF CreatePurchaseOrder
  <2> QED
    BY <2>1, StartDraftKeeps
<1>2. ASSUME NEW a \in Session,
             Reorder(a) \/ CheckSupplier(a) \/ InsertDraft(a) \/ CancelPurchaseOrder(a)
                \/ ReceivePurchaseOrder(a) \/ Abort(a)
      PROVE  IInv'
  BY <1>2, ReorderKeeps, CheckSupplierKeeps, InsertDraftKeeps, CancelKeeps, ReceiveKeeps, AbortKeeps
<1>3. ASSUME NEW a \in Session, NEW p \in DOMAIN po,
             \/ StartCancel(a, p)
             \/ \E qty \in [Sku -> 0..MaxQty] : StartReceive(a, p, qty)
      PROVE  IInv'
  BY <1>3, StartCancelKeeps, StartReceiveKeeps
<1>4. ASSUME NEW p \in DOMAIN po, PlacePurchaseOrder(p)
      PROVE  IInv'
  BY <1>4, PlaceKeeps
<1>5. CASE SetSupplier \/ (\E s \in Sku : Sell(s)) \/ UNCHANGED vars
  BY <1>5, OutsideKeeps
<1> QED
  BY <1>1, <1>2, <1>3, <1>4, <1>5 DEF Next

-----------------------------------------------------------------------------
(* What was received, as a set of units. *)

(* The units of an order that came in between two counts. *)
Lot(p, m, n) == {p} \X ((m + 1) .. (m + n))

LEMMA LotSize ==
    ASSUME NEW p, NEW m \in Nat, NEW n \in Nat
    PROVE  IsFiniteSet(Lot(p, m, n)) /\ Cardinality(Lot(p, m, n)) = n
<1>1. IsFiniteSet((m + 1) .. (m + n)) /\ Cardinality((m + 1) .. (m + n)) = n
  BY FS_Interval
<1>2. IsFiniteSet({p}) /\ Cardinality({p}) = 1
  BY FS_Singleton
<1> QED
  BY <1>1, <1>2, FS_Product DEF Lot

(* Orders that received as much as before, and new ones that received nothing, leave the *)
(* units as they are.                                                                      *)
LEMMA SameUnits ==
    ASSUME NEW s \in Sku, DOMAIN po \subseteq DOMAIN po',
           \A p \in DOMAIN po : po'[p].received[s] = po[p].received[s],
           \A p \in DOMAIN po' : p \notin DOMAIN po => po'[p].received[s] = 0
    PROVE  ReceivedUnits(s)' = ReceivedUnits(s)
<1>1. \A p \in DOMAIN po' : p \notin DOMAIN po => {p} \X (1 .. po'[p].received[s]) = {}
  OBVIOUS
<1>2. ReceivedUnits(s)' = UNION {{p} \X (1 .. po'[p].received[s]) : p \in DOMAIN po'}
  BY DEF ReceivedUnits
<1>3. ReceivedUnits(s)' \subseteq ReceivedUnits(s)
  BY <1>1, <1>2 DEF ReceivedUnits
<1>4. ReceivedUnits(s) \subseteq ReceivedUnits(s)'
  BY <1>2 DEF ReceivedUnits
<1> QED
  BY <1>3, <1>4

(* A receipt adds its units to those of its order. *)
LEMMA ReceiptUnits ==
    ASSUME NEW s \in Sku, NEW p \in DOMAIN po, DOMAIN po' = DOMAIN po,
           NEW m \in Nat, NEW n \in Nat,
           po[p].received[s] = m, po'[p].received[s] = m + n,
           \A q \in DOMAIN po : q # p => po'[q].received[s] = po[q].received[s],
           IsFiniteSet(ReceivedUnits(s))
    PROVE  /\ IsFiniteSet(ReceivedUnits(s)')
           /\ Cardinality(ReceivedUnits(s)') = Cardinality(ReceivedUnits(s)) + n
<1>1. ReceivedUnits(s)' = UNION {{q} \X (1 .. po'[q].received[s]) : q \in DOMAIN po}
  BY DEF ReceivedUnits
<1>2. 1 .. (m + n) = (1 .. m) \cup ((m + 1) .. (m + n))
  OBVIOUS
<1>3. {p} \X (1 .. (m + n)) = ({p} \X (1 .. m)) \cup Lot(p, m, n)
  BY <1>2 DEF Lot
<1>4. ReceivedUnits(s)' = ReceivedUnits(s) \cup Lot(p, m, n)
  BY <1>1, <1>3 DEF ReceivedUnits
<1>5. ReceivedUnits(s) \cap Lot(p, m, n) = {}
  <2>1. SUFFICES ASSUME NEW u \in ReceivedUnits(s), u \in Lot(p, m, n) PROVE FALSE
    OBVIOUS
  <2>2. PICK q \in DOMAIN po : u \in {q} \X (1 .. po[q].received[s])
    BY <2>1 DEF ReceivedUnits
  <2>3. q = p /\ u[2] \in 1 .. m /\ u[2] \in (m + 1) .. (m + n)
    BY <2>1, <2>2 DEF Lot
  <2> QED
    BY <2>3
<1>6. IsFiniteSet(Lot(p, m, n)) /\ Cardinality(Lot(p, m, n)) = n
  BY LotSize
<1>7. /\ IsFiniteSet(ReceivedUnits(s) \cup Lot(p, m, n))
      /\ Cardinality(ReceivedUnits(s) \cup Lot(p, m, n)) =
            Cardinality(ReceivedUnits(s)) + Cardinality(Lot(p, m, n)) - Cardinality(ReceivedUnits(s) \cap Lot(p, m, n))
  BY <1>6, FS_Union
<1>8. Cardinality(ReceivedUnits(s) \cap Lot(p, m, n)) = 0 /\ Cardinality(ReceivedUnits(s)) \in Nat
  BY <1>5, FS_EmptySet, FS_CardinalityType
<1> QED
  BY <1>4, <1>6, <1>7, <1>8

(* Steps that receive and sell nothing. *)
LEMMA NothingMoved ==
    ASSUME StockIsWhatWasReceived, UNCHANGED <<onHand, sold>>, DOMAIN po \subseteq DOMAIN po',
           \A p \in DOMAIN po : po'[p].received = po[p].received,
           \A p \in DOMAIN po' : p \notin DOMAIN po => po'[p].received = None
    PROVE  StockIsWhatWasReceived'
<1>1. ASSUME NEW s \in Sku PROVE ReceivedUnits(s)' = ReceivedUnits(s)
  BY SameUnits DEF None
<1> QED
  BY <1>1 DEF StockIsWhatWasReceived

LEMMA StockKept ==
    ASSUME IInv, StockIsWhatWasReceived, [Next]_vars
    PROVE  StockIsWhatWasReceived'
<1>1. po \in Seq(PurchaseOrder) /\ onHand \in [Sku -> Nat] /\ sold \in [Sku -> Nat]
  BY TypedTables DEF IInv, Typed
<1>2. CASE UNCHANGED <<po, onHand, sold>>
  BY <1>2, NothingMoved
<1>3. ASSUME NEW a \in Session, InsertDraft(a)
      PROVE  StockIsWhatWasReceived'
  <2>1. \E o : o.received = None /\ po' = Append(po, o) /\ UNCHANGED <<onHand, sold>>
    BY <1>3 DEF InsertDraft
  <2> QED
    BY <1>1, <2>1, NothingMoved
<1>4. ASSUME NEW p \in DOMAIN po, PlacePurchaseOrder(p)
      PROVE  StockIsWhatWasReceived'
  <2>1. \A q \in DOMAIN po : po'[q].received = po[q].received
    BY <1>1, <1>4 DEF PlacePurchaseOrder, PurchaseOrder
  <2> QED
    BY <1>4, <2>1, NothingMoved DEF PlacePurchaseOrder
<1>5. ASSUME NEW a \in Session, CancelPurchaseOrder(a)
      PROVE  StockIsWhatWasReceived'
  <2>1. job[a].po \in DOMAIN po
    BY <1>5 DEF IInv, Named, CancelPurchaseOrder
  <2>2. DOMAIN po' = DOMAIN po /\ \A q \in DOMAIN po : po'[q].received = po[q].received
    BY <1>1, <1>5, <2>1 DEF CancelPurchaseOrder, PurchaseOrder
  <2> QED
    BY <1>5, <2>2, NothingMoved DEF CancelPurchaseOrder
<1>6. ASSUME NEW a \in Session, ReceivePurchaseOrder(a)
      PROVE  StockIsWhatWasReceived'
  <2> DEFINE p == job[a].po
             qty == job[a].qty
  <2>1. p \in DOMAIN po
    BY <1>6 DEF IInv, Named, ReceivePurchaseOrder
  <2>2. po[p] \in PurchaseOrder /\ job[a] \in Job
    BY <1>1, <2>1, TypedTables DEF IInv, Typed
  <2>3. po[p].received \in [Sku -> Nat] /\ qty \in [Sku -> Nat]
    BY <2>2, QuantityTypes DEF PurchaseOrder, Job
  <2> DEFINE now == [s \in Sku |-> po[p].received[s] + qty[s]]
             o == [po[p] EXCEPT !.received = now, !.status = StatusAfter(po[p].ordered, now)]
  <2>4. po' = [po EXCEPT ![p] = o]
    BY <2>2, <1>6 DEF ReceivePurchaseOrder, Bump, PurchaseOrder
  <2>5. o.received = now
    BY <2>2 DEF PurchaseOrder
  <2>6. /\ DOMAIN po' = DOMAIN po /\ po'[p].received = now
        /\ \A q \in DOMAIN po : q # p => po'[q] = po[q]
    <3> HIDE DEF o, now
    <3> QED
      BY <1>1, <2>1, <2>4, <2>5
  <2>7. onHand' = [s \in Sku |-> onHand[s] + qty[s]] /\ sold' = sold
    BY <1>6 DEF ReceivePurchaseOrder
  <2> HIDE DEF p, qty
  <2>8. ASSUME NEW s \in Sku
        PROVE  /\ IsFiniteSet(ReceivedUnits(s)')
               /\ onHand'[s] + sold'[s] = Cardinality(ReceivedUnits(s)')
    <3>1. po'[p].received[s] = po[p].received[s] + qty[s]
      BY <2>6
    <3>2. po[p].received[s] \in Nat /\ qty[s] \in Nat
      BY <2>3
    <3>3. IsFiniteSet(ReceivedUnits(s)) /\ onHand[s] + sold[s] = Cardinality(ReceivedUnits(s))
      BY DEF StockIsWhatWasReceived
    <3>4. /\ IsFiniteSet(ReceivedUnits(s)')
          /\ Cardinality(ReceivedUnits(s)') = Cardinality(ReceivedUnits(s)) + qty[s]
      BY <2>1, <2>6, <3>1, <3>2, <3>3, ReceiptUnits
    <3>5. onHand'[s] = onHand[s] + qty[s] /\ sold'[s] = sold[s] /\ onHand[s] \in Nat /\ sold[s] \in Nat
      BY <1>1, <2>7
    <3> QED
      BY <3>2, <3>3, <3>4, <3>5
  <2> QED
    BY <2>8 DEF StockIsWhatWasReceived
<1>7. ASSUME NEW s \in Sku, Sell(s)
      PROVE  StockIsWhatWasReceived'
  <2>1. \A k \in Sku : onHand'[k] + sold'[k] = onHand[k] + sold[k]
    BY <1>1, <1>7 DEF Sell
  <2>2. \A k \in Sku : ReceivedUnits(k)' = ReceivedUnits(k)
    BY <1>7 DEF Sell, ReceivedUnits
  <2> QED
    BY <2>1, <2>2 DEF StockIsWhatWasReceived
<1>8. ASSUME NEW a \in Session, NEW p \in DOMAIN po, NEW qty,
             \/ CreatePurchaseOrder(a, qty) \/ Reorder(a) \/ CheckSupplier(a)
             \/ StartCancel(a, p) \/ StartReceive(a, p, qty) \/ Abort(a)
      PROVE  StockIsWhatWasReceived'
  BY <1>2, <1>8 DEF CreatePurchaseOrder, Reorder, StartDraft, CheckSupplier, StartCancel,
       StartReceive, Abort
<1>9. ASSUME NEW a \in Session, NEW qty,
             CreatePurchaseOrder(a, qty) \/ Reorder(a) \/ CheckSupplier(a) \/ Abort(a)
      PROVE  StockIsWhatWasReceived'
  BY <1>2, <1>9 DEF CreatePurchaseOrder, Reorder, StartDraft, CheckSupplier, Abort
<1>10. CASE SetSupplier \/ UNCHANGED vars
  BY <1>2, <1>10 DEF SetSupplier, vars
<1> QED
  BY <1>3, <1>4, <1>5, <1>6, <1>7, <1>8, <1>9, <1>10 DEF Next

LEMMA InitStock == Init => StockIsWhatWasReceived
<1> SUFFICES ASSUME Init PROVE StockIsWhatWasReceived
  OBVIOUS
<1>1. \A s \in Sku : ReceivedUnits(s) = {}
  BY DEF Init, ReceivedUnits
<1>2. \A s \in Sku : onHand[s] + sold[s] = 0
  BY DEF Init, None
<1> QED
  BY <1>1, <1>2, FS_EmptySet DEF StockIsWhatWasReceived

-----------------------------------------------------------------------------
(* The tables and the records of the sessions keep their types, and one session at most *)
(* receives an order.                                                                     *)
THEOREM TypeCorrect == Spec => []TypeOK
<1>1. IInv => TypeOK
  BY DEF IInv
<1> QED
  BY <1>1, InitIInv, NextKeeps, PTL DEF Spec

(* However many sessions receive one order at once, no line takes in more than was ordered. *)
THEOREM WithinTheOrder == Spec => []NeverOverReceived
<1>1. IInv => NeverOverReceived
  BY DEF IInv
<1> QED
  BY <1>1, InitIInv, NextKeeps, PTL DEF Spec

(* However receipts and cancels interleave, an order that is cancelled, or not placed yet, *)
(* has received nothing, and RECEIVED means received in full.                                *)
THEOREM StatusIsTrue == Spec => []StatusTellsReceipts
<1>1. IInv => StatusTellsReceipts
  BY DEF IInv
<1> QED
  BY <1>1, InitIInv, NextKeeps, PTL DEF Spec

(* Whatever receipts abort, are refused or follow one another, and whatever is sold, what *)
(* the lines say was received is what came into the stock.                                 *)
THEOREM StockIsReceipts == Spec => []StockIsWhatWasReceived
<1>1. IInv /\ StockIsWhatWasReceived /\ [Next]_vars => StockIsWhatWasReceived'
  BY StockKept
<1> QED
  BY <1>1, InitIInv, NextKeeps, InitStock, PTL DEF Spec

=============================================================================
