--------------------------- MODULE ShippingProofs ---------------------------
(***************************************************************************)
(* Shipping proved for every set of orders, AWBs, clerks, hooks and reports *)
(* and every number of faults: types, one live shipment per order, no       *)
(* shipment of a cancelled order, that statuses and dates never go back, and*)
(* that the status catches up with the timeline.                            *)
(*                                                                          *)
(* IInv adds to these what the code relies on without saying it: an AWB     *)
(* that has no row is blank, whatever is reported or handled has a row, and *)
(* an order with a row is SHIPPED or DELIVERED.  EventsCarried, for the     *)
(* last of them, says which hook holds an event the status does not show.   *)
(***************************************************************************)
EXTENDS Shipping, TLAPS

(* Only what has a row is ever reported on or handled. *)
RowsExist ==
    /\ \A a \in Awb : shipment[a].order = "none" => shipment[a] = NoRow
    /\ \A r \in reported : shipment[r.awb].order # "none"
    /\ \A h \in Hook : hook[h].pc # "idle" =>
            hook[h].awb \in Awb /\ shipment[hook[h].awb].order # "none"

(* A shipment has taken its order out of PACKED, from where it cannot be cancelled. *)
Underway ==
    \A a \in Awb : shipment[a].order # "none" =>
        order[shipment[a].order].status \in {"SHIPPED", "DELIVERED"}

IInv == TypeOK /\ RowsExist /\ Underway /\ OneLiveShipment

HookRecord ==
    [pc : {"idle", "insert", "check", "deliver", "ack"}, sent : SUBSET Report,
     left : SUBSET Report, awb : Awb \cup {"none"}, high : ShipmentStatus,
     sawDelivered : BOOLEAN, latestAt : Nat]

ShipmentRecord ==
    [order : Order \cup {"none"}, status : ShipmentStatus, deliveredAt : Nat]

OrderRecord ==
    [status : {"PACKED", "SHIPPED", "DELIVERED", "CANCELLED"}, deliveredAt : Nat]

-----------------------------------------------------------------------------
(* The ranks and the keywords.                                             *)

LEMMA Ranks ==
  /\ STATUS_RANK["LABEL_CREATED"] = 1 /\ STATUS_RANK["PICKED_UP"] = 2
  /\ STATUS_RANK["IN_TRANSIT"] = 3 /\ STATUS_RANK["OUT_FOR_DELIVERY"] = 4
  /\ STATUS_RANK["DELIVERED"] = 5 /\ STATUS_RANK["FAILED"] = 6
  /\ STATUS_RANK["RETURNED"] = 7
BY DEF STATUS_RANK

LEMMA HigherIsHigher ==
  ASSUME NEW s \in ShipmentStatus, NEW t \in ShipmentStatus
  PROVE  /\ Higher(s, t) \in ShipmentStatus
         /\ STATUS_RANK[Higher(s, t)] >= STATUS_RANK[s]
         /\ STATUS_RANK[Higher(s, t)] >= STATUS_RANK[t]
BY Ranks DEF Higher, ShipmentStatus

(* The text of a report always has a status: the first hit of the table. *)
LEMMA MapStatusType ==
  ASSUME NEW text
  PROVE  MapStatus(text) \in ShipmentStatus
<1> DEFINE hits == {i \in 1 .. Len(STATUS_KEYWORDS) : STATUS_KEYWORDS[i].words \cap text # {}}
<1>1. Len(STATUS_KEYWORDS) = 7
  BY DEF STATUS_KEYWORDS
<1>2. \A i \in 1 .. 7 : STATUS_KEYWORDS[i].status \in ShipmentStatus
  <2>1. /\ STATUS_KEYWORDS[1].status = "RETURNED" /\ STATUS_KEYWORDS[2].status = "FAILED"
        /\ STATUS_KEYWORDS[3].status = "DELIVERED"
        /\ STATUS_KEYWORDS[4].status = "OUT_FOR_DELIVERY"
        /\ STATUS_KEYWORDS[5].status = "IN_TRANSIT" /\ STATUS_KEYWORDS[6].status = "PICKED_UP"
        /\ STATUS_KEYWORDS[7].status = "LABEL_CREATED"
    BY DEF STATUS_KEYWORDS
  <2>2. \A i \in 1 .. 7 : i = 1 \/ i = 2 \/ i = 3 \/ i = 4 \/ i = 5 \/ i = 6 \/ i = 7
    OBVIOUS
  <2> QED
    BY <2>1, <2>2 DEF ShipmentStatus
<1>3. CASE hits = {}
  BY <1>3 DEF MapStatus, ShipmentStatus
<1>4. CASE hits # {}
  <2>1. hits \subseteq 1 .. 7
    BY <1>1
  <2> HIDE DEF hits
  <2>2. \E i \in hits : \A k \in hits : i <= k
    <3>1. CASE 1 \in hits  BY <2>1, <3>1
    <3>2. CASE 1 \notin hits /\ 2 \in hits  BY <2>1, <3>2
    <3>3. CASE {1, 2} \cap hits = {} /\ 3 \in hits  BY <2>1, <3>3
    <3>4. CASE {1, 2, 3} \cap hits = {} /\ 4 \in hits  BY <2>1, <3>4
    <3>5. CASE {1, 2, 3, 4} \cap hits = {} /\ 5 \in hits  BY <2>1, <3>5
    <3>6. CASE {1, 2, 3, 4, 5} \cap hits = {} /\ 6 \in hits  BY <2>1, <3>6
    <3>7. CASE {1, 2, 3, 4, 5, 6} \cap hits = {}
      <4>1. PICK i \in hits : i \notin {1, 2, 3, 4, 5, 6}
        BY <1>4, <3>7
      <4>2. i = 7
        BY <2>1, <4>1
      <4> QED
        BY <2>1, <3>7, <4>1, <4>2
    <3> QED
      BY <3>1, <3>2, <3>3, <3>4, <3>5, <3>6, <3>7
  <2>3. (CHOOSE i \in hits : \A k \in hits : i <= k) \in 1 .. 7
    BY <2>1, <2>2
  <2>4. MapStatus(text) = STATUS_KEYWORDS[CHOOSE i \in hits : \A k \in hits : i <= k].status
    BY <1>4 DEF MapStatus, hits
  <2> QED
    BY <1>2, <2>3, <2>4
<1> QED
  BY <1>3, <1>4

LEMMA StampType ==
  ASSUME NEW s \in Nat, NEW at \in Nat
  PROVE  Stamp(s, at) \in Nat /\ (s # 0 => Stamp(s, at) = s)
BY DEF Stamp

LEMMA InitIInv == Init => IInv
<1> SUFFICES ASSUME Init PROVE IInv
  OBVIOUS
<1>1. NoRow \in ShipmentRecord /\ NoRow.order = "none"
  BY DEF NoRow, ShipmentRecord, ShipmentStatus
<1>2. Idle \in HookRecord /\ Idle.pc = "idle"
  BY DEF Idle, HookRecord, ShipmentStatus
<1>3. TypeOK
  <2>1. order \in [Order -> OrderRecord]
    BY DEF Init, OrderRecord
  <2>2. shipment \in [Awb -> ShipmentRecord] /\ hook \in [Hook -> HookRecord]
    BY <1>1, <1>2 DEF Init
  <2> QED
    BY <2>1, <2>2, ShippingAssumption DEF Init, TypeOK, OrderRecord, ShipmentRecord, HookRecord
<1>4. RowsExist /\ Underway
  BY <1>1, <1>2 DEF Init, RowsExist, Underway
<1>5. OneLiveShipment
  BY <1>1, ShippingAssumption DEF Init, OneLiveShipment, Live
<1> QED
  BY <1>3, <1>4, <1>5 DEF IInv

-----------------------------------------------------------------------------
(* The admin and the clerks.                                               *)

LEMMA AdminIInv ==
  ASSUME IInv, NEW o \in Order, NEW to \in {"SHIPPED", "DELIVERED", "CANCELLED"},
         AdminTransition(o, to)
  PROVE  IInv'
<1>1. order[o] \in OrderRecord /\ order \in [Order -> OrderRecord]
  BY DEF IInv, TypeOK, OrderRecord
<1>2. Transitioned(o, to, 0) \in OrderRecord /\ Transitioned(o, to, 0).status = to
  <2>1. Stamp(order[o].deliveredAt, IF to = "DELIVERED" THEN 0 ELSE 0) \in Nat
    BY <1>1, StampType DEF OrderRecord
  <2> QED
    BY <1>1, <2>1 DEF AdminTransition, Transitioned, OrderRecord
<1>3. /\ order' = [order EXCEPT ![o] = Transitioned(o, to, 0)]
      /\ UNCHANGED <<shipment, timeline, reported, outbox, clerk, hook, faults>>
  BY DEF AdminTransition
<1>4. order' \in [Order -> OrderRecord]
  BY <1>1, <1>2, <1>3
<1>5. TypeOK'
  BY <1>3, <1>4 DEF IInv, TypeOK, OrderRecord
<1>6. RowsExist' /\ OneLiveShipment'
  BY <1>3 DEF IInv, RowsExist, OneLiveShipment, Live
<1>7. Underway'
  <2> SUFFICES ASSUME NEW a \in Awb, shipment[a].order # "none"
               PROVE  order'[shipment[a].order].status \in {"SHIPPED", "DELIVERED"}
    BY <1>3 DEF Underway
  <2>1. /\ shipment[a].order \in Order
        /\ order[shipment[a].order].status \in {"SHIPPED", "DELIVERED"}
    BY DEF IInv, TypeOK, Underway
  <2>2. CASE shipment[a].order = o
    <3>1. to # "CANCELLED"
      BY <2>1, <2>2 DEF AdminTransition, Legal, ALLOWED_TRANSITIONS
    <3> QED
      BY <1>1, <1>2, <1>3, <2>2, <3>1
  <2>3. CASE shipment[a].order # o
    BY <1>1, <1>3, <2>1, <2>3
  <2> QED
    BY <2>2, <2>3
<1> QED
  BY <1>5, <1>6, <1>7 DEF IInv

LEMMA ReadOrderIInv ==
  ASSUME IInv, NEW c \in Clerk, NEW o \in Order, ReadOrder(c, o)
  PROVE  IInv'
BY DEF IInv, ReadOrder, TypeOK, RowsExist, Underway, OneLiveShipment, Live

LEMMA ShipIInv ==
  ASSUME IInv, NEW c \in Clerk, NEW a \in Awb, Ship(c, a)
  PROVE  IInv'
<1>0. PICK o \in Order : o = clerk[c]
  BY DEF Ship, IInv, TypeOK
<1>1. /\ UNCHANGED <<timeline, reported, outbox, hook, faults>>
      /\ clerk' = [clerk EXCEPT ![c] = "none"]
  BY DEF Ship
<1>2. order \in [Order -> OrderRecord] /\ shipment \in [Awb -> ShipmentRecord]
  BY DEF IInv, TypeOK, OrderRecord, ShipmentRecord
<1>3. CASE UNCHANGED <<order, shipment>>
  BY <1>1, <1>3 DEF IInv, TypeOK, RowsExist, Underway, OneLiveShipment, Live
<1>4. CASE /\ NotShipped(o) /\ Legal(order[o].status, "SHIPPED") /\ shipment[a].order = "none"
           /\ order' = [order EXCEPT ![o] = Transitioned(o, "SHIPPED", 0)]
           /\ shipment' = [shipment EXCEPT ![a] = NewShipment(o)]
  <2>1. /\ NewShipment(o) \in ShipmentRecord
        /\ NewShipment(o).order = o
    BY <1>1 DEF NewShipment, NoRow, ShipmentRecord, ShipmentStatus
  <2>2. Transitioned(o, "SHIPPED", 0) \in OrderRecord
    <3>1. Stamp(order[o].deliveredAt, 0) \in Nat
      BY <1>1, <1>2, StampType DEF OrderRecord
    <3> QED
      BY <1>1, <1>2, <3>1 DEF Transitioned, OrderRecord
  <2>3. Transitioned(o, "SHIPPED", 0).status = "SHIPPED"
    BY DEF Transitioned
  <2>4. /\ order' \in [Order -> OrderRecord] /\ order'[o].status = "SHIPPED"
        /\ \A x \in Order \ {o} : order'[x] = order[x]
    BY <1>1, <1>2, <1>4, <2>2, <2>3
  <2>5. /\ shipment' \in [Awb -> ShipmentRecord] /\ shipment'[a] = NewShipment(o)
        /\ \A b \in Awb \ {a} : shipment'[b] = shipment[b]
    BY <1>2, <1>4, <2>1
  <2>6. TypeOK'
    BY <1>1, <2>4, <2>5 DEF IInv, TypeOK, OrderRecord, ShipmentRecord
  <2>7. o # "none"
    BY ShippingAssumption
  <2>8. RowsExist'
    <3>1. \A r \in reported : r.awb \in Awb
      BY ShippingAssumption DEF IInv, TypeOK
    <3> QED
      BY <1>1, <2>1, <2>5, <2>7, <3>1 DEF IInv, RowsExist
  <2>9. Underway'
    <3> SUFFICES ASSUME NEW b \in Awb, shipment'[b].order # "none"
                 PROVE  order'[shipment'[b].order].status \in {"SHIPPED", "DELIVERED"}
      BY DEF Underway
    <3>1. CASE b = a
      BY <2>1, <2>4, <2>5, <3>1
    <3>2. CASE b # a
      <4>1. shipment'[b] = shipment[b] /\ shipment[b].order \in Order
        BY <1>2, <2>5, <3>2 DEF ShipmentRecord
      <4> QED
        BY <2>4, <4>1 DEF IInv, Underway
    <3> QED
      BY <3>1, <3>2
  <2>10. OneLiveShipment'
    <3> SUFFICES ASSUME NEW x \in Order, NEW b1 \in Live(x)', NEW b2 \in Live(x)'
                 PROVE  b1 = b2
      BY DEF OneLiveShipment
    <3>1. CASE x = o
      <4>1. Live(o) = {}
        BY <1>4 DEF NotShipped
      <4>2. Live(o)' \subseteq {a}
        BY <2>5, <4>1 DEF Live
      <4> QED
        BY <3>1, <4>2
    <3>2. CASE x # o
      <4>1. Live(x)' \subseteq Live(x)
        BY <2>1, <2>5, <3>2 DEF Live
      <4> QED
        BY <4>1 DEF IInv, OneLiveShipment
    <3> QED
      BY <3>1, <3>2
  <2> QED
    BY <2>6, <2>8, <2>9, <2>10 DEF IInv
<1> QED
  BY <1>0, <1>3, <1>4 DEF Ship

-----------------------------------------------------------------------------
(* The courier and the hooks.                                              *)

LEMMA HappenIInv ==
  ASSUME IInv, NEW r \in Report, Happen(r)
  PROVE  IInv'
BY DEF IInv, Happen, TypeOK, RowsExist, Underway, OneLiveShipment, Live

(* A step that changes hook h, and no table but the timeline, the outbox and the faults. *)
LEMMA HookIInv ==
  ASSUME IInv, NEW h \in Hook, NEW j \in HookRecord,
         hook' = [hook EXCEPT ![h] = j],
         j.pc # "idle" => j.awb \in Awb /\ shipment[j.awb].order # "none",
         UNCHANGED <<order, shipment, reported, clerk>>,
         timeline' \in [Report -> Nat], outbox' \subseteq reported, faults' \in 0 .. MaxFaults
  PROVE  IInv'
<1>1. hook' \in [Hook -> HookRecord]
  BY DEF IInv, TypeOK, HookRecord
<1>2. TypeOK'
  BY <1>1 DEF IInv, TypeOK, HookRecord
<1>3. RowsExist'
  BY DEF IInv, TypeOK, RowsExist
<1> QED
  BY <1>2, <1>3 DEF IInv, Underway, OneLiveShipment, Live

LEMMA HookState ==
  ASSUME IInv, NEW h \in Hook
  PROVE  /\ hook[h] \in HookRecord
         /\ hook[h].pc # "idle" =>
                /\ hook[h].awb \in Awb
                /\ shipment[hook[h].awb] \in ShipmentRecord
                /\ shipment[hook[h].awb].order \in Order
                /\ order[shipment[hook[h].awb].order] \in OrderRecord
BY DEF IInv, TypeOK, RowsExist, HookRecord, ShipmentRecord, OrderRecord

LEMMA ReceiveIInv ==
  ASSUME IInv, NEW h \in Hook, NEW p \in SUBSET outbox, Receive(h, p)
  PROVE  IInv'
<1>1. PICK a \in Awb :
        /\ \A r \in p : r.awb = a
        /\ hook' = [hook EXCEPT ![h] =
                [Idle EXCEPT !.pc = "insert", !.sent = p, !.left = p, !.awb = a,
                             !.high = shipment[a].status]]
  BY DEF Receive
<1> DEFINE j == [Idle EXCEPT !.pc = "insert", !.sent = p, !.left = p, !.awb = a,
                             !.high = shipment[a].status]
<1>2. p # {} /\ UNCHANGED <<shipment, order, timeline, reported, outbox, clerk, faults>>
  BY DEF Receive
<1>3. p \subseteq Report /\ p \subseteq reported /\ shipment[a].status \in ShipmentStatus
  BY DEF IInv, TypeOK
<1>4. shipment[a].order # "none"
  BY <1>1, <1>2, <1>3 DEF IInv, RowsExist
<1>5. j \in HookRecord /\ j.awb = a
  BY <1>3 DEF Idle, HookRecord
<1>6. timeline \in [Report -> Nat] /\ outbox \subseteq reported /\ faults \in 0 .. MaxFaults
  BY DEF IInv, TypeOK
<1> HIDE DEF j
<1> QED
  BY <1>1, <1>2, <1>4, <1>5, <1>6, HookIInv DEF j

LEMMA InsertEventIInv ==
  ASSUME IInv, NEW h \in Hook, NEW r \in hook[h].left, InsertEvent(h, r)
  PROVE  IInv'
<1> DEFINE j == hook[h]
           seen == [j EXCEPT
                      !.high = Higher(@, MapStatus(r.text)),
                      !.sawDelivered = Saw(j, r),
                      !.latestAt = IF MapStatus(r.text) = "DELIVERED" /\ r.at > @ THEN r.at ELSE @]
<1>1. j \in HookRecord /\ r \in Report /\ r.at \in Nat
  BY HookState, ShippingAssumption DEF HookRecord
<1>2. j.pc = "insert" /\ j.awb \in Awb /\ shipment[j.awb].order # "none"
  BY DEF InsertEvent, IInv, RowsExist
<1>3. Higher(j.high, MapStatus(r.text)) \in ShipmentStatus
  BY <1>1, HigherIsHigher, MapStatusType DEF HookRecord
<1>4. Saw(j, r) \in BOOLEAN
  BY <1>1 DEF Saw, HookRecord
<1>5. seen \in HookRecord /\ seen.pc = "insert" /\ seen.awb = j.awb /\ seen.left = j.left
  BY <1>1, <1>2, <1>3, <1>4 DEF HookRecord
<1>6. /\ UNCHANGED <<order, shipment, reported, outbox, clerk, faults>>
      /\ timeline \in [Report -> Nat] /\ outbox \subseteq reported /\ faults \in 0 .. MaxFaults
  BY DEF InsertEvent, IInv, TypeOK
<1>7. timeline' \in [Report -> Nat]
  BY <1>1, <1>6 DEF InsertEvent
<1>8. CASE hook' = [hook EXCEPT ![h].left = @ \ {r}]
  <2>1. [j EXCEPT !.left = @ \ {r}] \in HookRecord
    BY <1>1 DEF HookRecord
  <2>2. [j EXCEPT !.left = @ \ {r}].awb = j.awb
    BY <1>1 DEF HookRecord
  <2> QED
    BY <1>2, <1>6, <1>7, <1>8, <2>1, <2>2, HookIInv
<1>9. CASE hook' = [hook EXCEPT ![h] = [seen EXCEPT !.left = @ \ {r}]]
  <2> HIDE DEF seen
  <2>1. [seen EXCEPT !.left = @ \ {r}] \in HookRecord
    BY <1>5 DEF HookRecord
  <2>2. [seen EXCEPT !.left = @ \ {r}].awb = j.awb
    BY <1>5 DEF HookRecord
  <2> QED
    BY <1>2, <1>6, <1>7, <1>9, <2>1, <2>2, HookIInv
<1> QED
  BY <1>8, <1>9 DEF InsertEvent

(* What Advance does to a row: nothing is lost, and the status only rises. *)
LEMMA AdvancedRow ==
  ASSUME IInv, NEW h \in Hook, hook[h].pc # "idle"
  PROVE  /\ Advanced(hook[h].awb, hook[h]) \in ShipmentRecord
         /\ Advanced(hook[h].awb, hook[h]).order = shipment[hook[h].awb].order
         /\ STATUS_RANK[Advanced(hook[h].awb, hook[h]).status]
                >= STATUS_RANK[shipment[hook[h].awb].status]
         /\ shipment[hook[h].awb].deliveredAt # 0 =>
                Advanced(hook[h].awb, hook[h]).deliveredAt = shipment[hook[h].awb].deliveredAt
<1> DEFINE j == hook[h]
           row == shipment[j.awb]
           at == IF STATUS_RANK[j.high] >= 5 THEN j.latestAt ELSE 0
<1>1. j \in HookRecord /\ row \in ShipmentRecord
  BY HookState
<1>2. /\ Higher(row.status, j.high) \in ShipmentStatus
      /\ STATUS_RANK[Higher(row.status, j.high)] >= STATUS_RANK[row.status]
  BY <1>1, HigherIsHigher DEF HookRecord, ShipmentRecord
<1>3. Stamp(row.deliveredAt, at) \in Nat
      /\ (row.deliveredAt # 0 => Stamp(row.deliveredAt, at) = row.deliveredAt)
  BY <1>1, StampType DEF HookRecord, ShipmentRecord
<1>4. Advanced(j.awb, j) = [row EXCEPT !.status = Higher(row.status, j.high),
                                      !.deliveredAt = Stamp(row.deliveredAt, at)]
  BY DEF Advanced
<1> HIDE DEF j, row, at
<1>5. /\ Advanced(j.awb, j) \in ShipmentRecord
      /\ Advanced(j.awb, j).order = row.order
      /\ Advanced(j.awb, j).status = Higher(row.status, j.high)
      /\ Advanced(j.awb, j).deliveredAt = Stamp(row.deliveredAt, at)
  BY <1>1, <1>2, <1>3, <1>4 DEF ShipmentRecord
<1> QED
  BY <1>2, <1>3, <1>5 DEF j, row

LEMMA AdvanceIInv ==
  ASSUME IInv, NEW h \in Hook, Advance(h)
  PROVE  IInv'
<1>1. PICK a \in Awb, new \in ShipmentRecord :
        /\ shipment' = [shipment EXCEPT ![a] = new]
        /\ new.order = shipment[a].order /\ shipment[a].order # "none"
        /\ STATUS_RANK[new.status] >= STATUS_RANK[shipment[a].status]
  <2>1. hook[h].pc # "idle" /\ shipment[hook[h].awb].order # "none"
    BY DEF Advance, IInv, RowsExist
  <2> QED
    BY <2>1, HookState, AdvancedRow DEF Advance
<1>2. PICK pc \in {"check", "ack"} : hook' = [hook EXCEPT ![h].pc = pc]
  BY DEF Advance
<1>3. /\ hook[h] \in HookRecord
      /\ hook[h].awb \in Awb /\ shipment[hook[h].awb].order # "none"
  BY HookState DEF Advance, IInv, RowsExist
<1>4. hook' \in [Hook -> HookRecord] /\ hook'[h].awb = hook[h].awb
      /\ \A g \in Hook \ {h} : hook'[g] = hook[g]
  BY <1>2, <1>3 DEF IInv, TypeOK, HookRecord
<1>5. /\ shipment' \in [Awb -> ShipmentRecord] /\ shipment'[a] = new
      /\ \A b \in Awb \ {a} : shipment'[b] = shipment[b]
  BY <1>1 DEF IInv, TypeOK, ShipmentRecord
<1>6. \A b \in Awb : shipment'[b].order = shipment[b].order
  BY <1>1, <1>5
<1>7. UNCHANGED <<order, timeline, reported, outbox, clerk, faults>>
  BY DEF Advance
<1>8. TypeOK'
  BY <1>4, <1>5, <1>7 DEF IInv, TypeOK, HookRecord, ShipmentRecord
<1>9. RowsExist'
  <2>1. \A r \in reported : r.awb \in Awb
    BY ShippingAssumption DEF IInv, TypeOK
  <2>2. \A b \in Awb : shipment'[b].order = "none" => shipment'[b] = NoRow
    BY <1>1, <1>5, <1>6 DEF IInv, RowsExist
  <2>3. \A r \in reported' : shipment'[r.awb].order # "none"
    BY <1>6, <1>7, <2>1 DEF IInv, RowsExist
  <2>4. \A g \in Hook : hook'[g].pc # "idle" =>
            hook'[g].awb \in Awb /\ shipment'[hook'[g].awb].order # "none"
    BY <1>3, <1>4, <1>6 DEF IInv, RowsExist
  <2> QED
    BY <2>2, <2>3, <2>4 DEF RowsExist
<1>10. Underway'
  BY <1>6, <1>7 DEF IInv, Underway
<1>11. OneLiveShipment'
  <2>1. \A b \in Awb : shipment'[b].status \notin {"FAILED", "RETURNED"}
                         => shipment[b].status \notin {"FAILED", "RETURNED"}
    <3> SUFFICES ASSUME shipment[a].status \in {"FAILED", "RETURNED"}
                 PROVE  new.status \in {"FAILED", "RETURNED"}
      BY <1>5
    <3> QED
      BY <1>1, Ranks DEF ShipmentRecord, ShipmentStatus
  <2>2. \A o \in Order : Live(o)' \subseteq Live(o)
    BY <1>6, <2>1 DEF Live
  <2> QED
    BY <2>2 DEF IInv, OneLiveShipment
<1> QED
  BY <1>8, <1>9, <1>10, <1>11 DEF IInv

LEMMA CheckOrderIInv ==
  ASSUME IInv, NEW h \in Hook, CheckOrder(h)
  PROVE  IInv'
<1>1. PICK pc \in {"deliver", "ack"} : hook' = [hook EXCEPT ![h] = [hook[h] EXCEPT !.pc = pc]]
  BY HookState DEF CheckOrder
<1>2. /\ [hook[h] EXCEPT !.pc = pc] \in HookRecord
      /\ [hook[h] EXCEPT !.pc = pc].awb = hook[h].awb
  BY HookState DEF HookRecord
<1>3. hook[h].awb \in Awb /\ shipment[hook[h].awb].order # "none"
  BY DEF CheckOrder, IInv, RowsExist
<1>4. /\ UNCHANGED <<order, shipment, timeline, reported, outbox, clerk, faults>>
      /\ timeline \in [Report -> Nat] /\ outbox \subseteq reported /\ faults \in 0 .. MaxFaults
  BY DEF CheckOrder, IInv, TypeOK
<1> QED
  BY <1>1, <1>2, <1>3, <1>4, HookIInv

LEMMA AcknowledgeIInv ==
  ASSUME IInv, NEW h \in Hook, Acknowledge(h) \/ Die(h)
  PROVE  IInv'
<1>1. Idle \in HookRecord /\ Idle.pc = "idle"
  BY DEF Idle, HookRecord, ShipmentStatus
<1>2. /\ timeline \in [Report -> Nat] /\ outbox \subseteq reported /\ faults \in 0 .. MaxFaults
      /\ MaxFaults \in Nat
  BY ShippingAssumption DEF IInv, TypeOK
<1>3. /\ hook' = [hook EXCEPT ![h] = Idle]
      /\ UNCHANGED <<order, shipment, timeline, reported, clerk>>
  BY DEF Acknowledge, Die
<1>4. outbox' \subseteq outbox
  BY DEF Acknowledge, Die
<1>5. faults' \in 0 .. MaxFaults
  BY <1>2 DEF Acknowledge, Die, Fault
<1> QED
  BY <1>1, <1>2, <1>3, <1>4, <1>5, HookIInv

LEMMA DeliverIInv ==
  ASSUME IInv, NEW h \in Hook, Deliver(h)
  PROVE  IInv'
<1>1. PICK o \in Order : o = shipment[hook[h].awb].order
  BY HookState DEF Deliver
<1>2. /\ hook[h] \in HookRecord /\ hook[h].awb \in Awb /\ shipment[hook[h].awb].order # "none"
      /\ order[o] \in OrderRecord /\ order \in [Order -> OrderRecord]
  BY <1>1, HookState DEF Deliver, IInv, RowsExist, TypeOK, OrderRecord
<1>3. PICK new \in OrderRecord :
        /\ order' = [order EXCEPT ![o] = new]
        /\ new.status = "DELIVERED" \/ new = order[o]
  <2>1. CASE order' = [order EXCEPT ![o] = Transitioned(o, "DELIVERED", hook[h].latestAt)]
    <3>1. Stamp(order[o].deliveredAt, hook[h].latestAt) \in Nat
      BY <1>2, StampType DEF OrderRecord, HookRecord
    <3>2. Transitioned(o, "DELIVERED", hook[h].latestAt) \in OrderRecord
          /\ Transitioned(o, "DELIVERED", hook[h].latestAt).status = "DELIVERED"
      BY <1>2, <3>1 DEF Transitioned, OrderRecord
    <3> QED
      BY <2>1, <3>2
  <2>2. CASE order' = order
    BY <1>2, <2>2
  <2> QED
    BY <1>1, <2>1, <2>2 DEF Deliver
<1>4. /\ order' \in [Order -> OrderRecord] /\ order'[o] = new
      /\ \A x \in Order \ {o} : order'[x] = order[x]
  BY <1>2, <1>3
<1>5. hook' \in [Hook -> HookRecord] /\ hook'[h].awb = hook[h].awb
      /\ \A g \in Hook \ {h} : hook'[g] = hook[g]
  BY <1>2 DEF Deliver, IInv, TypeOK, HookRecord
<1>6. UNCHANGED <<shipment, timeline, reported, outbox, clerk>>
  BY DEF Deliver
<1>7. faults' \in 0 .. MaxFaults
  BY ShippingAssumption DEF Deliver, Fault, IInv, TypeOK
<1>8. TypeOK'
  BY <1>4, <1>5, <1>6, <1>7 DEF IInv, TypeOK, HookRecord, OrderRecord
<1>9. RowsExist' /\ OneLiveShipment'
  BY <1>2, <1>5, <1>6 DEF IInv, RowsExist, OneLiveShipment, Live
<1>10. Underway'
  <2> SUFFICES ASSUME NEW a \in Awb, shipment[a].order # "none"
               PROVE  order'[shipment[a].order].status \in {"SHIPPED", "DELIVERED"}
    BY <1>6 DEF Underway
  <2>1. /\ shipment[a].order \in Order
        /\ order[shipment[a].order].status \in {"SHIPPED", "DELIVERED"}
    BY DEF IInv, TypeOK, Underway
  <2> QED
    BY <1>3, <1>4, <2>1
<1> QED
  BY <1>8, <1>9, <1>10 DEF IInv

-----------------------------------------------------------------------------
(* Every step.                                                             *)

LEMMA NextIInv == IInv /\ [Next]_vars => IInv'
<1> SUFFICES ASSUME IInv, [Next]_vars PROVE IInv'
  OBVIOUS
<1>1. CASE \E o \in Order, to \in {"SHIPPED", "DELIVERED", "CANCELLED"} : AdminTransition(o, to)
  BY <1>1, AdminIInv
<1>2. CASE \E c \in Clerk, o \in Order : ReadOrder(c, o)
  BY <1>2, ReadOrderIInv
<1>3. CASE \E c \in Clerk, a \in Awb : Ship(c, a)
  BY <1>3, ShipIInv
<1>4. CASE \E r \in Report : Happen(r)
  BY <1>4, HappenIInv
<1>5. CASE \E h \in Hook : Handle(h) \/ Die(h)
  <2>1. PICK h \in Hook : Handle(h) \/ Die(h)
    BY <1>5
  <2>2. CASE \E p \in SUBSET outbox : Receive(h, p)
    BY <2>2, ReceiveIInv
  <2>3. CASE \E r \in hook[h].left : InsertEvent(h, r)
    BY <2>3, InsertEventIInv
  <2>4. CASE Advance(h)
    BY <2>4, AdvanceIInv
  <2>5. CASE CheckOrder(h)
    BY <2>5, CheckOrderIInv
  <2>6. CASE Deliver(h)
    BY <2>6, DeliverIInv
  <2>7. CASE Acknowledge(h) \/ Die(h)
    BY <2>7, AcknowledgeIInv
  <2> QED
    BY <2>1, <2>2, <2>3, <2>4, <2>5, <2>6, <2>7 DEF Handle
<1>6. CASE UNCHANGED vars
  BY <1>6 DEF vars, IInv, TypeOK, RowsExist, Underway, OneLiveShipment, Live
<1> QED
  BY <1>1, <1>2, <1>3, <1>4, <1>5, <1>6 DEF Next

LEMMA Invariance == Spec => []IInv
<1>1. Init => IInv
  BY InitIInv
<1>2. IInv /\ [Next]_vars => IInv'
  BY NextIInv
<1> QED
  BY <1>1, <1>2, PTL DEF Spec

(* Every variable of ShippingService, its tables and its handlers keeps its type, the *)
(* status a report's text is mapped to included.                                      *)
THEOREM TypeCorrect == Spec => []TypeOK
<1>1. IInv => TypeOK
  BY DEF IInv
<1> QED
  BY <1>1, Invariance, PTL

(* However many clerks have found the order PACKED, ship() never gives it two parcels *)
(* on their way.                                                                      *)
THEOREM OneParcel == Spec => []OneLiveShipment
<1>1. IInv => OneLiveShipment
  BY DEF IInv
<1> QED
  BY <1>1, Invariance, PTL

(* The order of a shipment is never cancelled: not by the admin between the read of *)
(* the clerk and the transaction of ship(), nor after it.                           *)
THEOREM NeverShippedCancelled == Spec => []CancelledIsNotShipped
<1>1. IInv => CancelledIsNotShipped
  BY DEF IInv, Underway, CancelledIsNotShipped
<1> QED
  BY <1>1, Invariance, PTL

-----------------------------------------------------------------------------
(* Statuses rise and dates stay.                                           *)

(* A row of shipment only changes from blank, or by Advance. *)
LEMMA ShipmentRises ==
  ASSUME IInv, [Next]_vars, NEW a \in Awb
  PROVE  /\ STATUS_RANK[shipment'[a].status] >= STATUS_RANK[shipment[a].status]
         /\ shipment[a].deliveredAt # 0 => shipment'[a].deliveredAt = shipment[a].deliveredAt
<1>1. shipment \in [Awb -> ShipmentRecord]
  BY DEF IInv, TypeOK, ShipmentRecord
<1>2. CASE shipment'[a] = shipment[a]
  <2>1. STATUS_RANK[shipment[a].status] \in Nat
    BY <1>1, Ranks DEF ShipmentRecord, ShipmentStatus
  <2> QED
    BY <1>2, <2>1
<1>3. CASE \E c \in Clerk, b \in Awb : Ship(c, b)
  <2>1. PICK c \in Clerk, b \in Awb : Ship(c, b)
    BY <1>3
  <2>2. CASE b = a /\ shipment[a].order = "none" /\ shipment' = [shipment EXCEPT ![a] = NewShipment(clerk[c])]
    <3>1. shipment[a] = NoRow
      BY <2>2 DEF IInv, RowsExist
    <3>2. NewShipment(clerk[c]).status = "LABEL_CREATED" /\ NoRow.status = "LABEL_CREATED"
          /\ NoRow.deliveredAt = 0
      BY DEF NewShipment, NoRow
    <3> QED
      BY <1>1, <2>2, <3>1, <3>2, Ranks
  <2>3. CASE shipment'[a] = shipment[a]
    BY <1>2, <2>3
  <2> QED
    BY <1>1, <2>1, <2>2, <2>3 DEF Ship
<1>4. CASE \E h \in Hook : Advance(h)
  <2>1. PICK h \in Hook : Advance(h)
    BY <1>4
  <2>2. hook[h].pc # "idle"
    BY <2>1 DEF Advance
  <2>3. CASE hook[h].awb = a
    <3>1. shipment'[a] = Advanced(hook[h].awb, hook[h])
      BY <1>1, <2>1, <2>3 DEF Advance
    <3> QED
      BY <2>2, <2>3, <3>1, AdvancedRow
  <2>4. CASE hook[h].awb # a
    BY <1>1, <1>2, <2>1, <2>4 DEF Advance
  <2> QED
    BY <2>3, <2>4
<1>5. CASE UNCHANGED shipment
  BY <1>2, <1>5
<1>6. \/ \E c \in Clerk, b \in Awb : Ship(c, b)
      \/ \E h \in Hook : Advance(h)
      \/ UNCHANGED shipment
  BY DEF Next, Handle, vars, AdminTransition, ReadOrder, Happen, Receive, InsertEvent,
         CheckOrder, Deliver, Acknowledge, Die
<1> QED
  BY <1>3, <1>4, <1>5, <1>6

(* Every step that writes an order does so through Transitioned. *)
LEMMA OrderStays ==
  ASSUME IInv, [Next]_vars, NEW o \in Order, order[o].deliveredAt # 0
  PROVE  order'[o].deliveredAt = order[o].deliveredAt
<1>1. order \in [Order -> OrderRecord]
  BY DEF IInv, TypeOK, OrderRecord
<1>2. \A to, at : Transitioned(o, to, at).deliveredAt = order[o].deliveredAt
  BY <1>1 DEF Transitioned, Stamp, OrderRecord
<1>3. \/ \E x, to, at : order' = [order EXCEPT ![x] = Transitioned(x, to, at)]
      \/ UNCHANGED order
  <2>1. CASE \E x \in Order, to \in {"SHIPPED", "DELIVERED", "CANCELLED"} : AdminTransition(x, to)
    BY <2>1 DEF AdminTransition
  <2>2. CASE \E c \in Clerk, a \in Awb : Ship(c, a)
    BY <2>2 DEF Ship
  <2>3. CASE \E h \in Hook : Deliver(h)
    BY <2>3 DEF Deliver
  <2>4. \/ \E x \in Order, to \in {"SHIPPED", "DELIVERED", "CANCELLED"} : AdminTransition(x, to)
        \/ \E c \in Clerk, a \in Awb : Ship(c, a)
        \/ \E h \in Hook : Deliver(h)
        \/ UNCHANGED order
    BY DEF Next, Handle, vars, ReadOrder, Happen, Receive, InsertEvent, Advance,
           CheckOrder, Acknowledge, Die
  <2> QED
    BY <2>1, <2>2, <2>3, <2>4
<1>4. CASE \E x, to, at : order' = [order EXCEPT ![x] = Transitioned(x, to, at)]
  <2>1. PICK x, to, at : order' = [order EXCEPT ![x] = Transitioned(x, to, at)]
    BY <1>4
  <2>2. CASE x = o
    BY <1>1, <1>2, <2>1, <2>2
  <2>3. CASE x # o
    BY <1>1, <2>1, <2>3
  <2> QED
    BY <2>2, <2>3
<1> QED
  BY <1>3, <1>4

(* However the events of the courier are grouped, repeated and interleaved, no step takes *)
(* the status of a shipment to a lower rank.                                              *)
THEOREM StatusRises == Spec => NeverRegresses
<1>1. IInv /\ [Next]_vars =>
        [\A a \in Awb : STATUS_RANK[shipment'[a].status] >= STATUS_RANK[shipment[a].status]]_vars
  BY ShipmentRises
<1> QED
  BY <1>1, Invariance, PTL DEF Spec, NeverRegresses

(* A date of delivery, of a shipment or of an order, is never changed once it is written. *)
THEOREM DatesStay == Spec => DatedOnce
<1>1. IInv /\ [Next]_vars =>
        [/\ \A a \in Awb : shipment[a].deliveredAt # 0 => shipment'[a].deliveredAt = shipment[a].deliveredAt
         /\ \A o \in Order : order[o].deliveredAt # 0 => order'[o].deliveredAt = order[o].deliveredAt]_vars
  BY ShipmentRises, OrderStays
<1> QED
  BY <1>1, Invariance, PTL DEF Spec, DatedOnce
-----------------------------------------------------------------------------
(* Statuses catch up with the timeline.                                    *)

(* Every event of the timeline is ranked by the status of its shipment, or is carried *)
(* by a hook that has still to advance that shipment.                                 *)
Covers(h, r) ==
    /\ hook[h].pc = "insert" /\ hook[h].awb = r.awb
    /\ STATUS_RANK[hook[h].high] >= STATUS_RANK[MapStatus(r.text)]

Ranked(r) == STATUS_RANK[shipment[r.awb].status] >= STATUS_RANK[MapStatus(r.text)]

EventsCarried ==
    /\ \A h \in Hook : hook[h].pc = "insert" => \A r \in hook[h].left : r.awb = hook[h].awb
    /\ faults = 0 => \A r \in Report : timeline[r] > 0 => Ranked(r) \/ \E h \in Hook : Covers(h, r)

LEMMA RankOf ==
  ASSUME NEW s \in ShipmentStatus
  PROVE  STATUS_RANK[s] \in Nat
BY Ranks DEF ShipmentStatus

(* The status of a step only rises, so what is ranked stays ranked. *)
LEMMA RankedStays ==
  ASSUME IInv, [Next]_vars, NEW r \in Report, Ranked(r)
  PROVE  Ranked(r)'
<1>1. r.awb \in Awb /\ MapStatus(r.text) \in ShipmentStatus
  BY ShippingAssumption, MapStatusType
<1>2. shipment[r.awb].status \in ShipmentStatus /\ shipment'[r.awb].status \in ShipmentStatus
  BY <1>1, NextIInv DEF IInv, TypeOK
<1>3. STATUS_RANK[shipment'[r.awb].status] >= STATUS_RANK[shipment[r.awb].status]
  BY <1>1, ShipmentRises
<1> QED
  BY <1>1, <1>2, <1>3, RankOf DEF Ranked

(* A step of a hook that carries nothing before it. *)
LEMMA EmptyHookCarried ==
  ASSUME IInv, EventsCarried, [Next]_vars, NEW h \in Hook, NEW j,
         hook' = [hook EXCEPT ![h] = j],
         j.pc = "insert" => \A r \in j.left : r.awb = j.awb,
         faults' = 0 => faults = 0 /\ hook[h].pc # "insert",
         UNCHANGED timeline
  PROVE  EventsCarried'
<1>1. hook'[h] = j /\ \A g \in Hook \ {h} : hook'[g] = hook[g]
  BY DEF IInv, TypeOK
<1>2. \A g \in Hook : hook'[g].pc = "insert" => \A r \in hook'[g].left : r.awb = hook'[g].awb
  BY <1>1 DEF EventsCarried
<1>3. ASSUME faults' = 0, NEW r \in Report, timeline'[r] > 0
      PROVE  Ranked(r)' \/ \E g \in Hook : Covers(g, r)'
  <2>1. CASE Ranked(r)
    BY <2>1, RankedStays
  <2>2. CASE \E g \in Hook : Covers(g, r)
    <3>1. PICK g \in Hook : Covers(g, r)
      BY <2>2
    <3>2. g # h
      BY <1>3, <3>1 DEF Covers
    <3> QED
      BY <1>1, <3>1, <3>2 DEF Covers
  <2> QED
    BY <1>3, <2>1, <2>2 DEF EventsCarried
<1> QED
  BY <1>2, <1>3 DEF EventsCarried

(* What InsertEvent records it also carries, and it drops nothing. *)
LEMMA InsertEventCarried ==
  ASSUME IInv, EventsCarried, [Next]_vars, NEW h \in Hook, NEW r \in hook[h].left, InsertEvent(h, r)
  PROVE  EventsCarried'
<1> DEFINE j == hook[h]
           seen == [j EXCEPT
                      !.high = Higher(@, MapStatus(r.text)),
                      !.sawDelivered = Saw(j, r),
                      !.latestAt = IF MapStatus(r.text) = "DELIVERED" /\ r.at > @ THEN r.at ELSE @]
<1>1. j \in HookRecord /\ r \in Report /\ hook \in [Hook -> HookRecord] /\ timeline \in [Report -> Nat]
  BY HookState DEF HookRecord, IInv, TypeOK
<1>2. j.pc = "insert" /\ r.awb = j.awb /\ j.high \in ShipmentStatus /\ faults' = faults
  BY <1>1 DEF InsertEvent, EventsCarried, HookRecord
<1>3. /\ Higher(j.high, MapStatus(r.text)) \in ShipmentStatus
      /\ STATUS_RANK[Higher(j.high, MapStatus(r.text))] >= STATUS_RANK[j.high]
      /\ STATUS_RANK[Higher(j.high, MapStatus(r.text))] >= STATUS_RANK[MapStatus(r.text)]
  BY <1>2, HigherIsHigher, MapStatusType
<1>4. PICK n \in HookRecord :
        /\ hook' = [hook EXCEPT ![h] = n]
        /\ n.pc = "insert" /\ n.awb = j.awb /\ n.left = j.left \ {r}
        /\ STATUS_RANK[n.high] >= STATUS_RANK[j.high] /\ n.high \in ShipmentStatus
        /\ \/ timeline' = timeline
           \/ /\ timeline' = [timeline EXCEPT ![r] = @ + 1]
              /\ STATUS_RANK[n.high] >= STATUS_RANK[MapStatus(r.text)]
  <2>1. CASE timeline' = timeline /\ hook' = [hook EXCEPT ![h].left = @ \ {r}]
    <3> DEFINE n == [j EXCEPT !.left = @ \ {r}]
    <3>1. /\ n \in HookRecord
          /\ n.pc = "insert" /\ n.awb = j.awb /\ n.left = j.left \ {r} /\ n.high = j.high
      BY <1>1, <1>2 DEF HookRecord
    <3>2. STATUS_RANK[n.high] >= STATUS_RANK[j.high] /\ n.high \in ShipmentStatus
      BY <1>2, <3>1, RankOf
    <3>3. hook' = [hook EXCEPT ![h] = n]
      BY <2>1
    <3> HIDE DEF n
    <3> QED
      BY <2>1, <3>1, <3>2, <3>3
  <2>2. CASE /\ timeline' = [timeline EXCEPT ![r] = @ + 1]
             /\ hook' = [hook EXCEPT ![h] = [seen EXCEPT !.left = @ \ {r}]]
    <3>1. Saw(j, r) \in BOOLEAN /\ r.at \in Nat
      BY <1>1, ShippingAssumption DEF Saw, HookRecord
    <3>2. /\ seen \in HookRecord /\ seen.pc = "insert" /\ seen.awb = j.awb /\ seen.left = j.left
          /\ seen.high = Higher(j.high, MapStatus(r.text))
      BY <1>1, <1>2, <1>3, <3>1 DEF HookRecord
    <3> HIDE DEF seen
    <3>3. /\ [seen EXCEPT !.left = @ \ {r}] \in HookRecord
          /\ [seen EXCEPT !.left = @ \ {r}].pc = "insert" /\ [seen EXCEPT !.left = @ \ {r}].awb = j.awb
          /\ [seen EXCEPT !.left = @ \ {r}].left = j.left \ {r}
          /\ [seen EXCEPT !.left = @ \ {r}].high = Higher(j.high, MapStatus(r.text))
      BY <3>2 DEF HookRecord
    <3> QED
      BY <1>3, <2>2, <3>3
  <2> QED
    BY <2>1, <2>2 DEF InsertEvent
<1>5. hook'[h] = n /\ \A g \in Hook \ {h} : hook'[g] = hook[g]
  BY <1>1, <1>4
<1>6. \A g \in Hook : hook'[g].pc = "insert" => \A x \in hook'[g].left : x.awb = hook'[g].awb
  BY <1>2, <1>4, <1>5 DEF EventsCarried
<1>7. ASSUME faults' = 0, NEW x \in Report, timeline'[x] > 0
      PROVE  Ranked(x)' \/ \E g \in Hook : Covers(g, x)'
  <2>1. CASE x = r /\ STATUS_RANK[n.high] >= STATUS_RANK[MapStatus(r.text)]
    BY <1>2, <1>4, <1>5, <2>1 DEF Covers
  <2>2. CASE timeline'[x] = timeline[x]
    <3>1. CASE Ranked(x)
      BY <3>1, RankedStays
    <3>2. CASE \E g \in Hook : Covers(g, x)
      <4>1. PICK g \in Hook : Covers(g, x)
        BY <3>2
      <4>2. CASE g = h
        <5>1. /\ STATUS_RANK[n.high] \in Nat /\ STATUS_RANK[j.high] \in Nat
              /\ STATUS_RANK[MapStatus(x.text)] \in Nat
          BY <1>2, <1>4, RankOf, MapStatusType
        <5>2. STATUS_RANK[n.high] >= STATUS_RANK[MapStatus(x.text)]
          BY <1>4, <4>1, <4>2, <5>1 DEF Covers
        <5> QED
          BY <1>4, <1>5, <4>1, <4>2, <5>2 DEF Covers
      <4>3. CASE g # h
        BY <1>5, <4>1, <4>3 DEF Covers
      <4> QED
        BY <4>2, <4>3
    <3> QED
      BY <1>2, <1>7, <2>2, <3>1, <3>2 DEF EventsCarried
  <2> QED
    BY <1>1, <1>4, <2>1, <2>2
<1> QED
  BY <1>6, <1>7 DEF EventsCarried

(* Advance puts what its hook carries into the status. *)
LEMMA AdvanceCarried ==
  ASSUME IInv, EventsCarried, [Next]_vars, NEW h \in Hook, Advance(h)
  PROVE  EventsCarried'
<1>1. /\ hook[h] \in HookRecord /\ hook \in [Hook -> HookRecord]
      /\ shipment \in [Awb -> ShipmentRecord]
      /\ hook[h].awb \in Awb /\ hook[h].high \in ShipmentStatus
  BY HookState DEF Advance, IInv, TypeOK, HookRecord, ShipmentRecord
<1>2. /\ hook'[h].pc # "insert" /\ \A g \in Hook \ {h} : hook'[g] = hook[g]
      /\ timeline' = timeline /\ faults' = faults
      /\ shipment'[hook[h].awb] = Advanced(hook[h].awb, hook[h])
  BY <1>1 DEF Advance, HookRecord
<1>3. \A g \in Hook : hook'[g].pc = "insert" => \A x \in hook'[g].left : x.awb = hook'[g].awb
  BY <1>2 DEF EventsCarried
<1>4. ASSUME faults' = 0, NEW x \in Report, timeline'[x] > 0
      PROVE  Ranked(x)' \/ \E g \in Hook : Covers(g, x)'
  <2>1. CASE Ranked(x)
    BY <2>1, RankedStays
  <2>2. CASE Covers(h, x)
    <3>1. shipment[hook[h].awb].status \in ShipmentStatus /\ MapStatus(x.text) \in ShipmentStatus
      BY <1>1, MapStatusType DEF ShipmentRecord
    <3>2. Advanced(hook[h].awb, hook[h]).status = Higher(shipment[hook[h].awb].status, hook[h].high)
      BY <1>1 DEF Advanced, ShipmentRecord
    <3>3. STATUS_RANK[Higher(shipment[hook[h].awb].status, hook[h].high)] >= STATUS_RANK[hook[h].high]
          /\ Higher(shipment[hook[h].awb].status, hook[h].high) \in ShipmentStatus
      BY <1>1, <3>1, HigherIsHigher
    <3>4. hook[h].awb = x.awb /\ STATUS_RANK[hook[h].high] >= STATUS_RANK[MapStatus(x.text)]
      BY <2>2 DEF Covers
    <3>5. STATUS_RANK[shipment'[x.awb].status] >= STATUS_RANK[MapStatus(x.text)]
      BY <1>1, <1>2, <3>1, <3>2, <3>3, <3>4, RankOf
    <3> QED
      BY <3>5 DEF Ranked
  <2>3. CASE \E g \in Hook \ {h} : Covers(g, x)
    BY <1>2, <2>3 DEF Covers
  <2> QED
    BY <1>2, <1>4, <2>1, <2>2, <2>3 DEF EventsCarried
<1> QED
  BY <1>3, <1>4 DEF EventsCarried

LEMMA NextCarried == IInv /\ EventsCarried /\ [Next]_vars => EventsCarried'
<1> SUFFICES ASSUME IInv, EventsCarried, [Next]_vars PROVE EventsCarried'
  OBVIOUS
<1>1. CASE UNCHANGED <<hook, timeline, faults>>
  <2>1. \A r \in Report, h \in Hook : Covers(h, r) => Covers(h, r)'
    BY <1>1 DEF Covers
  <2>2. \A r \in Report : Ranked(r) => Ranked(r)'
    BY RankedStays
  <2> QED
    BY <1>1, <2>1, <2>2 DEF EventsCarried
<1>2. ASSUME NEW h \in Hook, Handle(h) \/ Die(h) PROVE EventsCarried'
  <2>0. hook \in [Hook -> HookRecord] /\ hook[h] \in HookRecord /\ faults \in Nat /\ Idle.pc = "idle"
    BY ShippingAssumption DEF IInv, TypeOK, HookRecord, Idle
  <2>1. ASSUME NEW p \in SUBSET outbox, Receive(h, p) PROVE EventsCarried'
    <3>1. PICK a \in Awb :
            /\ \A r \in p : r.awb = a
            /\ hook' = [hook EXCEPT ![h] =
                    [Idle EXCEPT !.pc = "insert", !.sent = p, !.left = p, !.awb = a,
                                 !.high = shipment[a].status]]
      BY <2>1 DEF Receive
    <3> DEFINE j == [Idle EXCEPT !.pc = "insert", !.sent = p, !.left = p, !.awb = a,
                                 !.high = shipment[a].status]
    <3>2. j.left = p /\ j.awb = a
      BY DEF Idle
    <3>3. UNCHANGED <<timeline, faults>> /\ hook[h].pc = "idle" /\ hook' = [hook EXCEPT ![h] = j]
      BY <2>1, <3>1 DEF Receive
    <3> HIDE DEF j
    <3> QED
      BY <3>1, <3>2, <3>3, EmptyHookCarried
  <2>2. ASSUME NEW r \in hook[h].left, InsertEvent(h, r) PROVE EventsCarried'
    BY <2>2, InsertEventCarried
  <2>3. CASE Advance(h)
    BY <2>3, AdvanceCarried
  <2>4. CASE CheckOrder(h) \/ Deliver(h)
    <3>1. PICK pc \in {"deliver", "ack"} : hook' = [hook EXCEPT ![h] = [hook[h] EXCEPT !.pc = pc]]
      BY <2>0, <2>4 DEF CheckOrder, Deliver
    <3>2. [hook[h] EXCEPT !.pc = pc].pc # "insert" /\ hook[h].pc # "insert" /\ timeline' = timeline
      BY <2>0, <2>4 DEF CheckOrder, Deliver, HookRecord
    <3>3. faults' = 0 => faults = 0
      BY <2>0, <2>4 DEF CheckOrder, Deliver, Fault
    <3> QED
      BY <3>1, <3>2, <3>3, EmptyHookCarried
  <2>5. CASE Acknowledge(h) \/ Die(h)
    <3>1. /\ hook' = [hook EXCEPT ![h] = Idle] /\ timeline' = timeline
          /\ faults' = 0 => faults = 0 /\ hook[h].pc # "insert"
      BY <2>0, <2>5 DEF Acknowledge, Die, Fault
    <3> QED
      BY <2>0, <3>1, EmptyHookCarried
  <2> QED
    BY <1>2, <2>1, <2>2, <2>3, <2>4, <2>5 DEF Handle
<1>3. (\E h \in Hook : Handle(h) \/ Die(h)) \/ UNCHANGED <<hook, timeline, faults>>
  BY DEF Next, vars, AdminTransition, ReadOrder, Ship, Happen
<1> QED
  BY <1>1, <1>2, <1>3

(* When no webhook is being handled and nothing has failed, the status of a shipment *)
(* ranks as high as every event of its timeline: no interleaving of the handlers,    *)
(* which all read the status with no lock, loses an event.                           *)
THEOREM StatusCatchesUp == Spec => []StatusCaughtUp
<1>1. Init => EventsCarried
  BY DEF Init, EventsCarried, Idle
<1>2. IInv /\ EventsCarried /\ [Next]_vars => EventsCarried'
  BY NextCarried
<1>3. EventsCarried => StatusCaughtUp
  BY DEF EventsCarried, StatusCaughtUp, Covers, Ranked
<1> QED
  BY <1>1, <1>2, <1>3, Invariance, PTL DEF Spec


=============================================================================
