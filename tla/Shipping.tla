------------------------------ MODULE Shipping ------------------------------
(***************************************************************************)
(* ShippingService: ship() gives a PACKED order a shipment, and the         *)
(* webhooks of the courier move the shipment and deliver the order.         *)
(*                                                                          *)
(* A clerk reads the order with no lock (ReadOrder) and ships it later, in  *)
(* one transaction under the advisory lock of the order (Ship).  A webhook  *)
(* carries some reports on one shipment; its handler commits after every    *)
(* event (InsertEvent), then after the status (Advance), then after the     *)
(* order (Deliver), and may die between any two.  The courier sends a       *)
(* report again until it is acknowledged, in any order and grouping.        *)
(*                                                                          *)
(* Abstractions: the text of a report is the set of the keywords it holds;  *)
(* a time is a number, 0 when the courier gives none in range; signatures,  *)
(* numbers, notifications and webhooks for unknown AWBs, which change       *)
(* nothing, are left out.  The polling cron is left out too: the one        *)
(* provider that can be polled returns no events.                           *)
(***************************************************************************)
EXTENDS Integers, Sequences

CONSTANTS
    Order, Awb, Clerk, Hook,
    Report,     \* what the courier may report: awb, text, hasId, at
    MaxFaults   \* bound on deaths of a node, failed transitions and lost answers

(* What a shipment may be; ship() never leaves the PENDING the schema defaults to. *)
ShipmentStatus == {"LABEL_CREATED", "PICKED_UP", "IN_TRANSIT", "OUT_FOR_DELIVERY",
                   "DELIVERED", "FAILED", "RETURNED"}

STATUS_RANK ==
    [PENDING |-> 0, LABEL_CREATED |-> 1, PICKED_UP |-> 2, IN_TRANSIT |-> 3,
     OUT_FOR_DELIVERY |-> 4, DELIVERED |-> 5, FAILED |-> 6, RETURNED |-> 7]

STATUS_KEYWORDS == <<
    [status |-> "RETURNED",         words |-> {"return", "rto", "returned"}],
    [status |-> "FAILED",           words |-> {"fail", "undeliver", "cancel", "exception", "lost"}],
    [status |-> "DELIVERED",        words |-> {"deliver", "dlvd", "completed"}],
    [status |-> "OUT_FOR_DELIVERY", words |-> {"out for delivery", "ofd", "out_for_delivery"}],
    [status |-> "IN_TRANSIT",       words |-> {"transit", "in_transit", "shipped", "dispatched", "manifest"}],
    [status |-> "PICKED_UP",        words |-> {"pick", "picked", "collected"}],
    [status |-> "LABEL_CREATED",    words |-> {"label", "created", "booked", "awb"}] >>

ASSUME ShippingAssumption ==
    /\ "none" \notin Order
    /\ Report \subseteq [awb : Awb, text : SUBSET UNION {STATUS_KEYWORDS[i].words : i \in 1..7},
                         hasId : BOOLEAN, at : Nat]
    /\ MaxFaults \in Nat

VARIABLES
    order,      \* Order -> status, deliveredAt
    shipment,   \* Awb -> order ("none": no such row), status, deliveredAt
    timeline,   \* Report -> the number of shipment_events rows that hold it
    reported,   \* the reports the courier has made
    outbox,     \* those not acknowledged yet
    clerk,      \* Clerk -> the order it has found PACKED
    hook,       \* Hook -> the webhook it handles
    faults

vars == <<order, shipment, timeline, reported, outbox, clerk, hook, faults>>

NoRow == [order |-> "none", status |-> "LABEL_CREATED", deliveredAt |-> 0]

(* Faulty: the status is left to the schema. *)
DefaultShipment(o) == [NoRow EXCEPT !.order = o, !.status = "PENDING"]

NewShipment(o) == [NoRow EXCEPT !.order = o]

Idle == [pc |-> "idle", sent |-> {}, left |-> {}, awb |-> "none",
         high |-> "LABEL_CREATED", sawDelivered |-> FALSE, latestAt |-> 0]

Init ==
    /\ order = [o \in Order |-> [status |-> "PACKED", deliveredAt |-> 0]]
    /\ shipment = [a \in Awb |-> NoRow]
    /\ timeline = [r \in Report |-> 0]
    /\ reported = {} /\ outbox = {}
    /\ clerk = [c \in Clerk |-> "none"]
    /\ hook = [h \in Hook |-> Idle]
    /\ faults = 0

-----------------------------------------------------------------------------
(* Orders.                                                                 *)

ALLOWED_TRANSITIONS == {<<"PACKED", "SHIPPED">>, <<"PACKED", "CANCELLED">>, <<"SHIPPED", "DELIVERED">>}

(* Faulty: ship() trusts what it has read before the lock. *)
LegalIfPackedOnce(from, to) == TRUE

Legal(from, to) == from = to \/ <<from, to>> \in ALLOWED_TRANSITIONS

(* Faulty: a later delivery dates the order again. *)
Restamp(stamp, at) == IF at # 0 THEN at ELSE stamp

Stamp(stamp, at) == IF at # 0 /\ stamp = 0 THEN at ELSE stamp

(* transitionStatusInTx; nothing changes when the order is in that status already. *)
Transitioned(o, to, at) ==
    IF order[o].status = to THEN order[o]
    ELSE [status |-> to,
          deliveredAt |-> Stamp(order[o].deliveredAt, IF to = "DELIVERED" THEN at ELSE 0)]

(* The admin board; cancelling is OrderPayment's business up to the status. *)
AdminTransition(o, to) ==
    /\ order[o].status # to /\ Legal(order[o].status, to)
    /\ order' = [order EXCEPT ![o] = Transitioned(o, to, 0)]
    /\ UNCHANGED <<shipment, timeline, reported, outbox, clerk, hook, faults>>

-----------------------------------------------------------------------------
(* ship().                                                                 *)

Shippable(o) == order[o].status = "PACKED"

Live(o) == {a \in Awb : shipment[a].order = o /\ shipment[a].status \notin {"FAILED", "RETURNED"}}

ReadOrder(c, o) ==
    /\ clerk[c] = "none"
    /\ Shippable(o)
    /\ clerk' = [clerk EXCEPT ![c] = o]
    /\ UNCHANGED <<order, shipment, timeline, reported, outbox, hook, faults>>

(* Faulty: the read before the lock is enough. *)
NotShippedUnchecked(o) == TRUE

NotShipped(o) == Live(o) = {}

(* The transaction; it rolls back on ALREADY_SHIPPED, DUPLICATE_AWB and an illegal transition. *)
Ship(c, a) ==
    LET o == clerk[c]
        ok == NotShipped(o) /\ Legal(order[o].status, "SHIPPED") /\ shipment[a].order = "none"
    IN
    /\ o # "none"
    /\ clerk' = [clerk EXCEPT ![c] = "none"]
    /\ IF ok
       THEN /\ order' = [order EXCEPT ![o] = Transitioned(o, "SHIPPED", 0)]
            /\ shipment' = [shipment EXCEPT ![a] = NewShipment(o)]
       ELSE UNCHANGED <<order, shipment>>
    /\ UNCHANGED <<timeline, reported, outbox, hook, faults>>

-----------------------------------------------------------------------------
(* The courier and its webhooks.                                           *)

Happen(r) ==
    /\ r \notin reported
    /\ shipment[r.awb].order # "none"
    /\ reported' = reported \cup {r}
    /\ outbox' = outbox \cup {r}
    /\ UNCHANGED <<order, shipment, timeline, clerk, hook, faults>>

Fault ==
    /\ faults < MaxFaults
    /\ faults' = faults + 1

MapStatus(text) ==
    LET hits == {i \in 1..Len(STATUS_KEYWORDS) : STATUS_KEYWORDS[i].words \cap text # {}} IN
    IF hits = {} THEN "IN_TRANSIT"
    ELSE STATUS_KEYWORDS[CHOOSE i \in hits : \A k \in hits : i <= k].status

(* Faulty: the last event of the payload wins. *)
Latest(s, t) == t

Higher(s, t) == IF STATUS_RANK[t] > STATUS_RANK[s] THEN t ELSE s

(* The status is read here, with no lock. *)
Receive(h, p) ==
    /\ hook[h].pc = "idle"
    /\ p # {}
    /\ \E a \in Awb :
        /\ \A r \in p : r.awb = a
        /\ hook' = [hook EXCEPT ![h] =
                [Idle EXCEPT !.pc = "insert", !.sent = p, !.left = p, !.awb = a,
                             !.high = shipment[a].status]]
    /\ UNCHANGED <<order, shipment, timeline, reported, outbox, clerk, faults>>

(* The id of the courier or a hash of the time identifies the event; without a time *)
(* in range the hash is one of the time of arrival, and no other event has it.      *)
Known(r) == timeline[r] > 0 /\ (r.hasId \/ r.at # 0)

(* Faulty: only a delivery that is the highest event counts. *)
SawTheHighest(j, r) == j.sawDelivered \/ Higher(j.high, MapStatus(r.text)) = "DELIVERED"

Saw(j, r) == j.sawDelivered \/ MapStatus(r.text) = "DELIVERED"

InsertEvent(h, r) ==
    LET j == hook[h]
        seen == [j EXCEPT
            !.high = Higher(@, MapStatus(r.text)),
            !.sawDelivered = Saw(j, r),
            !.latestAt = IF MapStatus(r.text) = "DELIVERED" /\ r.at > @ THEN r.at ELSE @]
    IN
    /\ j.pc = "insert" /\ r \in j.left
    /\ IF Known(r)
       THEN /\ timeline' = timeline
            /\ hook' = [hook EXCEPT ![h].left = @ \ {r}]
       ELSE /\ timeline' = [timeline EXCEPT ![r] = @ + 1]
            /\ hook' = [hook EXCEPT ![h] = [seen EXCEPT !.left = @ \ {r}]]
    /\ UNCHANGED <<order, shipment, reported, outbox, clerk, faults>>

(* Faulty: the status that was read at arrival is not compared again. *)
AdvancedBlindly(a, j) == [shipment[a] EXCEPT !.status = j.high]

(* advanceShipmentStatus under the lock of the shipment. *)
Advanced(a, j) ==
    [shipment[a] EXCEPT
        !.status = Higher(@, j.high),
        !.deliveredAt = Stamp(@, IF STATUS_RANK[j.high] >= 5 THEN j.latestAt ELSE 0)]

Advance(h) ==
    LET j == hook[h] IN
    /\ j.pc = "insert" /\ j.left = {}
    /\ shipment' = [shipment EXCEPT ![j.awb] = Advanced(j.awb, j)]
    /\ hook' = [hook EXCEPT ![h].pc = IF j.sawDelivered THEN "check" ELSE "ack"]
    /\ UNCHANGED <<order, timeline, reported, outbox, clerk, faults>>

(* markOrderDelivered: the status, and then the transition under the lock of the order. *)
CheckOrder(h) ==
    /\ hook[h].pc = "check"
    /\ hook' = [hook EXCEPT ![h].pc =
            IF order[shipment[hook[h].awb].order].status = "SHIPPED" THEN "deliver" ELSE "ack"]
    /\ UNCHANGED <<order, shipment, timeline, reported, outbox, clerk, faults>>

(* A transition that fails is logged and the webhook is acknowledged. *)
Deliver(h) ==
    LET o == shipment[hook[h].awb].order IN
    /\ hook[h].pc = "deliver"
    /\ \/ /\ Legal(order[o].status, "DELIVERED")
          /\ order' = [order EXCEPT ![o] = Transitioned(o, "DELIVERED", hook[h].latestAt)]
          /\ UNCHANGED faults
       \/ Fault /\ UNCHANGED order
    /\ hook' = [hook EXCEPT ![h].pc = "ack"]
    /\ UNCHANGED <<shipment, timeline, reported, outbox, clerk>>

(* The answer, which may be lost. *)
Acknowledge(h) ==
    /\ hook[h].pc = "ack"
    /\ \/ outbox' = outbox \ hook[h].sent /\ UNCHANGED faults
       \/ Fault /\ UNCHANGED outbox
    /\ hook' = [hook EXCEPT ![h] = Idle]
    /\ UNCHANGED <<order, shipment, timeline, reported, clerk>>

(* The node dies; what it has committed stays. *)
Die(h) ==
    /\ hook[h].pc # "idle"
    /\ Fault
    /\ hook' = [hook EXCEPT ![h] = Idle]
    /\ UNCHANGED <<order, shipment, timeline, reported, outbox, clerk>>

-----------------------------------------------------------------------------

Handle(h) ==
    \/ \E p \in SUBSET outbox : Receive(h, p)
    \/ \E r \in hook[h].left : InsertEvent(h, r)
    \/ Advance(h)
    \/ CheckOrder(h)
    \/ Deliver(h)
    \/ Acknowledge(h)

Next ==
    \/ \E o \in Order, to \in {"SHIPPED", "DELIVERED", "CANCELLED"} : AdminTransition(o, to)
    \/ \E c \in Clerk, o \in Order : ReadOrder(c, o)
    \/ \E c \in Clerk, a \in Awb : Ship(c, a)
    \/ \E r \in Report : Happen(r)
    \/ \E h \in Hook : Handle(h) \/ Die(h)

(* A request that is being served is served to its end, and a report is sent until *)
(* it is acknowledged; nobody has to ship, and the courier has to report nothing.  *)
Fairness == \A h \in Hook : WF_vars(Handle(h))

Spec == Init /\ [][Next]_vars /\ Fairness

-----------------------------------------------------------------------------
(* Properties.                                                             *)

(* Every variable has its type. *)
TypeOK ==
    /\ order \in [Order -> [status : {"PACKED", "SHIPPED", "DELIVERED", "CANCELLED"}, deliveredAt : Nat]]
    /\ shipment \in [Awb -> [order : Order \cup {"none"}, status : ShipmentStatus, deliveredAt : Nat]]
    /\ timeline \in [Report -> Nat]
    /\ outbox \subseteq reported /\ reported \subseteq Report
    /\ clerk \in [Clerk -> Order \cup {"none"}]
    /\ faults \in 0..MaxFaults
    /\ hook \in [Hook -> [pc : {"idle", "insert", "check", "deliver", "ack"}, sent : SUBSET Report,
                          left : SUBSET Report, awb : Awb \cup {"none"}, high : ShipmentStatus,
                          sawDelivered : BOOLEAN, latestAt : Nat]]

(* Two clerks that both found an order PACKED never give it two parcels on their way: *)
(* the transition alone would let the second one through, as SHIPPED to SHIPPED is a  *)
(* no-op.                                                                             *)
OneLiveShipment == \A o \in Order : \A a, b \in Live(o) : a = b

(* An order cancelled while a clerk was shipping it has no shipment. *)
CancelledIsNotShipped ==
    \A a \in Awb : shipment[a].order # "none" => order[shipment[a].order].status # "CANCELLED"

(* However the webhooks interleave, and in whatever order the reports come, the *)
(* status of a shipment never goes back to a lower rank.                        *)
NeverRegresses ==
    [][\A a \in Awb : STATUS_RANK[shipment'[a].status] >= STATUS_RANK[shipment[a].status]]_vars

(* The date of delivery, which the window for returns starts from, is written once. *)
DatedOnce ==
    [][/\ \A a \in Awb : shipment[a].deliveredAt # 0 => shipment'[a].deliveredAt = shipment[a].deliveredAt
       /\ \A o \in Order : order[o].deliveredAt # 0 => order'[o].deliveredAt = order[o].deliveredAt]_vars

(* When no webhook is being handled and nothing has failed, the status of a shipment *)
(* ranks as high as every event of its timeline.                                     *)
StatusCaughtUp ==
    (faults = 0 /\ \A h \in Hook : hook[h].pc = "idle") =>
        \A r \in Report : timeline[r] > 0 =>
            STATUS_RANK[shipment[r.awb].status] >= STATUS_RANK[MapStatus(r.text)]

(* "On DELIVERED, advance the order to DELIVERED": a recorded delivery reaches the order. *)
DeliveryReachesOrder ==
    \A r \in Report, o \in Order :
        (timeline[r] > 0 /\ MapStatus(r.text) = "DELIVERED" /\ shipment[r.awb].order = o)
            ~> (order[o].status # "SHIPPED")

(* "A FAILED shipment can be retried, and a RETURNED one leaves the order re-shippable." *)
FailedIsReshippable ==
    \A o \in Order :
        (Live(o) = {} /\ order[o].status # "DELIVERED" /\ \E a \in Awb : shipment[a].order = o)
            => Shippable(o)

(* "A re-delivered event with no courier id still dedupes." *)
EventsOnce == \A r \in Report : timeline[r] <= 1

(* STATUS_KEYWORDS gives "out for delivery" a status of its own: a shipment is DELIVERED *)
(* only when the courier has said more than that.                                        *)
OutForDeliveryIsNotDelivered ==
    \A a \in Awb : shipment[a].status = "DELIVERED" =>
        \E r \in reported :
            r.awb = a /\ MapStatus(r.text) = "DELIVERED" /\ "out for delivery" \notin r.text

=============================================================================
