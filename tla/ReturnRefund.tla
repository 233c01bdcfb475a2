---------------------------- MODULE ReturnRefund ----------------------------
(***************************************************************************)
(* Returns of one delivered order: ReturnsService (request, approve,        *)
(* reject, in transit, receive) and OrdersService.refundOrder, which pays   *)
(* the money back in three parts: a transaction that reserves the amount    *)
(* in refundedTotal, the call to Razorpay outside any transaction, and a    *)
(* transaction that finalises, or one that compensates.  Between the parts  *)
(* another session may work on the same return, or the node may die.        *)
(*                                                                          *)
(* Every database transaction is one step: each is either guarded by an     *)
(* advisory lock that all its rivals take, or is a single conditional       *)
(* UPDATE.  The order has one line of Units units; `Parts` are the frozen   *)
(* paise of that line (taxable value, cgst, sgst, igst) and Extra what the  *)
(* order cost besides.  Razorpay may refuse a refund, and may pay one whose *)
(* answer is lost: the call then fails although the money has moved.        *)
(***************************************************************************)
EXTENDS Integers, FiniteSets

CONSTANTS
    Return,         \* the RMAs that may be requested
    Worker,         \* sessions that serve requests
    Units,          \* ordered quantity of the line
    Part, Parts,    \* components of the line's price, and their paise
    Extra,          \* paise of the order beyond the line
    MaxFailures,    \* bound on the refunds Razorpay refuses
    MaxLost,        \* bound on the refunds paid whose answer is lost
    MaxCrashes      \* bound on the requests that die half-way

ASSUME ReturnRefundAssumption ==
    /\ Units \in Nat \ {0}
    /\ IsFiniteSet(Part) /\ Parts \in [Part -> Nat]
    /\ Extra \in Nat /\ MaxFailures \in Nat /\ MaxLost \in Nat /\ MaxCrashes \in Nat
    /\ IsFiniteSet(Return) /\ IsFiniteSet(Worker)

(* The sum of f over S: the number of <<x, i>>, unit i of what f gives x. *)
Total(S, f) == Cardinality(UNION {{x} \X (1 .. f[x]) : x \in S})

LineTotal == Total(Part, Parts)

GrandTotal == LineTotal + Extra

ReturnStatus ==
    {"NONE", "REQUESTED", "APPROVED", "REJECTED", "IN_TRANSIT", "RECEIVED", "REFUNDED"}

VARIABLES
    order,      \* status, refundedTotal
    ret,        \* Return -> status, refundStatus, qty, amount, restocked
    paid,       \* Return -> paise Razorpay has paid back for it
    putBack,    \* units put back on stock
    job,        \* Worker -> the request it serves
    failures, lost, crashes

vars == <<order, ret, paid, putBack, job, failures, lost, crashes>>

faults == <<failures, lost, crashes>>

Idle == [pc |-> "idle", ret |-> "none", qty |-> 0, old |-> 0, new |-> 0]

Init ==
    /\ order = [status |-> "DELIVERED", refundedTotal |-> 0]
    /\ ret = [r \in Return |-> [status |-> "NONE", refundStatus |-> "PENDING",
                                qty |-> 0, amount |-> 0, restocked |-> FALSE]]
    /\ paid = [r \in Return |-> 0]
    /\ putBack = 0
    /\ job = [w \in Worker |-> Idle]
    /\ failures = 0 /\ lost = 0 /\ crashes = 0

-----------------------------------------------------------------------------
(* Requesting and authorising a return.                                    *)

(* Faulty: rounded up. *)
RoundedUp(qty) ==
    LET share == [p \in Part |-> (Parts[p] * qty + Units - 1) \div Units]
    IN IF qty >= Units THEN LineTotal ELSE Total(Part, share)

(* Each component is rounded half-up on its own; a full line is exact. *)
ProportionalLineRefund(qty) ==
    LET share == [p \in Part |-> (2 * Parts[p] * qty + Units) \div (2 * Units)]
    IN IF qty >= Units THEN LineTotal ELSE Total(Part, share)

Counted == {r \in Return : ret[r].status \notin {"NONE", "REJECTED"}}

Qty == [r \in Return |-> ret[r].qty]

(* Faulty: a return counts only once it has been approved. *)
TallyApproved(except) ==
    Total({r \in Counted \ except : ret[r].status # "REQUESTED"}, Qty)

(* alreadyReturnedByOrderItem: units of all returns that are not rejected. *)
AlreadyReturned(except) == Total(Counted \ except, Qty)

Go(w, j) == job' = [job EXCEPT ![w] = j]

(* The order is read, and has to be DELIVERED, before the transaction. *)
RequestReturn(w, r, qty) ==
    /\ job[w].pc = "idle"
    /\ ret[r].status = "NONE"
    /\ order.status = "DELIVERED"
    /\ Go(w, [Idle EXCEPT !.pc = "create", !.ret = r, !.qty = qty])
    /\ UNCHANGED <<order, ret, paid, putBack, faults>>

(* Under return_request_<orderId>: tally, cap, insert. *)
CreateReturn(w) ==
    LET r == job[w].ret  qty == job[w].qty IN
    /\ job[w].pc = "create"
    /\ Go(w, Idle)
    /\ IF qty <= Units - AlreadyReturned({}) /\ ret[r].status = "NONE"
       THEN ret' = [ret EXCEPT ![r].status = "REQUESTED", ![r].qty = qty,
                               ![r].amount = ProportionalLineRefund(qty)]
       ELSE UNCHANGED ret
    /\ UNCHANGED <<order, paid, putBack, faults>>

RejectReturn(r) ==
    /\ ret[r].status = "REQUESTED"
    /\ ret' = [ret EXCEPT ![r].status = "REJECTED"]
    /\ UNCHANGED <<order, paid, putBack, job, faults>>

(* The cap is checked again; a return that no longer fits is rejected instead. *)
ApproveReturn(r) ==
    /\ ret[r].status = "REQUESTED"
    /\ ret' = IF ret[r].qty + AlreadyReturned({r}) <= Units
              THEN [ret EXCEPT ![r].status = "APPROVED"]
              ELSE [ret EXCEPT ![r].status = "REJECTED", ![r].refundStatus = "FAILED"]
    /\ UNCHANGED <<order, paid, putBack, job, faults>>

MarkReturnInTransit(r) ==
    /\ ret[r].status = "APPROVED"
    /\ ret' = [ret EXCEPT ![r].status = "IN_TRANSIT"]
    /\ UNCHANGED <<order, paid, putBack, job, faults>>

-----------------------------------------------------------------------------
(* Receiving it: claim, refund, restock, finalise.                         *)

(* Faulty: whatever has not been refunded can be received. *)
ClaimAnyStatus(w, r) ==
    /\ job[w].pc = "idle"
    /\ ret[r].status # "NONE" /\ ret[r].refundStatus # "COMPLETED"
    /\ ret' = [ret EXCEPT ![r].status = "RECEIVED", ![r].refundStatus = "PROCESSING"]
    /\ Go(w, [Idle EXCEPT !.ret = r, !.pc = IF ret[r].amount > 0 THEN "reserve" ELSE "restock"])
    /\ UNCHANGED <<order, paid, putBack, faults>>

(* Under return_approve_<id>: the first receipt, or the re-entry of a return that is *)
(* RECEIVED and whose refund is not COMPLETED, whoever is settling it.               *)
ClaimReturn(w, r) ==
    /\ job[w].pc = "idle"
    /\ ret[r].status \in {"APPROVED", "IN_TRANSIT", "RECEIVED"}
    /\ ret[r].refundStatus # "COMPLETED"
    /\ ret' = [ret EXCEPT ![r].status = "RECEIVED", ![r].refundStatus = "PROCESSING"]
    /\ Go(w, [Idle EXCEPT !.ret = r, !.pc = IF ret[r].amount > 0 THEN "reserve" ELSE "restock"])
    /\ UNCHANGED <<order, paid, putBack, faults>>

(* Faulty: the cumulative cap is not asserted. *)
ReserveUncapped(w) ==
    LET new == order.refundedTotal + ret[job[w].ret].amount IN
    /\ job[w].pc = "reserve"
    /\ order' = [order EXCEPT !.refundedTotal = new]
    /\ Go(w, [job[w] EXCEPT !.pc = "call", !.old = order.refundedTotal, !.new = new])
    /\ UNCHANGED <<ret, paid, putBack, faults>>

(* refundOrder, step 1: assert the cap and reserve the amount, or throw. *)
ReserveRefund(w) ==
    LET new == order.refundedTotal + ret[job[w].ret].amount IN
    /\ job[w].pc = "reserve"
    /\ IF new > GrandTotal
       THEN Go(w, Idle) /\ UNCHANGED order
       ELSE /\ order' = [order EXCEPT !.refundedTotal = new]
            /\ Go(w, [job[w] EXCEPT !.pc = "call", !.old = order.refundedTotal, !.new = new])
    /\ UNCHANGED <<ret, paid, putBack, faults>>

Pay(r) == paid' = [paid EXCEPT ![r] = @ + ret[r].amount]

(* Step 2: Razorpay pays, refuses, or pays and the answer is lost. *)
RazorpayPays(w) ==
    /\ job[w].pc = "call"
    /\ Pay(job[w].ret)
    /\ Go(w, [job[w] EXCEPT !.pc = "finalizeOrder"])
    /\ UNCHANGED <<order, ret, putBack, faults>>

RazorpayRefuses(w) ==
    /\ job[w].pc = "call"
    /\ failures < MaxFailures
    /\ failures' = failures + 1
    /\ Go(w, [job[w] EXCEPT !.pc = "compensate"])
    /\ UNCHANGED <<order, ret, paid, putBack, lost, crashes>>

AnswerLost(w) ==
    /\ job[w].pc = "call"
    /\ lost < MaxLost
    /\ lost' = lost + 1
    /\ Pay(job[w].ret)
    /\ Go(w, [job[w] EXCEPT !.pc = "compensate"])
    /\ UNCHANGED <<order, ret, putBack, failures, crashes>>

(* Faulty: the old total is written back whatever the total is now. *)
CompensateBlindly(w) ==
    /\ job[w].pc = "compensate"
    /\ order' = [order EXCEPT !.refundedTotal = job[w].old]
    /\ Go(w, Idle)
    /\ UNCHANGED <<ret, paid, putBack, faults>>

(* Faulty: a failed refund is left to be looked at later, the receipt goes on. *)
CompensateAndGoOn(w) ==
    /\ job[w].pc = "compensate"
    /\ order' = [order EXCEPT !.refundedTotal = IF @ = job[w].new THEN job[w].old ELSE @]
    /\ Go(w, [job[w] EXCEPT !.pc = "restock"])
    /\ UNCHANGED <<ret, paid, putBack, faults>>

(* Faulty: nothing is given back to the cap. *)
NoCompensation(w) ==
    /\ job[w].pc = "compensate"
    /\ Go(w, Idle)
    /\ UNCHANGED <<order, ret, paid, putBack, faults>>

(* Step 3b: release the reserved amount if refundedTotal is still what it made it. *)
Compensate(w) ==
    /\ job[w].pc = "compensate"
    /\ order' = [order EXCEPT !.refundedTotal = IF @ = job[w].new THEN job[w].old ELSE @]
    /\ Go(w, Idle)
    /\ UNCHANGED <<ret, paid, putBack, faults>>

(* Step 3a: the order's status by the total this refund had reserved, no condition. *)
FinalizeOrder(w) ==
    /\ job[w].pc = "finalizeOrder"
    /\ order' = [order EXCEPT !.status =
                    IF job[w].new >= GrandTotal THEN "REFUNDED" ELSE "PARTIALLY_REFUNDED"]
    /\ Go(w, [job[w] EXCEPT !.pc = "restock"])
    /\ UNCHANGED <<ret, paid, putBack, faults>>

(* Faulty: every receipt puts the units back. *)
RestockAgain(w) ==
    LET r == job[w].ret IN
    /\ job[w].pc = "restock"
    /\ ret' = [ret EXCEPT ![r].restocked = TRUE]
    /\ putBack' = putBack + ret[r].qty
    /\ Go(w, [job[w] EXCEPT !.pc = "finalizeReturn"])
    /\ UNCHANGED <<order, paid, faults>>

(* restockReturnItems: the `restocked` compare-and-set and the stock in one transaction. *)
RestockItems(w) ==
    LET r == job[w].ret IN
    /\ job[w].pc = "restock"
    /\ ret' = [ret EXCEPT ![r].restocked = TRUE]
    /\ putBack' = IF ret[r].restocked THEN putBack ELSE putBack + ret[r].qty
    /\ Go(w, [job[w] EXCEPT !.pc = "finalizeReturn"])
    /\ UNCHANGED <<order, paid, faults>>

FinalizeReturn(w) ==
    LET r == job[w].ret IN
    /\ job[w].pc = "finalizeReturn"
    /\ ret' = IF ret[r].status = "RECEIVED"
              THEN [ret EXCEPT ![r].status = "REFUNDED", ![r].refundStatus = "COMPLETED"]
              ELSE ret
    /\ Go(w, Idle)
    /\ UNCHANGED <<order, paid, putBack, faults>>

Settle(w) ==
    \/ CreateReturn(w) \/ ReserveRefund(w) \/ RazorpayPays(w) \/ Compensate(w)
    \/ FinalizeOrder(w) \/ RestockItems(w) \/ FinalizeReturn(w)

(* The node dies, or a transaction fails: whatever was committed stays. *)
Die(w) ==
    /\ job[w].pc # "idle"
    /\ crashes < MaxCrashes
    /\ crashes' = crashes + 1
    /\ Go(w, Idle)
    /\ UNCHANGED <<order, ret, paid, putBack, failures, lost>>

Next ==
    \/ \E r \in Return : RejectReturn(r) \/ ApproveReturn(r) \/ MarkReturnInTransit(r)
    \/ \E w \in Worker :
        \/ \E r \in Return : ClaimReturn(w, r)
        \/ \E r \in Return, qty \in 1 .. Units : RequestReturn(w, r, qty)
        \/ Settle(w)
        \/ RazorpayRefuses(w)
        \/ AnswerLost(w)
        \/ Die(w)

Spec == Init /\ [][Next]_vars

(***************************************************************************)
(* A request that was accepted goes on, and an admin who sees a return in   *)
(* RECEIVED receives it again: the recovery the code is written for.        *)
(***************************************************************************)
FairSpec ==
    /\ Spec
    /\ \A w \in Worker : WF_vars(Settle(w))
    /\ \A r \in Return : SF_vars(ret[r].status = "RECEIVED" /\ \E w \in Worker : ClaimReturn(w, r))

-----------------------------------------------------------------------------

(* Rows and requests hold values they can have; refundedTotal is within the cap. *)
TypeOK ==
    /\ order.status \in {"DELIVERED", "PARTIALLY_REFUNDED", "REFUNDED"}
    /\ order.refundedTotal \in 0 .. GrandTotal
    /\ ret \in [Return -> [status : ReturnStatus,
                           refundStatus : {"PENDING", "PROCESSING", "COMPLETED", "FAILED"},
                           qty : 0 .. Units, amount : Nat, restocked : BOOLEAN]]
    /\ paid \in [Return -> Nat]
    /\ putBack \in 0 .. Units
    /\ \A w \in Worker : job[w].old \in 0 .. GrandTotal /\ job[w].new \in 0 .. GrandTotal

PaidTotal == Total(Return, paid)

(* Who has reserved an amount that may still go out or be given back. *)
Reserving == {w \in Worker : job[w].pc \in {"call", "compensate"}}

InFlight == Total(Reserving, [w \in Worker |-> job[w].new - job[w].old])

(***************************************************************************)
(* refundOrder's reserve-then-execute: the money that went out and the      *)
(* refunds that may still go out or be compensated are together within      *)
(* refundedTotal, and so within what was collected, whoever refunds at the  *)
(* same time and whatever fails, as long as no answer of Razorpay is lost.  *)
(***************************************************************************)
CapCoversMoney == lost = 0 => PaidTotal + InFlight <= order.refundedTotal

(***************************************************************************)
(* Physical units: what was put back on stock is what the restocked returns *)
(* hold, once each, and no return is restocked before it was received.      *)
(***************************************************************************)
PutBackOnce ==
    LET back == {r \in Return : ret[r].restocked}
    IN /\ putBack = Total(back, Qty)
       /\ \A r \in back : ret[r].status \in {"RECEIVED", "REFUNDED"}

(* Units of the line that live returns claim. *)
Claimed == Total({r \in Return : ret[r].status \notin {"NONE", "REJECTED"}}, Qty)

(* Concurrent requests never claim more units than were ordered, so an approval *)
(* never has to turn a request down.                                            *)
NeverOverReturned == Claimed <= Units

(***************************************************************************)
(* What the returns of a line are worth together differs from their share   *)
(* of the line by at most half a paisa for each component of each return:   *)
(* several small returns may be worth a little more than the line.          *)
(***************************************************************************)
RoundingBounded ==
    LET amount == [r \in Return |-> ret[r].amount]
        excess == Units * Total(Counted, amount) - Claimed * LineTotal
        allowed == Units * Cardinality(Part) * Cardinality(Counted)
    IN -allowed <= 2 * excess /\ 2 * excess <= allowed

(***************************************************************************)
(* A return that is REFUNDED was paid in full and is back on stock, for     *)
(* every receiver that may have finalised it.                               *)
(***************************************************************************)
RefundedIsSettled ==
    \A r \in Return : ret[r].status = "REFUNDED" =>
        paid[r] >= ret[r].amount /\ ret[r].restocked /\ ret[r].refundStatus = "COMPLETED"

Follows ==
    [s \in ReturnStatus |->
        CASE s = "NONE"       -> {"REQUESTED"}
          [] s = "REQUESTED"  -> {"APPROVED", "REJECTED"}
          [] s = "APPROVED"   -> {"IN_TRANSIT", "RECEIVED"}
          [] s = "IN_TRANSIT" -> {"RECEIVED"}
          [] s = "RECEIVED"   -> {"REFUNDED"}
          [] OTHER            -> {}]

(* "REQUESTED -> APPROVED -> IN_TRANSIT -> RECEIVED -> REFUNDED": no return leaves *)
(* this path, and REJECTED and REFUNDED are final.                                 *)
ReturnLifecycle ==
    [][\A r \in Return : \/ ret'[r].status = ret[r].status
                         \/ ret'[r].status \in Follows[ret[r].status]]_vars

(***************************************************************************)
(* receiveReturn is "RE-RUNNABLE": a return that was received is REFUNDED   *)
(* in the end, however often Razorpay refuses first.                        *)
(***************************************************************************)
ReceivedIsSettled ==
    \A r \in Return : (ret[r].status = "RECEIVED") ~> (ret[r].status = "REFUNDED")

Quiet == \A w \in Worker : job[w].pc = "idle"

(* receiveReturn: "a retry after a partial settlement does not double-pay". *)
NoDoublePay == \A r \in Return : paid[r] <= ret[r].amount

(* refundOrder, step 3b: "so a failed attempt never permanently consumes cap". *)
FailedAttemptFreesCap == Quiet => order.refundedTotal = PaidTotal

(* COMMERCE_ARCHITECTURE 4.10: the cap blocks "refunds that together exceed what was *)
(* collected".                                                                       *)
NeverOverRefunded == PaidTotal <= GrandTotal

(* receiveReturn: the order's status is "advanced" by refundOrder, so REFUNDED, which *)
(* has no successor in ALLOWED_TRANSITIONS, stays.                                    *)
RefundedOrderStays == [][order.status = "REFUNDED" => order'.status = "REFUNDED"]_vars

=============================================================================
