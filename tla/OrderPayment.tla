---------------------------- MODULE OrderPayment ----------------------------
(***************************************************************************)
(* One store order from the commit of its checkout to its delivery: the     *)
(* last phase of OrdersService.checkout, the Razorpay webhooks, the state   *)
(* machine behind the admin board, and the reservation-expiry cron, run by  *)
(* concurrent database sessions at the grain of the statements that can     *)
(* interleave.                                                              *)
(*                                                                          *)
(* Two kinds of lock keep these sessions apart, and not every one takes     *)
(* both.  transitionStatus takes the advisory lock order_status_<id>, reads *)
(* the order and at the end writes `status` with no condition; the webhooks *)
(* take no advisory lock, they start with a compare-and-set on the order    *)
(* row, which locks the row until they commit.  Each stock primitive takes  *)
(* the advisory lock of its stock row (see InventoryTx); of a primitive     *)
(* only its read of the reservation and its locked change are steps here.   *)
(*                                                                          *)
(* Abstractions: one order; one reservation for each line, on a stock row   *)
(* of its own; `taken` counts the units of a line that the order has taken  *)
(* out of onHand; time is the age of the order in units of 15 minutes.      *)
(* Razorpay and the customer are the environment: they attempt payments,    *)
(* and every webhook may arrive any number of times and in any order.       *)
(***************************************************************************)
EXTENDS Integers, FiniteSets

CONSTANTS
    Line,           \* the lines of the order
    Api, Cron,      \* sessions that serve requests; sessions of the cron
    Targets,        \* the statuses an admin asks for
    Ttl,            \* RESERVATION_TTL_MS, in units of time
    StaleAfter,     \* STALE_UNPAID_ORDER_MS, in units of time
    MaxAge,         \* bound on the age of the order
    MaxAborts       \* bound on the transactions that die half-way

Worker == Api \cup Cron

ASSUME OrderPaymentAssumption ==
    /\ Ttl \in Nat /\ StaleAfter \in Nat /\ MaxAge \in Nat /\ MaxAborts \in Nat
    /\ Ttl < StaleAfter /\ StaleAfter < MaxAge
    /\ Api \cap Cron = {}

Status == {"PENDING_PAYMENT", "CONFIRMED", "PROCESSING", "PACKED", "SHIPPED",
           "DELIVERED", "CANCELLED"}

(* ALLOWED_TRANSITIONS; nothing ever sets PAID, refunds are in ReturnRefund. *)
Allowed ==
    [s \in Status |->
        CASE s = "PENDING_PAYMENT" -> {"CANCELLED"}
          [] s = "CONFIRMED"  -> {"PROCESSING", "PACKED", "CANCELLED"}
          [] s = "PROCESSING" -> {"PACKED", "CANCELLED"}
          [] s = "PACKED"     -> {"SHIPPED", "CANCELLED"}
          [] s = "SHIPPED"    -> {"DELIVERED"}
          [] OTHER            -> {}]

(* Faulty: an unpaid order is not thought of as one that holds stock. *)
PaidPreShipped == {"CONFIRMED", "PROCESSING", "PACKED"}

PreShipped == {"PENDING_PAYMENT", "CONFIRMED", "PROCESSING", "PACKED"}

VARIABLES
    order,      \* the committed Order row: status, paymentStatus, linked
    hold,       \* Line -> status of its reservation, committed
    taken,      \* Line -> units out of onHand on behalf of the order
    cancelledBy,\* who the CANCELLED / PAYMENT_FAILED OrderEvent names
    checkout,   \* phase 8 of checkout: "create", "patch", "done"
    captured,   \* Razorpay has captured a payment
    webhooks,   \* the webhooks Razorpay has sent
    age,
    statusLock, \* the sessions that hold order_status_<id>
    stockLock,  \* Line -> the sessions that hold its stock lock
    job,        \* Worker -> the transaction it runs
    aborts

vars == <<order, hold, taken, cancelledBy, checkout, captured, webhooks, age,
          statusLock, stockLock, job, aborts>>

env == <<checkout, captured, webhooks, age>>

Empty == [l \in {} |-> 0]

(***************************************************************************)
(* A job: what it is for, where it is, the status it read, the lines it has *)
(* still to handle and what to do with them, and the writes it has made but *)
(* not committed.  newOrder is empty or a singleton.                        *)
(***************************************************************************)
Idle ==
    [kind |-> "none", pc |-> "idle", to |-> "none", read |-> "none", todo |-> Empty,
     line |-> {}, newOrder |-> {}, newHold |-> Empty, newTaken |-> Empty, by |-> "none"]

Init ==
    /\ order = [status |-> "PENDING_PAYMENT", paymentStatus |-> "UNPAID", linked |-> FALSE]
    /\ hold = [l \in Line |-> "ACTIVE"]
    /\ taken = [l \in Line |-> 0]
    /\ cancelledBy = "nobody"
    /\ checkout = "create"
    /\ captured = FALSE
    /\ webhooks = {}
    /\ age = 0
    /\ statusLock = {}
    /\ stockLock = [l \in Line |-> {}]
    /\ job = [w \in Worker |-> Idle]
    /\ aborts = 0

-----------------------------------------------------------------------------
(* Checkout after its commit, the customer and Razorpay.                   *)

(* No other session has written the order row and not yet committed. *)
RowFree(w) == \A v \in Worker \ {w} : job[v].newOrder = {}

CreateRazorpayOrder ==
    /\ checkout = "create"
    /\ checkout' = "patch"
    /\ UNCHANGED <<order, hold, taken, cancelledBy, captured, webhooks, age,
                   statusLock, stockLock, job, aborts>>

(* The id is patched onto the order outside the checkout transaction. *)
PatchRazorpayOrderId ==
    /\ checkout = "patch"
    /\ \A v \in Worker : job[v].newOrder = {}
    /\ checkout' = "done"
    /\ order' = [order EXCEPT !.linked = TRUE]
    /\ UNCHANGED <<hold, taken, cancelledBy, captured, webhooks, age,
                   statusLock, stockLock, job, aborts>>

(* Razorpay refuses, or the node dies before the patch: the order stays unlinked. *)
CheckoutDies ==
    /\ checkout # "done"
    /\ checkout' = "done"
    /\ UNCHANGED <<order, hold, taken, cancelledBy, captured, webhooks, age,
                   statusLock, stockLock, job, aborts>>

(* A payment attempt on the Razorpay order; nothing in the code ever closes it. *)
Pay(event) ==
    /\ order.linked
    /\ ~captured
    /\ captured' = (event = "captured")
    /\ webhooks' = webhooks \cup {event}
    /\ UNCHANGED <<order, hold, taken, cancelledBy, checkout, age,
                   statusLock, stockLock, job, aborts>>

Tick ==
    /\ age < MaxAge
    /\ age' = age + 1
    /\ UNCHANGED <<order, hold, taken, cancelledBy, checkout, captured, webhooks,
                   statusLock, stockLock, job, aborts>>

-----------------------------------------------------------------------------
(* How a job starts.                                                       *)

Start(w, j) ==
    /\ job[w].pc = "idle"
    /\ job' = [job EXCEPT ![w] = j]
    /\ UNCHANGED <<order, hold, taken, cancelledBy, statusLock, stockLock, aborts>>
    /\ UNCHANGED env

(* handleCaptured and handleFailed return early on what handleWebhook read. *)
StartWebhook(w, event) ==
    /\ event \in webhooks
    /\ IF event = "captured" THEN order.paymentStatus # "PAID"
                             ELSE order.status = "PENDING_PAYMENT"
    /\ Start(w, [Idle EXCEPT !.kind = event, !.pc = "cas", !.by = "webhook"])

(* The admin board. *)
StartTransition(w, to) ==
    Start(w, [Idle EXCEPT !.kind = "transition", !.pc = "lock", !.to = to, !.by = "admin"])

(* Cron, first sweep: one reservation past its TTL. *)
StartExpire(w, l) ==
    /\ age > Ttl
    /\ hold[l] = "ACTIVE"
    /\ Start(w, [Idle EXCEPT !.kind = "expire", !.pc = "lines", !.by = "cron",
                             !.todo = [x \in {l} |-> "release"]])

(* Faulty: the sweep looks for stale orders among those that still hold stock. *)
StaleHoldersOnly(w) ==
    /\ age > StaleAfter
    /\ order.status = "PENDING_PAYMENT"
    /\ \E l \in Line : hold[l] = "ACTIVE"
    /\ Start(w, [Idle EXCEPT !.kind = "transition", !.pc = "lock", !.to = "CANCELLED",
                             !.by = "cron"])

(* Cron, second sweep: the order was PENDING_PAYMENT and stale when it was listed. *)
StartStaleCancel(w) ==
    /\ age > StaleAfter
    /\ order.status = "PENDING_PAYMENT"
    /\ Start(w, [Idle EXCEPT !.kind = "transition", !.pc = "lock", !.to = "CANCELLED",
                             !.by = "cron"])

-----------------------------------------------------------------------------
(* The statements of a job.                                                *)

HoldAs(w, l) == IF l \in DOMAIN job[w].newHold THEN job[w].newHold[l] ELSE hold[l]

OrderAs(w) == IF job[w].newOrder = {} THEN order ELSE CHOOSE o \in job[w].newOrder : TRUE

With(f, x, v) == [y \in DOMAIN f \cup {x} |-> IF y = x THEN v ELSE f[y]]

Without(f, x) == [y \in DOMAIN f \ {x} |-> f[y]]

FreeLocks(w) ==
    /\ statusLock' = statusLock \ {w}
    /\ stockLock' = [l \in Line |-> stockLock[l] \ {w}]

Rollback(w) ==
    /\ job' = [job EXCEPT ![w] = Idle]
    /\ FreeLocks(w)
    /\ UNCHANGED <<order, hold, taken, cancelledBy>>

Go(w, j) ==
    /\ job' = [job EXCEPT ![w] = j]
    /\ UNCHANGED <<order, hold, taken, cancelledBy, statusLock, stockLock>>

(* Faulty: the webhook promotes the order whatever its status is. *)
WebhookAlwaysWins(w) ==
    /\ job[w].pc = "cas"
    /\ RowFree(w)
    /\ Go(w, [job[w] EXCEPT !.pc = "list",
                !.newOrder = {IF job[w].kind = "captured"
                              THEN [order EXCEPT !.status = "CONFIRMED", !.paymentStatus = "PAID"]
                              ELSE [order EXCEPT !.status = "CANCELLED"]}])

(* The webhooks' compare-and-set on the order row; a lost one ends the job. *)
WebhookCas(w) ==
    /\ job[w].pc = "cas"
    /\ RowFree(w)
    /\ IF order.status # "PENDING_PAYMENT" THEN Rollback(w)
       ELSE Go(w, [job[w] EXCEPT !.pc = "list",
                !.newOrder = {IF job[w].kind = "captured"
                              THEN [order EXCEPT !.status = "CONFIRMED", !.paymentStatus = "PAID"]
                              ELSE [order EXCEPT !.status = "CANCELLED"]}])

(* Faulty: two transitions of the order may run at once. *)
TransitionUnlocked(w) ==
    /\ job[w].pc = "lock"
    /\ Go(w, [job[w] EXCEPT !.pc = "read"])

TransitionLock(w) ==
    /\ job[w].pc = "lock"
    /\ statusLock \subseteq {w}
    /\ statusLock' = {w}
    /\ job' = [job EXCEPT ![w].pc = "read"]
    /\ UNCHANGED <<order, hold, taken, cancelledBy, stockLock>>

(* The plain read of the order: the same status or an illegal hop ends the job. *)
TransitionRead(w) ==
    /\ job[w].pc = "read"
    /\ IF job[w].to \notin Allowed[order.status] THEN Rollback(w)
       ELSE Go(w, [job[w] EXCEPT !.read = order.status,
                !.pc = IF job[w].to = "CANCELLED" /\ order.status \in PreShipped
                       THEN "list" ELSE "write"])

(* Faulty: a cancel forgets what has been sold to the order. *)
ListActive(w) ==
    LET found == {l \in Line : hold[l] = "ACTIVE"}
    IN /\ job[w].pc = "list"
       /\ Go(w, [job[w] EXCEPT !.pc = "lines",
                !.todo = [l \in found |->
                            IF job[w].kind = "captured" THEN "commit" ELSE "release"]])

(* The reservations found, and what is done with each: webhooks look for ACTIVE    *)
(* ones, a cancel releases the ACTIVE ones and restocks the CONSUMED ones.         *)
ListHolds(w) ==
    LET found == {l \in Line : \/ hold[l] = "ACTIVE"
                               \/ job[w].kind = "transition" /\ hold[l] = "CONSUMED"}
    IN /\ job[w].pc = "list"
       /\ Go(w, [job[w] EXCEPT !.pc = "lines",
                !.todo = [l \in found |->
                            IF hold[l] = "CONSUMED" THEN "restock"
                            ELSE IF job[w].kind = "captured" THEN "commit" ELSE "release"]])

(* commitReservation and releaseReservation read the row again, with no lock, and  *)
(* skip one that is no longer ACTIVE; restock goes straight for its lock.          *)
ReadHold(w, l) ==
    /\ job[w].pc = "lines"
    /\ l \in DOMAIN job[w].todo
    /\ IF job[w].todo[l] # "restock" /\ hold[l] # "ACTIVE"
       THEN Go(w, [job[w] EXCEPT !.todo = Without(@, l)])
       ELSE Go(w, [job[w] EXCEPT !.pc = "flip", !.line = {l}])

FinishedAs(w) ==
    IF job[w].kind = "captured" THEN "CONSUMED"
    ELSE IF job[w].kind = "expire" THEN "EXPIRED" ELSE "RELEASED"

(* Faulty: the status is not asked for again once the lock is held. *)
FlipAnyHold(w, l) ==
    /\ job[w].pc = "flip"
    /\ job[w].line = {l}
    /\ stockLock[l] \subseteq {w}
    /\ stockLock' = [stockLock EXCEPT ![l] = {w}]
    /\ LET j == [job[w] EXCEPT !.pc = "lines", !.line = {}, !.todo = Without(@, l)]
           change == CASE job[w].todo[l] = "commit" -> 1
                       [] job[w].todo[l] = "restock" -> -1
                       [] OTHER -> 0
       IN job' = [job EXCEPT ![w] =
                    [j EXCEPT !.newTaken = With(@, l, taken[l] + change),
                              !.newHold = With(@, l, IF job[w].todo[l] = "restock"
                                                     THEN hold[l] ELSE FinishedAs(w))]]
    /\ UNCHANGED <<order, hold, taken, cancelledBy, statusLock>>

(* Under the stock lock: flip the reservation if it is still ACTIVE, or throw. *)
FlipHold(w, l) ==
    /\ job[w].pc = "flip"
    /\ job[w].line = {l}
    /\ stockLock[l] \subseteq {w}
    /\ IF job[w].todo[l] # "restock" /\ hold[l] # "ACTIVE" THEN Rollback(w)
       ELSE /\ stockLock' = [stockLock EXCEPT ![l] = {w}]
            /\ LET j == [job[w] EXCEPT !.pc = "lines", !.line = {}, !.todo = Without(@, l)] IN
               job' = [job EXCEPT ![w] =
                 CASE job[w].todo[l] = "commit" ->
                        [j EXCEPT !.newHold = With(@, l, "CONSUMED"),
                                  !.newTaken = With(@, l, taken[l] + 1)]
                   [] job[w].todo[l] = "release" ->
                        [j EXCEPT !.newHold = With(@, l, FinishedAs(w))]
                   [] job[w].todo[l] = "restock" ->
                        [j EXCEPT !.newTaken = With(@, l, taken[l] - 1)]]
            /\ UNCHANGED <<order, hold, taken, cancelledBy, statusLock>>

(* All lines are done. *)
LinesDone(w) ==
    /\ job[w].pc = "lines"
    /\ job[w].todo = Empty
    /\ Go(w, [job[w] EXCEPT !.pc = IF job[w].kind = "transition" THEN "write" ELSE "end"])

(* The last UPDATE of a transition sets `status` whatever it is by now. *)
TransitionWrite(w) ==
    /\ job[w].pc = "write"
    /\ RowFree(w)
    /\ Go(w, [job[w] EXCEPT !.pc = "end", !.newOrder = {[order EXCEPT !.status = job[w].to]}])

Commit(w) ==
    LET j == job[w] IN
    /\ j.pc = "end"
    /\ order' = OrderAs(w)
    /\ hold' = [l \in Line |-> HoldAs(w, l)]
    /\ taken' = [l \in Line |-> IF l \in DOMAIN j.newTaken THEN j.newTaken[l] ELSE taken[l]]
    /\ cancelledBy' = IF j.kind # "expire" /\ OrderAs(w).status = "CANCELLED"
                      THEN j.by ELSE cancelledBy
    /\ job' = [job EXCEPT ![w] = Idle]
    /\ FreeLocks(w)

Statement(w) ==
    /\ \/ WebhookCas(w)
       \/ TransitionLock(w)
       \/ TransitionRead(w)
       \/ ListHolds(w)
       \/ \E l \in Line : ReadHold(w, l) \/ FlipHold(w, l)
       \/ LinesDone(w)
       \/ TransitionWrite(w)
       \/ Commit(w)
    /\ UNCHANGED aborts
    /\ UNCHANGED env

(* An exception, a lost connection or the death of the node. *)
Abort(w) ==
    /\ job[w].pc # "idle"
    /\ aborts < MaxAborts
    /\ aborts' = aborts + 1
    /\ Rollback(w)
    /\ UNCHANGED env

(* w cannot go on before v ends. *)
WaitsFor(w, v) ==
    /\ w # v
    /\ \/ job[w].pc = "lock" /\ v \in statusLock
       \/ job[w].pc = "flip" /\ \E l \in job[w].line : v \in stockLock[l]
       \/ job[w].pc \in {"cas", "write"} /\ job[v].newOrder # {}

(* Sessions that wait for one another in a circle. *)
Stuck(W) == W # {} /\ \A w \in W : \E v \in W : WaitsFor(w, v)

(* PostgreSQL breaks a deadlock by aborting a session of the circle itself, not one *)
(* that only waits for it.                                                          *)
Circle(W) == Stuck(W) /\ \A V \in SUBSET W : Stuck(V) => V = W

DeadlockVictim(w) ==
    /\ \E W \in SUBSET Worker : w \in W /\ Circle(W)
    /\ Rollback(w)
    /\ UNCHANGED aborts
    /\ UNCHANGED env

Next ==
    \/ CreateRazorpayOrder
    \/ PatchRazorpayOrderId
    \/ CheckoutDies
    \/ \E event \in {"captured", "failed"} : Pay(event)
    \/ Tick
    \/ \E w \in Api : \/ \E event \in webhooks : StartWebhook(w, event)
                      \/ \E to \in Targets : StartTransition(w, to)
    \/ \E w \in Cron : \/ \E l \in Line : StartExpire(w, l)
                       \/ StartStaleCancel(w)
    \/ \E w \in Worker : Statement(w) \/ Abort(w) \/ DeadlockVictim(w)

Spec == Init /\ [][Next]_vars

(***************************************************************************)
(* Time passes; the cron fires every five minutes; a session that can run   *)
(* its next statement does; PostgreSQL grants locks in the order they were  *)
(* asked for, so a session that asks again and again is served, and breaks  *)
(* every deadlock.  Nothing is assumed of customers, Razorpay or admins but *)
(* that requests about one order stop some day (Razorpay gives a webhook up *)
(* after a day of retries).                                                 *)
(***************************************************************************)
Fairness ==
    /\ WF_vars(Tick)
    /\ \A w \in Cron : WF_vars(StartStaleCancel(w)) /\ SF_vars(Statement(w))
    /\ \A w \in Api : SF_vars(Statement(w))
    /\ WF_vars(\E w \in Worker : DeadlockVictim(w))

RequestsStop == <>[][\A w \in Api : job[w].pc = "idle" => job'[w].pc = "idle"]_vars

FairSpec == Spec /\ Fairness /\ RequestsStop

-----------------------------------------------------------------------------

(* Rows and jobs hold values they can have. *)
TypeOK ==
    /\ order \in [status : Status, paymentStatus : {"UNPAID", "PAID"}, linked : BOOLEAN]
    /\ hold \in [Line -> {"ACTIVE", "CONSUMED", "RELEASED", "EXPIRED"}]
    /\ taken \in [Line -> {0, 1}]
    /\ cancelledBy \in {"nobody", "webhook", "admin", "cron"}
    /\ age \in 0 .. MaxAge
    /\ statusLock \subseteq Worker
    /\ \A w \in Worker : /\ DOMAIN job[w].todo \subseteq Line
                         /\ Cardinality(job[w].newOrder) <= 1

(***************************************************************************)
(* Once the order has left PENDING_PAYMENT, by whatever session, none of    *)
(* its reservations is ACTIVE any more: a confirmed order has no hold that  *)
(* the cron could give back, a cancelled one keeps nothing from others.     *)
(***************************************************************************)
HoldsEndWithPending ==
    order.status # "PENDING_PAYMENT" => \A l \in Line : hold[l] # "ACTIVE"

(***************************************************************************)
(* What an order has taken out of stock is exactly what it has CONSUMED, as *)
(* long as it is not cancelled: no reservation is finished twice, by the    *)
(* webhook and by the cron, and no line is put back under a live order.     *)
(***************************************************************************)
SoldOnce ==
    \A l \in Line :
        /\ taken[l] = 1 => hold[l] = "CONSUMED"
        /\ hold[l] = "CONSUMED" /\ order.status # "CANCELLED" => taken[l] = 1

(***************************************************************************)
(* A paid order that lives lacks a line only because the reservation of     *)
(* that line had expired before the capture came: no webhook, cancel or     *)
(* other session ever takes a line from under it.                           *)
(***************************************************************************)
PaidLosesOnlyExpired ==
    order.paymentStatus = "PAID" /\ order.status # "CANCELLED" =>
        \A l \in Line : hold[l] \in {"CONSUMED", "EXPIRED"}

(***************************************************************************)
(* Cancelling an order that was paid when transitionStatus read it puts     *)
(* every line back on stock (transitionStatus: "a paid-then-cancelled order *)
(* returns its units").                                                     *)
(***************************************************************************)
PaidCancelReturnsStock ==
    [][\A w \in Worker :
        (/\ job[w].kind = "transition" /\ job[w].pc = "end" /\ job'[w] = Idle
         /\ job[w].read # "PENDING_PAYMENT" /\ order'.status = "CANCELLED")
            => \A l \in Line : taken'[l] = 0]_vars

(***************************************************************************)
(* Whatever sessions interleave, the committed status moves along           *)
(* ALLOWED_TRANSITIONS, or from PENDING_PAYMENT to CONFIRMED by the capture.*)
(***************************************************************************)
LegalTransitions ==
    [][\/ order'.status = order.status
       \/ order'.status \in Allowed[order.status]
       \/ /\ order.status = "PENDING_PAYMENT" /\ order'.status = "CONFIRMED"
          /\ order'.paymentStatus = "PAID"]_vars

(***************************************************************************)
(* "The reservation cron will release the held stock and cancel the order,  *)
(* so no stock leaks": no order stays PENDING_PAYMENT, and none of its      *)
(* reservations ACTIVE, for ever.                                           *)
(***************************************************************************)
PendingEnds ==
    (order.status = "PENDING_PAYMENT") ~>
        (order.status # "PENDING_PAYMENT" /\ \A l \in Line : hold[l] # "ACTIVE")

(***************************************************************************)
(* COMMERCE_ARCHITECTURE 4.6: the capture turns the order's reservations    *)
(* ACTIVE -> CONSUMED; so a confirmed order has every line.                 *)
(***************************************************************************)
PaidOrderHasStock ==
    order.status \in {"CONFIRMED", "PROCESSING", "PACKED", "SHIPPED", "DELIVERED"} =>
        \A l \in Line : hold[l] = "CONSUMED"

(***************************************************************************)
(* The cron's comment: an order "no longer PENDING_PAYMENT (paid            *)
(* mid-window ...) is skipped by transitionStatus's same-state no-op /      *)
(* illegal-transition guard".                                               *)
(***************************************************************************)
CronSparesPaidOrders == cancelledBy = "cron" => order.paymentStatus # "PAID"

(***************************************************************************)
(* transitionStatus: CANCELLED "releases active reservations AND restocks   *)
(* any committed stock (so a paid-then-cancelled order returns its units)". *)
(***************************************************************************)
CancelReturnsStock == order.status = "CANCELLED" => \A l \in Line : taken[l] = 0

(***************************************************************************)
(* transitionStatusInTx, "DEADLOCK INVARIANT": safety of a cancel "relies   *)
(* ENTIRELY" on the ascending order of the stock locks.  With one line that *)
(* order cannot be wrong, so no sessions may wait for one another in a      *)
(* circle.                                                                  *)
(***************************************************************************)
NoLockCycle == \A W \in SUBSET Worker : ~Stuck(W)

=============================================================================
