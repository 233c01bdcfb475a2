------------------------------ MODULE Checkout ------------------------------
(***************************************************************************)
(* From the cart to the unpaid order: CartService (items, coupon),          *)
(* CouponService (validate, redeem) and OrdersService.checkout, run by      *)
(* concurrent requests, two of which may be the double submit of one cart.  *)
(*                                                                          *)
(* checkout reads the cart, prices it and validates its coupon with no      *)
(* lock (ReadCart); then one transaction takes the advisory lock of the     *)
(* cart (LockCart), looks for an order to reuse (FindExisting), takes the   *)
(* lock and the row of the order sequence (NextNumber) and reserves, redeems*)
(* and converts the cart (Place); and after its commit the Razorpay order   *)
(* is created and its id patched onto the order.  Every checkout holds the  *)
(* one sequence row until its commit, so what Place does cannot interleave  *)
(* with another checkout and is a single step.                              *)
(*                                                                          *)
(* Abstractions: a cart is a set of SKUs, one unit and one paisa each; one  *)
(* coupon, worth one paisa; an order is `fresh` for the 15 minutes of the   *)
(* reuse window; what happens to it later is OrderPayment, here it is paid  *)
(* or cancelled in one step.                                                *)
(***************************************************************************)
EXTENDS Integers, FiniteSets

CONSTANTS
    Cart, Sku, Worker,
    Registered,     \* the carts of registered customers
    Owner,          \* Cart -> the identity coupons are capped by: an email or a customer
    Stock,          \* units of each SKU
    Limits,         \* the limits the coupon may have: usageLimit, perCustomerLimit
    MaxEdits        \* bound on the edits of carts

ASSUME CheckoutAssumption ==
    /\ Registered \subseteq Cart /\ IsFiniteSet(Sku)
    /\ Stock \in Nat /\ MaxEdits \in Nat
    /\ Limits \subseteq [usageLimit : Nat, perCustomer : Nat]

VARIABLES
    cart,       \* Cart -> status, items, coupon
    orders,     \* the committed orders
    lastNumber, \* number_sequences.last_value of ORDER
    coupon,     \* limits, active, usedCount, redemptions: <<order number, identity>>
    cartLock,   \* Cart -> the requests that hold store_checkout_<id>
    seqLock,    \* the requests that hold the sequence row
    job,        \* Worker -> the request it serves
    edits

vars == <<cart, orders, lastNumber, coupon, cartLock, seqLock, job, edits>>

Idle ==
    [pc |-> "idle", cart |-> "none", items |-> {}, coupon |-> FALSE, number |-> 0]

Init ==
    /\ cart = [c \in Cart |-> [status |-> "ACTIVE", items |-> {}, coupon |-> FALSE]]
    /\ orders = {}
    /\ lastNumber = 0
    /\ \E l \in Limits :
        coupon = [limits |-> l, active |-> TRUE, usedCount |-> 0, redemptions |-> {}]
    /\ cartLock = [c \in Cart |-> {}]
    /\ seqLock = {}
    /\ job = [w \in Worker |-> Idle]
    /\ edits = 0

Go(w, j) == job' = [job EXCEPT ![w] = j]

-----------------------------------------------------------------------------
(* Edits: each reads that the cart is ACTIVE and writes later, unconditionally. *)

StartEdit(w, c, op, items) ==
    /\ job[w].pc = "idle"
    /\ edits < MaxEdits
    /\ edits' = edits + 1
    /\ cart[c].status = "ACTIVE"
    /\ Go(w, [Idle EXCEPT !.pc = op, !.cart = c, !.items = items])
    /\ UNCHANGED <<cart, orders, lastNumber, coupon, cartLock, seqLock>>

AddItem(w, c, s) == s \notin cart[c].items /\ StartEdit(w, c, "add", {s})

RemoveItem(w, c, s) == s \in cart[c].items /\ StartEdit(w, c, "remove", {s})

Redeemed(c) == {r \in coupon.redemptions : r[2] = Owner[c]}

(* Faulty: only the total is checked again. *)
UsableByAnyone(c) == coupon.active /\ coupon.usedCount < coupon.limits.usageLimit

(* What redeemCoupon checks under the lock of the coupon. *)
Usable(c) ==
    /\ coupon.active
    /\ coupon.usedCount < coupon.limits.usageLimit
    /\ Cardinality(Redeemed(c)) < coupon.limits.perCustomer

(* validateCoupon: nobody asks a guest for an email before checkout. *)
CouponValid(c) ==
    /\ coupon.active
    /\ coupon.usedCount < coupon.limits.usageLimit
    /\ c \in Registered => Cardinality(Redeemed(c)) < coupon.limits.perCustomer

ApplyCoupon(w, c) ==
    /\ cart[c].items # {} /\ CouponValid(c)
    /\ StartEdit(w, c, "attach", {})

RemoveCoupon(w, c) == cart[c].coupon /\ StartEdit(w, c, "detach", {})

(* The row of its cart as the edit leaves it. *)
Edited(j) ==
    LET row == cart[j.cart] IN
    CASE j.pc = "add"    -> [row EXCEPT !.items = @ \cup j.items]
      [] j.pc = "remove" -> [row EXCEPT !.items = @ \ j.items]
      [] OTHER           -> [row EXCEPT !.coupon = (j.pc = "attach")]

(* applyCoupon detaches the coupon again when its totals cannot be computed. *)
WriteEdit(w) ==
    LET j == job[w] IN
    /\ j.pc \in {"add", "remove", "attach", "detach"}
    /\ cart' = [cart EXCEPT ![j.cart] = Edited(j)]
    /\ \/ Go(w, Idle)
       \/ j.pc = "attach" /\ Go(w, [j EXCEPT !.pc = "detach"])
    /\ UNCHANGED <<orders, lastNumber, coupon, cartLock, seqLock, edits>>

-----------------------------------------------------------------------------
(* checkout.                                                               *)

GrandTotal(items, discounted) == Cardinality(items) - (IF discounted THEN 1 ELSE 0)

Total(w) == GrandTotal(job[w].items, job[w].coupon)

(* Units no order holds or has taken. *)
Free(s) == Stock - Cardinality({o \in orders : s \in o.items /\ o.status # "CANCELLED"})

(* Phases 1 to 6: the cart, the allocation of the warehouse and the price.  A coupon *)
(* that no longer validates is dropped.                                              *)
ReadCart(w, c) ==
    /\ job[w].pc = "idle"
    /\ cart[c].status = "ACTIVE" /\ cart[c].items # {}
    /\ \A s \in cart[c].items : Free(s) >= 1
    /\ Go(w, [Idle EXCEPT !.pc = "lock", !.cart = c, !.items = cart[c].items,
                          !.coupon = cart[c].coupon /\ CouponValid(c)])
    /\ UNCHANGED <<cart, orders, lastNumber, coupon, cartLock, seqLock, edits>>

LockCart(w) ==
    LET c == job[w].cart IN
    /\ job[w].pc = "lock"
    /\ cartLock[c] = {}
    /\ cartLock' = [cartLock EXCEPT ![c] = {w}]
    /\ Go(w, [job[w] EXCEPT !.pc = "find"])
    /\ UNCHANGED <<cart, orders, lastNumber, coupon, seqLock, edits>>

(* The transaction ends and frees its locks. *)
End(w, j) ==
    /\ Go(w, j)
    /\ cartLock' = [c \in Cart |-> cartLock[c] \ {w}]
    /\ seqLock' = seqLock \ {w}

(* Orders that the same checkout has made moments ago. *)
Live(w) ==
    {o \in orders : /\ o.cart = job[w].cart /\ o.status = "PENDING_PAYMENT"
                    /\ o.fresh /\ o.total = Total(w)}

(* A registered customer is given an order that already has its Razorpay order. *)
FindExisting(w) ==
    /\ job[w].pc = "find"
    /\ IF job[w].cart \in Registered /\ \E o \in Live(w) : o.linked
       THEN End(w, Idle)
       ELSE Go(w, [job[w] EXCEPT !.pc = "number"]) /\ UNCHANGED <<cartLock, seqLock>>
    /\ UNCHANGED <<cart, orders, lastNumber, coupon, edits>>

(* Faulty: the sequence is read without its row lock. *)
NextNumberUnlocked(w) ==
    /\ job[w].pc = "number"
    /\ seqLock' = seqLock \cup {w}
    /\ Go(w, [job[w] EXCEPT !.pc = "place", !.number = lastNumber + 1])
    /\ UNCHANGED <<cart, orders, lastNumber, coupon, cartLock, edits>>

(* Faulty: the sequence is bumped on its own, whatever becomes of the order. *)
NextNumberOutside(w) ==
    /\ job[w].pc = "number"
    /\ seqLock = {}
    /\ seqLock' = {w}
    /\ lastNumber' = lastNumber + 1
    /\ Go(w, [job[w] EXCEPT !.pc = "place", !.number = lastNumber + 1])
    /\ UNCHANGED <<cart, orders, coupon, cartLock, edits>>

(* The bumped value is published by the commit only. *)
NextNumber(w) ==
    /\ job[w].pc = "number"
    /\ seqLock = {}
    /\ seqLock' = {w}
    /\ Go(w, [job[w] EXCEPT !.pc = "place", !.number = lastNumber + 1])
    /\ UNCHANGED <<cart, orders, lastNumber, coupon, cartLock, edits>>

Rollback(w) ==
    /\ End(w, Idle)
    /\ UNCHANGED <<cart, orders, lastNumber, coupon>>

(* Faulty: the cart is marked CONVERTED whatever its status is. *)
CartUnchecked(w) == TRUE

(* markConverted's compare-and-set. *)
CartActive(w) == cart[job[w].cart].status = "ACTIVE"

(* reserveMany's check under the stock locks. *)
StockSuffices(w) == \A s \in job[w].items : Free(s) >= 1

(* Faulty: the redemption of a guest is not recorded. *)
RedemptionOfRegistered(w) ==
    IF job[w].coupon /\ job[w].cart \in Registered
    THEN [coupon EXCEPT !.usedCount = @ + 1,
                        !.redemptions = @ \cup {<<job[w].number, Owner[job[w].cart]>>}]
    ELSE coupon

(* redeemCoupon's writes. *)
Redemption(w) ==
    IF job[w].coupon
    THEN [coupon EXCEPT !.usedCount = @ + 1,
                        !.redemptions = @ \cup {<<job[w].number, Owner[job[w].cart]>>}]
    ELSE coupon

(* A coupon that cannot be redeemed any more fails the whole checkout. *)
Redeemable(w) == job[w].coupon => Usable(job[w].cart)

(* Insert the order, reserve, redeem, convert the cart and commit; or roll back. *)
Place(w) ==
    LET j == job[w] IN
    /\ j.pc = "place"
    /\ IF ~(StockSuffices(w) /\ Redeemable(w) /\ CartActive(w)) THEN Rollback(w)
       ELSE /\ orders' = orders \cup
                 {[number |-> j.number, cart |-> j.cart, items |-> j.items, total |-> Total(w),
                   discounted |-> j.coupon, status |-> "PENDING_PAYMENT",
                   linked |-> FALSE, fresh |-> TRUE]}
            /\ lastNumber' = j.number
            /\ coupon' = Redemption(w)
            /\ cart' = [cart EXCEPT ![j.cart].status = "CONVERTED"]
            /\ End(w, [j EXCEPT !.pc = "razorpay"])
    /\ UNCHANGED edits

Update(o, new) == orders' = (orders \ {o}) \cup {new}

(* Phase 8, after the commit. *)
PatchRazorpayOrderId(w) ==
    /\ job[w].pc = "razorpay"
    /\ \E o \in orders : o.number = job[w].number /\ Update(o, [o EXCEPT !.linked = TRUE])
    /\ Go(w, Idle)
    /\ UNCHANGED <<cart, lastNumber, coupon, cartLock, seqLock, edits>>

(* An error or the death of the node; what is not committed is lost. *)
Die(w) ==
    /\ job[w].pc # "idle"
    /\ Rollback(w)
    /\ UNCHANGED edits

-----------------------------------------------------------------------------
(* The world around: payments, cancellations, time, the admin.             *)

Settle(o, status) ==
    /\ o.status = "PENDING_PAYMENT"
    /\ status = "CONFIRMED" => o.linked
    /\ Update(o, [o EXCEPT !.status = status])
    /\ UNCHANGED <<cart, lastNumber, coupon, cartLock, seqLock, job, edits>>

LeaveReuseWindow(o) ==
    /\ o.fresh
    /\ Update(o, [o EXCEPT !.fresh = FALSE])
    /\ UNCHANGED <<cart, lastNumber, coupon, cartLock, seqLock, job, edits>>

ExpireCoupon ==
    /\ coupon.active
    /\ coupon' = [coupon EXCEPT !.active = FALSE]
    /\ UNCHANGED <<cart, orders, lastNumber, cartLock, seqLock, job, edits>>

Next ==
    \/ \E w \in Worker :
        \/ \E c \in Cart, s \in Sku : AddItem(w, c, s) \/ RemoveItem(w, c, s)
        \/ \E c \in Cart : ApplyCoupon(w, c) \/ RemoveCoupon(w, c) \/ ReadCart(w, c)
        \/ WriteEdit(w)
        \/ LockCart(w)
        \/ FindExisting(w)
        \/ NextNumber(w)
        \/ Place(w)
        \/ PatchRazorpayOrderId(w)
        \/ Die(w)
    \/ \E o \in orders : \/ \E status \in {"CONFIRMED", "CANCELLED"} : Settle(o, status)
                         \/ LeaveReuseWindow(o)
    \/ ExpireCoupon

Spec == Init /\ [][Next]_vars

-----------------------------------------------------------------------------

(* Rows hold values they can have; a lock has at most one holder. *)
TypeOK ==
    /\ cart \in [Cart -> [status : {"ACTIVE", "CONVERTED"}, items : SUBSET Sku,
                          coupon : BOOLEAN]]
    /\ \A o \in orders : /\ o.number \in 1 .. lastNumber
                         /\ o.cart \in Cart /\ o.items \in (SUBSET Sku) \ {{}}
                         /\ o.total \in 0 .. Cardinality(Sku)
    /\ coupon.limits \in Limits /\ coupon.usedCount \in Nat
    /\ \A c \in Cart : Cardinality(cartLock[c]) <= 1
    /\ Cardinality(seqLock) <= 1

(***************************************************************************)
(* However often a cart is submitted, and whatever fails in between, it     *)
(* becomes at most one order, and it is CONVERTED exactly when it has.      *)
(***************************************************************************)
OneOrderPerCart ==
    \A c \in Cart :
        Cardinality({o \in orders : o.cart = c}) = IF cart[c].status = "CONVERTED" THEN 1 ELSE 0

(* Order numbers have no gap and no duplicate, although transactions roll back. *)
NumbersGapless ==
    /\ {o.number : o \in orders} = 1 .. lastNumber
    /\ Cardinality(orders) = lastNumber

(***************************************************************************)
(* A coupon is used no more often than its limits allow, in total and per   *)
(* identity, although every validation before the checkout is out of date   *)
(* by then, and its counter is the number of its redemptions.               *)
(***************************************************************************)
CouponWithinLimits ==
    /\ coupon.usedCount = Cardinality(coupon.redemptions)
    /\ coupon.usedCount <= coupon.limits.usageLimit
    /\ \A c \in Cart : Cardinality(Redeemed(c)) <= coupon.limits.perCustomer

(***************************************************************************)
(* Every discount was paid for with a redemption of the coupon by the owner *)
(* of the cart, and every redemption is the discount of an order: "no order *)
(* is paid against a coupon that could not be consumed".                    *)
(***************************************************************************)
DiscountsAreRedeemed ==
    coupon.redemptions = {<<o.number, Owner[o.cart]>> : o \in {x \in orders : x.discounted}}

(***************************************************************************)
(* CartService.getCartForCheckout: "checkout re-prices and re-validates     *)
(* everything authoritatively under its own locks", so an order has the     *)
(* items its cart had when it was converted.                                *)
(***************************************************************************)
OrderIsItsCart ==
    [][\A o \in orders' \ orders :
        (\A x \in orders : x.number # o.number) => o.items = cart[o.cart].items]_vars

(***************************************************************************)
(* checkout: a REGISTERED customer who submits twice "finds the winner's    *)
(* live PENDING_PAYMENT order within the reuse window and REUSES it"; so a  *)
(* request that goes on to place an order has no such order.                *)
(***************************************************************************)
DoubleSubmitReuses ==
    \A w \in Worker : job[w].pc = "place" /\ job[w].cart \in Registered => Live(w) = {}

=============================================================================
