--------------------------- MODULE CheckoutProofs ---------------------------
(***************************************************************************)
(* What is proved of Checkout, for any carts, SKUs, requests, limits of the *)
(* coupon and any stock: a cart becomes one order, order numbers have no    *)
(* gap, the coupon stays within its limits and every discount is redeemed.  *)
(***************************************************************************)
EXTENDS Checkout, FiniteSetTheorems, TLAPS

-----------------------------------------------------------------------------
(* The inductive invariant.                                                *)

CartRow == [status : {"ACTIVE", "CONVERTED"}, items : SUBSET Sku, coupon : BOOLEAN]

Order == [number : Nat, cart : Cart, items : (SUBSET Sku) \ {{}}, total : 0 .. Cardinality(Sku),
          discounted : BOOLEAN, status : {"PENDING_PAYMENT", "CONFIRMED", "CANCELLED"},
          linked : BOOLEAN, fresh : BOOLEAN]

Pc == {"idle", "add", "remove", "attach", "detach", "lock", "find", "number", "place", "razorpay"}

Job == [pc : Pc, cart : Cart \cup {"none"}, items : SUBSET Sku, coupon : BOOLEAN, number : Nat]

TypedTables ==
    /\ cart \in [Cart -> CartRow]
    /\ orders \subseteq Order /\ IsFiniteSet(orders)
    /\ lastNumber \in Nat
    /\ coupon.limits \in Limits /\ coupon.usedCount \in Nat
    /\ coupon = [limits |-> coupon.limits, active |-> coupon.active,
                 usedCount |-> coupon.usedCount, redemptions |-> coupon.redemptions]
    /\ IsFiniteSet(coupon.redemptions)

(* A number is drawn once, and an order is found by its number. *)
ByNumber == \A o, x \in orders : o.number = x.number => o = x

(* A cart is CONVERTED when, and only when, an order was made of it, and one was. *)
Converted ==
    /\ \A c \in Cart : (cart[c].status = "CONVERTED") = (\E o \in orders : o.cart = c)
    /\ \A o, x \in orders : o.cart = x.cart => o = x

Tables ==
    /\ TypedTables
    /\ NumbersGapless /\ ByNumber
    /\ Converted
    /\ CouponWithinLimits /\ DiscountsAreRedeemed

Locks ==
    /\ cartLock \in [Cart -> SUBSET Worker] /\ seqLock \in SUBSET Worker
    /\ \A c \in Cart : \A v, w \in cartLock[c] : v = w
    /\ \A v, w \in seqLock : v = w

(* What a request has in hand fits what it does. *)
Fit(j) ==
    /\ j \in Job
    /\ j.pc # "idle" => j.cart \in Cart
    /\ j.pc \in {"lock", "find", "number", "place"} => j.items # {}

(* Who is about to place an order holds the sequence, and its number is the next one. *)
NextInLine(w) == job[w].pc = "place" => seqLock = {w} /\ job[w].number = lastNumber + 1

Requests ==
    /\ job \in [Worker -> Job]
    /\ \A w \in Worker : Fit(job[w]) /\ NextInLine(w)

IInv == Tables /\ Locks /\ Requests

-----------------------------------------------------------------------------
(* Sessions and their locks. *)

LEMMA IdleFits == Fit(Idle)
BY DEF Fit, Job, Pc, Idle

(* A step of one request, in which it may take or give back the sequence. *)
LEMMA RequestStep ==
    ASSUME IInv, NEW w \in Worker, NEW j, Fit(j), Go(w, j),
           \/ UNCHANGED seqLock
           \/ seqLock' = seqLock \ {w}
           \/ seqLock = {} /\ seqLock' = {w},
           lastNumber' = lastNumber \/ seqLock = {w},
           j.pc = "place" => seqLock' = {w} /\ j.number = lastNumber' + 1
    PROVE  Requests'
<1>1. job' = [job EXCEPT ![w] = j] /\ j \in Job /\ job \in [Worker -> Job]
  BY DEF Go, Fit, IInv, Requests
<1>2. job' \in [Worker -> Job] /\ job'[w] = j
  BY <1>1
<1>3. ASSUME NEW v \in Worker PROVE Fit(job'[v]) /\ NextInLine(v)'
  <2>1. CASE v = w
    BY <1>2, <2>1 DEF NextInLine
  <2>2. CASE v # w
    <3>1. job'[v] = job[v] /\ Fit(job[v]) /\ NextInLine(v)
      BY <1>1, <2>2 DEF IInv, Requests
    <3> QED
      BY <2>2, <3>1 DEF NextInLine
  <2> QED
    BY <2>1, <2>2
<1> QED
  BY <1>2, <1>3 DEF Requests, Fit

(* A transaction that ends frees what it holds. *)
LEMMA EndLocks ==
    ASSUME Locks, NEW w \in Worker, NEW j, End(w, j)
    PROVE  Locks' /\ Go(w, j) /\ seqLock' = seqLock \ {w}
BY DEF Locks, End

(* A step that changes no table and no lock. *)
LEMMA OnlyRequest ==
    ASSUME IInv, NEW w \in Worker, NEW j, Fit(j), j.pc # "place", Go(w, j),
           UNCHANGED <<cart, orders, lastNumber, coupon, cartLock, seqLock>>
    PROVE  IInv'
<1>1. Requests'
  BY RequestStep
<1>2. Tables' /\ Locks'
  BY DEF IInv, Tables, TypedTables, NumbersGapless, ByNumber, Converted, CouponWithinLimits,
         DiscountsAreRedeemed, Redeemed, Locks
<1> QED
  BY <1>1, <1>2 DEF IInv

(* A rollback. *)
LEMMA RollbackKeeps ==
    ASSUME IInv, NEW w \in Worker, Rollback(w)
    PROVE  IInv'
<1>1. Locks' /\ Go(w, Idle) /\ seqLock' = seqLock \ {w}
  BY EndLocks DEF IInv, Rollback
<1>2. UNCHANGED <<cart, orders, lastNumber, coupon>>
  BY DEF Rollback
<1>3. Requests'
  BY <1>1, <1>2, IdleFits, RequestStep DEF Idle
<1>4. Tables'
  BY <1>2 DEF IInv, Tables, TypedTables, NumbersGapless, ByNumber, Converted,
              CouponWithinLimits, DiscountsAreRedeemed, Redeemed
<1> QED
  BY <1>1, <1>3, <1>4 DEF IInv

LEMMA StartEditKeeps ==
    ASSUME IInv, NEW w \in Worker, NEW c \in Cart, NEW op \in {"add", "remove", "attach", "detach"},
           NEW items \in SUBSET Sku, StartEdit(w, c, op, items)
    PROVE  IInv'
<1> DEFINE j == [Idle EXCEPT !.pc = op, !.cart = c, !.items = items]
<1>1. Fit(j) /\ j.pc # "place"
  BY DEF Fit, Job, Pc, Idle
<1>2. Go(w, j) /\ UNCHANGED <<cart, orders, lastNumber, coupon, cartLock, seqLock>>
  BY DEF StartEdit
<1> HIDE DEF j
<1> QED
  BY <1>1, <1>2, OnlyRequest

LEMMA ReadCartKeeps ==
    ASSUME IInv, NEW w \in Worker, NEW c \in Cart, ReadCart(w, c)
    PROVE  IInv'
<1> DEFINE valid == cart[c].coupon /\ CouponValid(c)
           j == [Idle EXCEPT !.pc = "lock", !.cart = c, !.items = cart[c].items, !.coupon = valid]
<1>1. cart[c].items \in SUBSET Sku /\ cart[c].items # {}
  BY DEF IInv, Tables, TypedTables, CartRow, ReadCart
<1>2. valid \in BOOLEAN
  BY DEF CouponValid
<1> HIDE DEF valid
<1>3. Fit(j) /\ j.pc # "place"
  BY <1>1, <1>2 DEF Fit, Job, Pc, Idle
<1>4. Go(w, j) /\ UNCHANGED <<cart, orders, lastNumber, coupon, cartLock, seqLock>>
  BY DEF ReadCart, valid
<1> HIDE DEF j
<1> QED
  BY <1>3, <1>4, OnlyRequest

(* Another state of a request that goes on with its checkout. *)
LEMMA NextState ==
    ASSUME IInv, NEW w \in Worker, NEW pc \in {"find", "number", "detach"},
           job[w].pc \in {"lock", "find", "attach"},
           pc # "detach" => job[w].pc # "attach"
    PROVE  Fit([job[w] EXCEPT !.pc = pc]) /\ [job[w] EXCEPT !.pc = pc].pc = pc
BY DEF IInv, Requests, Fit, Job, Pc

LEMMA LockCartKeeps ==
    ASSUME IInv, NEW w \in Worker, LockCart(w)
    PROVE  IInv'
<1>1. Fit([job[w] EXCEPT !.pc = "find"]) /\ [job[w] EXCEPT !.pc = "find"].pc # "place"
  BY NextState DEF LockCart
<1>2. UNCHANGED <<cart, orders, lastNumber, coupon, seqLock>> /\ Go(w, [job[w] EXCEPT !.pc = "find"])
  BY DEF LockCart
<1>3. Requests'
  BY <1>1, <1>2, RequestStep
<1>4. Locks'
  BY DEF IInv, Locks, LockCart
<1>5. Tables'
  BY <1>2 DEF IInv, Tables, TypedTables, NumbersGapless, ByNumber, Converted,
              CouponWithinLimits, DiscountsAreRedeemed, Redeemed
<1> QED
  BY <1>3, <1>4, <1>5 DEF IInv

LEMMA FindExistingKeeps ==
    ASSUME IInv, NEW w \in Worker, FindExisting(w)
    PROVE  IInv'
<1>1. CASE End(w, Idle)
  BY <1>1, RollbackKeeps DEF FindExisting, Rollback
<1>2. CASE Go(w, [job[w] EXCEPT !.pc = "number"]) /\ UNCHANGED <<cartLock, seqLock>>
  <2>1. Fit([job[w] EXCEPT !.pc = "number"]) /\ [job[w] EXCEPT !.pc = "number"].pc # "place"
    BY NextState DEF FindExisting
  <2> QED
    BY <1>2, <2>1, OnlyRequest DEF FindExisting
<1> QED
  BY <1>1, <1>2 DEF FindExisting

LEMMA NumberFits ==
    ASSUME NEW r \in Job, r.cart \in Cart, r.items # {}, NEW n \in Nat
    PROVE  /\ Fit([r EXCEPT !.pc = "place", !.number = n])
           /\ [r EXCEPT !.pc = "place", !.number = n].number = n
BY DEF Fit, Job, Pc

LEMMA NextNumberKeeps ==
    ASSUME IInv, NEW w \in Worker, NextNumber(w)
    PROVE  IInv'
<1> DEFINE j == [job[w] EXCEPT !.pc = "place", !.number = lastNumber + 1]
<1>1. /\ job[w] \in Job /\ job[w].pc = "number" /\ job[w].cart \in Cart /\ job[w].items # {}
      /\ lastNumber + 1 \in Nat
  BY DEF IInv, Tables, TypedTables, Requests, Fit, NextNumber
<1>2. Fit(j) /\ j.number = lastNumber + 1
  BY <1>1, NumberFits, Zenon
<1>3. /\ Go(w, j) /\ seqLock = {} /\ seqLock' = {w}
      /\ UNCHANGED <<cart, orders, lastNumber, coupon, cartLock>>
  BY DEF NextNumber
<1> HIDE DEF j
<1>4. Requests'
  BY <1>2, <1>3, RequestStep
<1>5. Locks'
  BY <1>3 DEF IInv, Locks
<1>6. Tables'
  BY <1>3 DEF IInv, Tables, TypedTables, NumbersGapless, ByNumber, Converted,
              CouponWithinLimits, DiscountsAreRedeemed, Redeemed
<1> QED
  BY <1>4, <1>5, <1>6 DEF IInv

(* An edit writes the items or the coupon of its cart and never its status. *)
LEMMA WriteEditKeeps ==
    ASSUME IInv, NEW w \in Worker, WriteEdit(w)
    PROVE  IInv'
<1> DEFINE c == job[w].cart
<1>1. /\ job[w] \in Job /\ c \in Cart /\ cart \in [Cart -> CartRow] /\ cart[c] \in CartRow
      /\ job[w].pc \in {"add", "remove", "attach", "detach"}
  BY DEF IInv, Tables, TypedTables, Requests, Fit, WriteEdit
<1>2. Edited(job[w]) \in CartRow /\ Edited(job[w]).status = cart[c].status
  <2>1. ASSUME NEW row \in CartRow, NEW items \in SUBSET Sku, NEW b \in BOOLEAN
        PROVE  /\ [row EXCEPT !.items = items] \in CartRow
               /\ [row EXCEPT !.items = items].status = row.status
               /\ [row EXCEPT !.coupon = b] \in CartRow
               /\ [row EXCEPT !.coupon = b].status = row.status
    BY DEF CartRow
  <2>2. /\ cart[c].items \cup job[w].items \in SUBSET Sku
        /\ cart[c].items \ job[w].items \in SUBSET Sku
        /\ (job[w].pc = "attach") \in BOOLEAN
    BY <1>1 DEF CartRow, Job
  <2> QED
    BY <1>1, <2>1, <2>2 DEF Edited
<1>3. cart' \in [Cart -> CartRow] /\ \A d \in Cart : cart'[d].status = cart[d].status
  BY <1>1, <1>2 DEF WriteEdit
<1>4. UNCHANGED <<orders, lastNumber, coupon, cartLock, seqLock>>
  BY DEF WriteEdit
<1> HIDE DEF c
<1>5. TypedTables' /\ Converted'
  BY <1>3, <1>4 DEF IInv, Tables, TypedTables, Converted
<1>6. /\ NumbersGapless' /\ ByNumber' /\ CouponWithinLimits' /\ DiscountsAreRedeemed'
      /\ Locks'
  BY <1>4 DEF IInv, Tables, NumbersGapless, ByNumber, CouponWithinLimits,
              DiscountsAreRedeemed, Redeemed, Locks
<1>7. ASSUME Go(w, Idle) PROVE Requests'
  BY <1>4, <1>7, IdleFits, RequestStep DEF Idle
<1>8. ASSUME job[w].pc = "attach", Go(w, [job[w] EXCEPT !.pc = "detach"]) PROVE Requests'
  <2>1. Fit([job[w] EXCEPT !.pc = "detach"]) /\ [job[w] EXCEPT !.pc = "detach"].pc # "place"
    BY <1>8, NextState
  <2> QED
    BY <1>4, <1>8, <2>1, RequestStep
<1> QED
  BY <1>5, <1>6, <1>7, <1>8 DEF IInv, Tables, WriteEdit

-----------------------------------------------------------------------------
(* Changes of an order. *)

LEMMA UpdateKeeps ==
    ASSUME Tables, NEW o \in orders, NEW new \in Order,
           new.number = o.number, new.cart = o.cart, new.discounted = o.discounted,
           Update(o, new), UNCHANGED <<cart, lastNumber, coupon>>
    PROVE  Tables'
<1> DEFINE others == orders \ {o}
<1>1. orders' = others \cup {new} /\ orders = others \cup {o} /\ o \notin others
  BY DEF Update
<1>2. new \notin others
  BY DEF Tables, ByNumber
<1>3. IsFiniteSet(others) /\ IsFiniteSet(orders)
  BY FS_Subset DEF Tables, TypedTables
<1>4. others \subseteq Order
  BY DEF Tables, TypedTables
<1> HIDE DEF others
<1>5. IsFiniteSet(orders') /\ Cardinality(orders') = Cardinality(orders)
  BY <1>1, <1>2, <1>3, FS_AddElement
<1>6. TypedTables'
  BY <1>1, <1>4, <1>5 DEF Tables, TypedTables
<1>7. {x.number : x \in orders'} = {x.number : x \in orders}
  BY <1>1
<1>8. NumbersGapless'
  BY <1>5, <1>7 DEF Tables, NumbersGapless
<1>9. ByNumber' /\ Converted'
  <2>1. \A c \in Cart : (\E x \in orders' : x.cart = c) <=> (\E x \in orders : x.cart = c)
    BY <1>1
  <2>2. \A x \in others : x.number # new.number /\ x.cart # new.cart
    BY <1>1 DEF Tables, ByNumber, Converted
  <2>3. ByNumber'
    BY <1>1, <2>2 DEF Tables, ByNumber
  <2>4. \A x, y \in orders' : x.cart = y.cart => x = y
    BY <1>1, <2>2 DEF Tables, Converted
  <2> QED
    BY <2>1, <2>3, <2>4 DEF Tables, Converted
<1>10. {<<x.number, Owner[x.cart]>> : x \in {y \in orders' : y.discounted}} =
       {<<x.number, Owner[x.cart]>> : x \in {y \in orders : y.discounted}}
  BY <1>1
<1>11. CouponWithinLimits' /\ DiscountsAreRedeemed'
  BY <1>10 DEF Tables, CouponWithinLimits, DiscountsAreRedeemed, Redeemed
<1> QED
  BY <1>6, <1>8, <1>9, <1>11 DEF Tables

LEMMA PatchKeeps ==
    ASSUME IInv, NEW w \in Worker, PatchRazorpayOrderId(w)
    PROVE  IInv'
<1>1. PICK o \in orders : Update(o, [o EXCEPT !.linked = TRUE])
  BY DEF PatchRazorpayOrderId
<1>2. o \in Order
  BY DEF IInv, Tables, TypedTables
<1>3. /\ [o EXCEPT !.linked = TRUE] \in Order
      /\ [o EXCEPT !.linked = TRUE].number = o.number
      /\ [o EXCEPT !.linked = TRUE].cart = o.cart
      /\ [o EXCEPT !.linked = TRUE].discounted = o.discounted
  BY <1>2 DEF Order
<1>4. UNCHANGED <<cart, lastNumber, coupon, cartLock, seqLock>> /\ Go(w, Idle)
  BY DEF PatchRazorpayOrderId
<1>5. Tables'
  BY <1>1, <1>3, <1>4, UpdateKeeps DEF IInv
<1>6. Requests'
  BY <1>4, IdleFits, RequestStep DEF Idle
<1>7. Locks'
  BY <1>4 DEF IInv, Locks
<1> QED
  BY <1>5, <1>6, <1>7 DEF IInv

(* A step outside the requests. *)
LEMMA SettleKeeps ==
    ASSUME IInv, NEW o \in orders, NEW status \in {"CONFIRMED", "CANCELLED"}, Settle(o, status)
    PROVE  IInv'
<1>1. o \in Order
  BY DEF IInv, Tables, TypedTables
<1>2. /\ [o EXCEPT !.status = status] \in Order
      /\ [o EXCEPT !.status = status].number = o.number
      /\ [o EXCEPT !.status = status].cart = o.cart
      /\ [o EXCEPT !.status = status].discounted = o.discounted
  BY <1>1 DEF Order
<1>3. UNCHANGED <<cart, lastNumber, coupon, cartLock, seqLock, job>>
  BY DEF Settle
<1>4. Tables'
  BY <1>2, <1>3, UpdateKeeps DEF IInv, Settle
<1> QED
  BY <1>3, <1>4 DEF IInv, Locks, Requests, NextInLine

LEMMA LeaveReuseWindowKeeps ==
    ASSUME IInv, NEW o \in orders, LeaveReuseWindow(o)
    PROVE  IInv'
<1>1. o \in Order
  BY DEF IInv, Tables, TypedTables
<1>2. /\ [o EXCEPT !.fresh = FALSE] \in Order
      /\ [o EXCEPT !.fresh = FALSE].number = o.number
      /\ [o EXCEPT !.fresh = FALSE].cart = o.cart
      /\ [o EXCEPT !.fresh = FALSE].discounted = o.discounted
  BY <1>1 DEF Order
<1>3. UNCHANGED <<cart, lastNumber, coupon, cartLock, seqLock, job>>
  BY DEF LeaveReuseWindow
<1>4. Tables'
  BY <1>2, <1>3, UpdateKeeps DEF IInv, LeaveReuseWindow
<1> QED
  BY <1>3, <1>4 DEF IInv, Locks, Requests, NextInLine

LEMMA ExpireCouponKeeps ==
    ASSUME IInv, ExpireCoupon
    PROVE  IInv'
<1>1. UNCHANGED <<cart, orders, lastNumber, cartLock, seqLock, job>>
  BY DEF ExpireCoupon
<1>2. /\ coupon' = [limits |-> coupon.limits, active |-> FALSE,
                    usedCount |-> coupon.usedCount, redemptions |-> coupon.redemptions]
  BY DEF ExpireCoupon, IInv, Tables, TypedTables
<1>3. /\ coupon'.limits = coupon.limits /\ coupon'.usedCount = coupon.usedCount
      /\ coupon'.redemptions = coupon.redemptions /\ coupon'.active = FALSE
  BY <1>2
<1>4. Tables'
  BY <1>1, <1>2, <1>3 DEF IInv, Tables, TypedTables, NumbersGapless, ByNumber, Converted,
                          CouponWithinLimits, DiscountsAreRedeemed, Redeemed
<1> QED
  BY <1>1, <1>4 DEF IInv, Locks, Requests, NextInLine

-----------------------------------------------------------------------------
(* The placing of an order. *)

LEMMA TotalInRange ==
    ASSUME NEW items \in (SUBSET Sku) \ {{}}, NEW discounted \in BOOLEAN
    PROVE  GrandTotal(items, discounted) \in 0 .. Cardinality(Sku)
<1>1. IsFiniteSet(Sku)
  BY CheckoutAssumption
<1>2. IsFiniteSet(items) /\ Cardinality(items) <= Cardinality(Sku)
  BY <1>1, FS_Subset
<1>3. Cardinality(items) \in Nat /\ Cardinality(items) # 0 /\ Cardinality(Sku) \in Nat
  BY <1>1, <1>2, FS_CardinalityType, FS_EmptySet
<1> QED
  BY <1>2, <1>3 DEF GrandTotal

(* A redemption: one more, of a number that has none yet, by an identity that may. *)
LEMMA RedeemedOnceMore ==
    ASSUME CouponWithinLimits, IsFiniteSet(coupon.redemptions), coupon.usedCount \in Nat,
           coupon.limits \in Limits,
           NEW c \in Cart, Usable(c), NEW n, \A r \in coupon.redemptions : r[1] # n,
           coupon'.limits = coupon.limits, coupon'.usedCount = coupon.usedCount + 1,
           coupon'.redemptions = coupon.redemptions \cup {<<n, Owner[c]>>}
    PROVE  CouponWithinLimits' /\ IsFiniteSet(coupon'.redemptions)
<1> DEFINE r == <<n, Owner[c]>>
<1>1. r \notin coupon.redemptions /\ r[1] = n /\ r[2] = Owner[c]
  OBVIOUS
<1>2. coupon.limits.usageLimit \in Nat /\ coupon.limits.perCustomer \in Nat
  BY CheckoutAssumption
<1> HIDE DEF r
<1>3. /\ IsFiniteSet(coupon'.redemptions)
      /\ Cardinality(coupon'.redemptions) = Cardinality(coupon.redemptions) + 1
  <2>1. coupon'.redemptions = coupon.redemptions \cup {r}
    BY DEF r
  <2> QED
    BY <1>1, <2>1, FS_AddElement
<1>4. ASSUME NEW d \in Cart
      PROVE  Cardinality(Redeemed(d)') <= coupon'.limits.perCustomer
  <2>1. IsFiniteSet(Redeemed(d)) /\ Cardinality(Redeemed(d)) \in Nat
    BY FS_Subset, FS_CardinalityType DEF Redeemed
  <2>2. CASE Owner[d] = Owner[c]
    <3>1. Redeemed(d)' = Redeemed(d) \cup {r} /\ r \notin Redeemed(d) /\ Redeemed(d) = Redeemed(c)
      BY <1>1, <2>2 DEF Redeemed, r
    <3>2. Cardinality(Redeemed(d)') = Cardinality(Redeemed(d)) + 1
      BY <2>1, <3>1, FS_AddElement
    <3> QED
      BY <1>2, <2>1, <3>1, <3>2 DEF Usable
  <2>3. CASE Owner[d] # Owner[c]
    <3>1. Redeemed(d)' = Redeemed(d)
      BY <1>1, <2>3 DEF Redeemed, r
    <3> QED
      BY <3>1 DEF CouponWithinLimits
  <2> QED
    BY <2>2, <2>3
<1>5. coupon'.usedCount = Cardinality(coupon'.redemptions) /\ coupon'.usedCount <= coupon'.limits.usageLimit
  BY <1>2, <1>3 DEF CouponWithinLimits, Usable
<1> QED
  BY <1>3, <1>4, <1>5 DEF CouponWithinLimits

LEMMA PlacedTables ==
    ASSUME Tables, NEW x \in Order, x.number = lastNumber + 1,
           cart[x.cart].status = "ACTIVE",
           orders' = orders \cup {x}, lastNumber' = lastNumber + 1,
           cart' = [cart EXCEPT ![x.cart].status = "CONVERTED"],
           \/ x.discounted /\ Usable(x.cart)
              /\ coupon' = [coupon EXCEPT !.usedCount = @ + 1,
                                !.redemptions = @ \cup {<<x.number, Owner[x.cart]>>}]
           \/ ~x.discounted /\ coupon' = coupon
    PROVE  Tables'
<1>1. /\ lastNumber \in Nat /\ x.cart \in Cart /\ cart \in [Cart -> CartRow]
      /\ orders \subseteq Order /\ IsFiniteSet(orders)
  BY DEF Tables, TypedTables, Order
<1>2. \A o \in orders : o.number \in 1 .. lastNumber
  BY DEF Tables, NumbersGapless
<1>3. \A o \in orders : o.number # x.number
  BY <1>1, <1>2
<1>4. \A o \in orders : o.cart # x.cart
  BY <1>1 DEF Tables, Converted
<1>5. IsFiniteSet(orders') /\ Cardinality(orders') = Cardinality(orders) + 1
  BY <1>1, <1>3, FS_AddElement
<1>6. NumbersGapless'
  <2>1. {o.number : o \in orders'} = {o.number : o \in orders} \cup {lastNumber + 1}
    OBVIOUS
  <2>2. 1 .. (lastNumber + 1) = (1 .. lastNumber) \cup {lastNumber + 1}
    BY <1>1
  <2>3. /\ {o.number : o \in orders'} = 1 .. (lastNumber + 1)
        /\ Cardinality(orders') = lastNumber + 1
    BY <1>5, <2>1, <2>2 DEF Tables, NumbersGapless
  <2> QED
    BY <2>3 DEF NumbersGapless
<1>7. ByNumber'
  BY <1>3 DEF Tables, ByNumber
<1>8. /\ cart' \in [Cart -> CartRow] /\ cart'[x.cart].status = "CONVERTED"
      /\ \A c \in Cart : c # x.cart => cart'[c] = cart[c]
  BY <1>1 DEF CartRow
<1>9. Converted'
  <2>1. \A o, y \in orders' : o.cart = y.cart => o = y
    BY <1>4 DEF Tables, Converted
  <2>2. ASSUME NEW c \in Cart
        PROVE  (cart'[c].status = "CONVERTED") <=> (\E o \in orders' : o.cart = c)
    BY <1>8 DEF Tables, Converted
  <2> QED
    BY <2>1, <2>2 DEF Converted
<1>10. DiscountsAreRedeemed' /\ CouponWithinLimits' /\ IsFiniteSet(coupon'.redemptions)
       /\ coupon'.limits \in Limits /\ coupon'.usedCount \in Nat
       /\ coupon' = [limits |-> coupon'.limits, active |-> coupon'.active,
                     usedCount |-> coupon'.usedCount, redemptions |-> coupon'.redemptions]
  <2>1. CASE /\ x.discounted /\ Usable(x.cart)
             /\ coupon' = [coupon EXCEPT !.usedCount = @ + 1,
                                !.redemptions = @ \cup {<<x.number, Owner[x.cart]>>}]
    <3>1. coupon' = [limits |-> coupon.limits, active |-> coupon.active,
                     usedCount |-> coupon.usedCount + 1,
                     redemptions |-> coupon.redemptions \cup {<<x.number, Owner[x.cart]>>}]
      BY <2>1 DEF Tables, TypedTables
    <3>2. /\ coupon'.limits = coupon.limits /\ coupon'.active = coupon.active
          /\ coupon'.usedCount = coupon.usedCount + 1
          /\ coupon'.redemptions = coupon.redemptions \cup {<<x.number, Owner[x.cart]>>}
      BY <3>1
    <3>3. \A r \in coupon.redemptions : r[1] # x.number
      BY <1>3 DEF Tables, DiscountsAreRedeemed
    <3>4. CouponWithinLimits' /\ IsFiniteSet(coupon'.redemptions)
      BY <1>1, <2>1, <3>2, <3>3, RedeemedOnceMore DEF Tables, TypedTables
    <3>5. {o \in orders' : o.discounted} = {o \in orders : o.discounted} \cup {x}
      BY <2>1
    <3>6. {<<o.number, Owner[o.cart]>> : o \in {y \in orders' : y.discounted}} =
            {<<o.number, Owner[o.cart]>> : o \in {y \in orders : y.discounted}}
              \cup {<<x.number, Owner[x.cart]>>}
      BY <3>5
    <3>7. DiscountsAreRedeemed'
      BY <3>2, <3>6 DEF Tables, DiscountsAreRedeemed
    <3> QED
      BY <3>1, <3>2, <3>4, <3>7 DEF Tables, TypedTables
  <2>2. CASE ~x.discounted /\ coupon' = coupon
    <3>1. {o \in orders' : o.discounted} = {o \in orders : o.discounted}
      BY <2>2
    <3> QED
      BY <2>2, <3>1 DEF Tables, TypedTables, DiscountsAreRedeemed, CouponWithinLimits, Redeemed
  <2> QED
    BY <2>1, <2>2
<1>11. TypedTables'
  BY <1>1, <1>5, <1>8, <1>10 DEF TypedTables
<1> QED
  BY <1>6, <1>7, <1>9, <1>10, <1>11 DEF Tables

LEMMA PlaceKeeps ==
    ASSUME IInv, NEW w \in Worker, Place(w)
    PROVE  IInv'
<1> DEFINE j == job[w]
           x == [number |-> j.number, cart |-> j.cart, items |-> j.items, total |-> Total(w),
                 discounted |-> j.coupon, status |-> "PENDING_PAYMENT",
                 linked |-> FALSE, fresh |-> TRUE]
           after == [j EXCEPT !.pc = "razorpay"]
<1>1. CASE Rollback(w)
  BY <1>1, RollbackKeeps
<1>2. CASE ~Rollback(w)
  <2>1. /\ j \in Job /\ j.pc = "place" /\ j.cart \in Cart /\ j.items # {}
        /\ seqLock = {w} /\ j.number = lastNumber + 1
    BY DEF IInv, Requests, Fit, NextInLine, Place
  <2>2. /\ j.items \in (SUBSET Sku) \ {{}} /\ j.number \in Nat /\ j.coupon \in BOOLEAN
    BY <2>1 DEF Job
  <2>3. Total(w) \in 0 .. Cardinality(Sku)
    BY <2>2, TotalInRange DEF Total
  <2>4. /\ x \in Order /\ x.number = lastNumber + 1 /\ x.cart = j.cart /\ x.discounted = j.coupon
    BY <2>1, <2>2, <2>3 DEF Order
  <2>5. /\ Redeemable(w) /\ CartActive(w)
        /\ orders' = orders \cup {x} /\ lastNumber' = j.number /\ coupon' = Redemption(w)
        /\ cart' = [cart EXCEPT ![j.cart].status = "CONVERTED"] /\ End(w, after)
    BY <1>2 DEF Place
  <2>6. Fit(after) /\ after.pc # "place"
    BY <2>1 DEF Fit, Job, Pc
  <2> HIDE DEF x, after
  <2>7. cart[x.cart].status = "ACTIVE" /\ (x.discounted => Usable(x.cart))
    BY <2>4, <2>5 DEF CartActive, Redeemable
  <2>8. \/ x.discounted /\ Usable(x.cart)
            /\ coupon' = [coupon EXCEPT !.usedCount = @ + 1,
                              !.redemptions = @ \cup {<<x.number, Owner[x.cart]>>}]
        \/ ~x.discounted /\ coupon' = coupon
    BY <2>1, <2>2, <2>4, <2>5, <2>7 DEF Redemption
  <2>9. Tables'
    BY <2>1, <2>4, <2>5, <2>7, <2>8, PlacedTables DEF IInv
  <2>10. Locks' /\ Go(w, after) /\ seqLock' = seqLock \ {w}
    BY <2>5, EndLocks DEF IInv
  <2>11. Requests'
    BY <2>1, <2>6, <2>10, RequestStep
  <2> QED
    BY <2>9, <2>10, <2>11 DEF IInv
<1> QED
  BY <1>1, <1>2

-----------------------------------------------------------------------------
(* The invariant is inductive. *)

LEMMA InitIInv == Init => IInv
<1> SUFFICES ASSUME Init PROVE IInv
  OBVIOUS
<1>1. PICK l \in Limits : coupon = [limits |-> l, active |-> TRUE, usedCount |-> 0, redemptions |-> {}]
  BY DEF Init
<1>2. /\ coupon.limits = l /\ coupon.active = TRUE /\ coupon.usedCount = 0
      /\ coupon.redemptions = {} /\ l.usageLimit \in Nat /\ l.perCustomer \in Nat
  BY <1>1, CheckoutAssumption
<1>3. IsFiniteSet(orders) /\ IsFiniteSet(coupon.redemptions) /\ Cardinality(orders) = 0
      /\ Cardinality(coupon.redemptions) = 0
  BY <1>2, FS_EmptySet DEF Init
<1>4. TypedTables
  BY <1>1, <1>2, <1>3 DEF Init, TypedTables, CartRow
<1>5. NumbersGapless
  BY <1>3 DEF Init, NumbersGapless
<1>6. ByNumber /\ Converted
  BY DEF Init, ByNumber, Converted
<1>7. CouponWithinLimits
  <2>1. \A c \in Cart : Redeemed(c) = {}
    BY <1>2 DEF Redeemed
  <2> QED
    BY <1>2, <1>3, <2>1, FS_EmptySet DEF CouponWithinLimits
<1>8. DiscountsAreRedeemed
  BY <1>2 DEF Init, DiscountsAreRedeemed
<1>9. Locks
  BY DEF Init, Locks
<1>10. Requests
  BY IdleFits DEF Init, Requests, Fit, NextInLine, Idle
<1> QED
  BY <1>4, <1>5, <1>6, <1>7, <1>8, <1>9, <1>10 DEF IInv, Tables

LEMMA NextKeeps == IInv /\ [Next]_vars => IInv'
<1> SUFFICES ASSUME IInv, [Next]_vars PROVE IInv'
  OBVIOUS
<1>1. ASSUME NEW w \in Worker,
             \E c \in Cart, s \in Sku : AddItem(w, c, s) \/ RemoveItem(w, c, s)
      PROVE  IInv'
  BY <1>1, StartEditKeeps DEF AddItem, RemoveItem
<1>2. ASSUME NEW w \in Worker,
             \E c \in Cart : ApplyCoupon(w, c) \/ RemoveCoupon(w, c) \/ ReadCart(w, c)
      PROVE  IInv'
  BY <1>2, StartEditKeeps, ReadCartKeeps DEF ApplyCoupon, RemoveCoupon
<1>3. ASSUME NEW w \in Worker,
             \/ WriteEdit(w) \/ LockCart(w) \/ FindExisting(w) \/ NextNumber(w) \/ Place(w)
             \/ PatchRazorpayOrderId(w)
      PROVE  IInv'
  BY <1>3, WriteEditKeeps, LockCartKeeps, FindExistingKeeps, NextNumberKeeps, PlaceKeeps, PatchKeeps
<1>4. ASSUME NEW w \in Worker, Die(w)
      PROVE  IInv'
  BY <1>4, RollbackKeeps DEF Die
<1>5. ASSUME NEW o \in orders,
             \/ \E status \in {"CONFIRMED", "CANCELLED"} : Settle(o, status)
             \/ LeaveReuseWindow(o)
      PROVE  IInv'
  BY <1>5, SettleKeeps, LeaveReuseWindowKeeps
<1>6. CASE ExpireCoupon
  BY <1>6, ExpireCouponKeeps
<1>7. CASE UNCHANGED vars
  <2>1. Tables'
    BY <1>7 DEF vars, IInv, Tables, TypedTables, NumbersGapless, ByNumber, Converted,
                CouponWithinLimits, DiscountsAreRedeemed, Redeemed
  <2>2. Locks' /\ Requests'
    BY <1>7 DEF vars, IInv, Locks, Requests, NextInLine
  <2> QED
    BY <2>1, <2>2 DEF IInv
<1>8. CASE Next
  BY <1>1, <1>2, <1>3, <1>4, <1>5, <1>6, <1>8 DEF Next
<1> QED
  BY <1>7, <1>8

-----------------------------------------------------------------------------
(* The theorems. *)

LEMMA AtMostOne ==
    ASSUME NEW S, \A v, w \in S : v = w
    PROVE  IsFiniteSet(S) /\ Cardinality(S) <= 1
<1>1. CASE S = {}
  BY <1>1, FS_EmptySet
<1>2. CASE S # {}
  <2>1. PICK v \in S : S = {v}
    BY <1>2
  <2>2. IsFiniteSet({v}) /\ Cardinality({v}) = 1
    BY FS_Singleton
  <2> QED
    BY <2>1, <2>2
<1> QED
  BY <1>1, <1>2

(* Carts, orders, the coupon and the locks hold values they can have, and a lock has one *)
(* holder at most.                                                                         *)
THEOREM TypeCorrect == Spec => []TypeOK
<1>1. ASSUME IInv PROVE TypeOK
  <2>1. /\ cart \in [Cart -> CartRow] /\ coupon.limits \in Limits /\ coupon.usedCount \in Nat
        /\ orders \subseteq Order /\ {o.number : o \in orders} = 1 .. lastNumber
    BY <1>1 DEF IInv, Tables, TypedTables, NumbersGapless
  <2>2. \A c \in Cart : Cardinality(cartLock[c]) <= 1
    BY <1>1, AtMostOne DEF IInv, Locks
  <2>3. Cardinality(seqLock) <= 1
    BY <1>1, AtMostOne DEF IInv, Locks
  <2>4. \A o \in orders : /\ o.number \in 1 .. lastNumber
                          /\ o.cart \in Cart /\ o.items \in (SUBSET Sku) \ {{}}
                          /\ o.total \in 0 .. Cardinality(Sku)
    BY <2>1 DEF Order
  <2> QED
    BY <2>1, <2>2, <2>3, <2>4 DEF TypeOK, CartRow
<1> QED
  BY <1>1, InitIInv, NextKeeps, PTL DEF Spec

(* However often a cart is submitted, and wherever a request dies, it becomes one order at *)
(* most, and is CONVERTED exactly when it has become one.                                    *)
THEOREM OneOrderEach == Spec => []OneOrderPerCart
<1>1. ASSUME IInv PROVE OneOrderPerCart
  <2> SUFFICES ASSUME NEW c \in Cart
               PROVE  Cardinality({o \in orders : o.cart = c}) =
                          IF cart[c].status = "CONVERTED" THEN 1 ELSE 0
    BY DEF OneOrderPerCart
  <2>1. CASE cart[c].status = "CONVERTED"
    <3>1. PICK x \in orders : x.cart = c
      BY <1>1, <2>1 DEF IInv, Tables, Converted
    <3>2. {o \in orders : o.cart = c} = {x}
      BY <1>1, <3>1 DEF IInv, Tables, Converted
    <3> QED
      BY <2>1, <3>2, FS_Singleton
  <2>2. CASE cart[c].status # "CONVERTED"
    <3>1. {o \in orders : o.cart = c} = {}
      BY <1>1, <2>2 DEF IInv, Tables, Converted
    <3> QED
      BY <2>2, <3>1, FS_EmptySet
  <2> QED
    BY <2>1, <2>2
<1> QED
  BY <1>1, InitIInv, NextKeeps, PTL DEF Spec

(* Order numbers have no gap and no duplicate, whatever checkouts roll back or die. *)
THEOREM NoGaps == Spec => []NumbersGapless
<1>1. IInv => NumbersGapless
  BY DEF IInv, Tables
<1> QED
  BY <1>1, InitIInv, NextKeeps, PTL DEF Spec

(* The coupon is used within its limits although every validation is stale when used. *)
THEOREM CouponLimited == Spec => []CouponWithinLimits
<1>1. IInv => CouponWithinLimits
  BY DEF IInv, Tables
<1> QED
  BY <1>1, InitIInv, NextKeeps, PTL DEF Spec

(* Every discount was paid for with a redemption, and no redemption is lost. *)
THEOREM DiscountsPaid == Spec => []DiscountsAreRedeemed
<1>1. IInv => DiscountsAreRedeemed
  BY DEF IInv, Tables
<1> QED
  BY <1>1, InitIInv, NextKeeps, PTL DEF Spec

=============================================================================
