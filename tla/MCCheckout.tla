----------------------------- MODULE MCCheckout -----------------------------
(* Checkout with two carts of one person: one submitted as a registered     *)
(* customer, one as a guest with the same email, or with two strangers.     *)
EXTENDS Checkout

OnePerson == [c \in Cart |-> "someone@example.org"]

(* A coupon whose total limit bites first, and one whose limit per person does. *)
EitherLimit == [usageLimit : {1, 2}, perCustomer : {1, 2}]

OneUse == {[usageLimit |-> 1, perCustomer |-> 1]}

Strangers == [c \in Cart |-> c]
=============================================================================
