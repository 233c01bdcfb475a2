----------------------------- MODULE MCShipping -----------------------------
(* One order, two AWBs; what the courier may report, per run. *)
EXTENDS Shipping, TLC

Alike == Permutations(Clerk) \cup Permutations(Hook)

Says(a, words, hasId, at) == [awb |-> a, text |-> words, hasId |-> hasId, at |-> at]

(* A failed attempt and two deliveries with different times, one of them with no id. *)
FullJourney ==
    {Says("awb1", {"undeliver", "deliver"}, TRUE, 2),
     Says("awb1", {"deliver"}, FALSE, 3), Says("awb1", {"completed"}, TRUE, 4)}

(* A failed attempt and a delivery. *)
Deliveries ==
    {Says("awb1", {"undeliver", "deliver"}, TRUE, 2), Says("awb1", {"deliver"}, TRUE, 3)}

(* The courier gives neither an id nor a time. *)
NoIdNoTime == {Says("awb1", {"transit"}, FALSE, 0)}

(* A text that holds the keywords of two statuses. *)
OutForDelivery == {Says("awb1", {"deliver", "out for delivery"}, TRUE, 1)}

(* Texts with the keywords of two statuses, or of one, and an event with no id and time. *)
Disputed == OutForDelivery \cup NoIdNoTime \cup Deliveries

=============================================================================
