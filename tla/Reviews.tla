------------------------------- MODULE Reviews --------------------------------
(***************************************************************************)
(* ReviewsService: the reviews of one product, their helpful votes, and the  *)
(* denormalised rating of the product, under concurrent moderation.          *)
(*                                                                          *)
(* moderateReview is one transaction at READ COMMITTED: it reads the review  *)
(* (ReadReview), waits for product_rating_<product>, and writes what follows  *)
(* from that first read (Moderate).  Everything behind the lock is one step:  *)
(* whoever writes the product holds it.                                      *)
(*                                                                          *)
(* Abstractions: a review is named by its author, who writes one per         *)
(* product; texts, the link to the verifying order and reads are left out.   *)
(***************************************************************************)
EXTENDS Integers, FiniteSets, FiniteSetsExt

CONSTANTS
    Customer, Stars, Session,
    MaxCount    \* bound on ratingCount

VARIABLES
    status,     \* author -> status of the review ("NONE": not written)
    rating,     \* author -> rating
    helpful,    \* author -> helpfulCount
    votes,      \* review_helpful_votes: <<author, voter>>
    product,    \* ratingSum and ratingCount
    job         \* Session -> the moderation under way

vars == <<status, rating, helpful, votes, product, job>>

Targets == {"APPROVED", "REJECTED"}
Idle == [pc |-> "idle"]

Init ==
    /\ status = [c \in Customer |-> "NONE"]
    /\ rating = [c \in Customer |-> 0]
    /\ helpful = [c \in Customer |-> 0]
    /\ votes = {}
    /\ product = [sum |-> 0, count |-> 0]
    /\ job = [w \in Session |-> Idle]

(* submitReview: a second review of one author hits the unique key. *)
SubmitReview(c, n) ==
    /\ status[c] = "NONE"
    /\ status' = [status EXCEPT ![c] = "PENDING"]
    /\ rating' = [rating EXCEPT ![c] = n]
    /\ UNCHANGED <<helpful, votes, product, job>>

(* The unique key of review_helpful_votes. *)
Fresh(c, v) == <<c, v>> \notin votes

(* markHelpful: a vote and its count, or neither. *)
MarkHelpful(c, v) ==
    /\ Fresh(c, v)
    /\ status[c] = "APPROVED"
    /\ votes' = votes \cup {<<c, v>>}
    /\ helpful' = [helpful EXCEPT ![c] = @ + 1]
    /\ UNCHANGED <<status, rating, product, job>>

(* The read at the head of moderateReview; a review that is already there is returned. *)
ReadReview(w, c, target) ==
    /\ job[w].pc = "idle"
    /\ status[c] \notin {"NONE", target}
    /\ product.count < MaxCount
    /\ job' = [job EXCEPT ![w] = [pc |-> "locking", review |-> c, was |-> status[c], target |-> target]]
    /\ UNCHANGED <<status, rating, helpful, votes, product>>

(* What it was when it was read, before the lock. *)
Was(j) == j.was

(* The rating after the transition of a review of n stars from one status to another; *)
(* a subtraction that the counters cannot absorb is skipped.                           *)
Rated(n, from, to) ==
    CASE from # "APPROVED" /\ to = "APPROVED" -> [sum |-> product.sum + n, count |-> product.count + 1]
      [] from = "APPROVED" /\ to # "APPROVED" /\ product.count >= 1 /\ product.sum >= n
            -> [sum |-> product.sum - n, count |-> product.count - 1]
      [] OTHER -> product

(* Under the lock of the product: the rating, the status, the commit. *)
Moderate(w) ==
    LET j == job[w] IN
    /\ j.pc = "locking"
    /\ product' = Rated(rating[j.review], Was(j), j.target)
    /\ status' = [status EXCEPT ![j.review] = j.target]
    /\ job' = [job EXCEPT ![w] = Idle]
    /\ UNCHANGED <<rating, helpful, votes>>

(* The transaction fails and leaves no trace. *)
Fail(w) ==
    /\ job[w].pc = "locking"
    /\ job' = [job EXCEPT ![w] = Idle]
    /\ UNCHANGED <<status, rating, helpful, votes, product>>

Next ==
    \/ \E c \in Customer, n \in Stars : SubmitReview(c, n)
    \/ \E c, v \in Customer : MarkHelpful(c, v)
    \/ \E w \in Session, c \in Customer, target \in Targets : ReadReview(w, c, target)
    \/ \E w \in Session : Moderate(w) \/ Fail(w)

Spec == Init /\ [][Next]_vars

-----------------------------------------------------------------------------
(* Properties. *)

TypeOK ==
    /\ status \in [Customer -> {"NONE", "PENDING", "APPROVED", "REJECTED"}]
    /\ rating \in [Customer -> Stars \cup {0}]
    /\ helpful \in [Customer -> Nat]
    /\ votes \subseteq Customer \X Customer
    /\ product \in [sum : Nat, count : Nat]
    /\ job \in [Session -> {Idle} \cup
           [pc : {"locking"}, review : Customer, was : {"PENDING", "APPROVED", "REJECTED"}, target : Targets]]

Approved == {c \in Customer : status[c] = "APPROVED"}

(* "the denormalized aggregate MUST change by EXACTLY the review's rating": the product's *)
(* rating is that of its approved reviews, whoever moderates at the same time.            *)
RatingIsApproved ==
    /\ product.count = Cardinality(Approved)
    /\ product.sum = MapThenSumSet(LAMBDA c : rating[c], Approved)

(* The count of helpful votes is the number of its rows, whatever happens to the review. *)
HelpfulIsVotes == \A c \in Customer : helpful[c] = Cardinality({v \in Customer : <<c, v>> \in votes})

=============================================================================
