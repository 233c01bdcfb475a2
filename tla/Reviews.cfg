\* Two moderators refute RatingIsApproved; with Session = {"w1"} it holds.
SPECIFICATION Spec
CONSTANTS
    Customer = {"c1", "c2"}
    Stars = {1, 5}
    Session = {"w1", "w2"}
    MaxCount = 3
INVARIANTS
    TypeOK
    HelpfulIsVotes
    RatingIsApproved
CHECK_DEADLOCK FALSE
