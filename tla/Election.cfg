\* The four properties listed last are refuted.  The others hold: drop the four,
\* and set MaxElections = 1 to explore every state in a minute.
SPECIFICATION Spec
CONSTANTS
    Member = {"m1", "m2", "m3"}
    NoOne = "nobody"
    Session = {"w1", "w2"}
    MaxElections = 2
INVARIANTS
    TypeOK
    LeaderWasElected
    OneActiveElection
PROPERTIES
    FinalizedOnce
    NoLateVote
    WinnerHasMost
    SoleIsUnopposed
CHECK_DEADLOCK FALSE
