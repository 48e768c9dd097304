SPECIFICATION FairSpec
CONSTANTS
    Knock = {"k1", "k2"}
    Triple = {"k1", "k2"}
    TripleOf <- OwnTriple
    QueueId = {"q1", "q2"}
    Call = {"c1"}
    None = None
INVARIANTS TypeOK NothingLost
PROPERTY KnockArrives
CHECK_DEADLOCK FALSE
