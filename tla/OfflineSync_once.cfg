SPECIFICATION Spec
CONSTANTS
    Knock = {"k1"}
    Triple = {"k1", "k2"}
    TripleOf <- OwnTriple
    QueueId = {"q1", "q2"}
    Call = {"c1"}
    None = None
INVARIANT AtMostOnce
CHECK_DEADLOCK FALSE
