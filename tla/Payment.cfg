\* Two calls for one message, two polls each; no symmetry, for the liveness.
CONSTANTS
    Calls = {c1, c2}
    MaxPolls = 2
SPECIFICATION FairSpec
INVARIANTS
    SentMeansPaid
    LiveIsCharged
    FailedIsNotInDoubt
    PaidAtMostOnce
PROPERTIES
    CallEnds
CHECK_DEADLOCK FALSE
