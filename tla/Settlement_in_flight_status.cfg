\* One deposit.
CONSTANTS
    Deposits = {d1}
    Claims = {}
    Reclaims = {}
    d1 = d1
    Target <- TargetFirst
    SecondRpc = TRUE
    Suspects = {"none"}
SPECIFICATION Spec
INVARIANTS
    ClosedMeansNeverFunded
CHECK_DEADLOCK FALSE
