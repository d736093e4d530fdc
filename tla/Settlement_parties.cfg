\* One settlement: deposited, claimed and reclaimed at once.
CONSTANTS
    Deposits = {d1}
    Claims = {c1}
    Reclaims = {r1}
    d1 = d1
    Target <- TargetFirst
    SecondRpc = TRUE
    Suspects = {"none"}
SPECIFICATION Spec
INVARIANTS
    SuccessIsFinal
    FailedNeverLands
CHECK_DEADLOCK FALSE
