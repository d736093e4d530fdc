\* A depositor that tries again; one endpoint of two may lie, whichever.
CONSTANTS
    Deposits = {d1, d2}
    Claims = {}
    Reclaims = {}
    d1 = d1
    Target <- TargetFirst
    SecondRpc = TRUE
    Suspects = {"none", "primary", "second"}
SPECIFICATION Spec
INVARIANTS
    LiveDepositIsKept
    FundedAtMostOnce
    DroppedNeverLands
CHECK_DEADLOCK FALSE
