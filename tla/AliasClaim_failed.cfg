\* One call, and a status request that raises.
CONSTANTS
    Claims = {c1}
    Name = "name"
    Us = "us"
    OurAgent = "agent"
    Treasury = "treasury"
    NoTreasury = NoTreasury
    NoCap = NoCap
    NoOffer = NoOffer
    Prices = {0, 3}
    Caps = {0, NoCap}
    Offers <- OffersHere
    SigFee = 1
    UnitsPerIx = 2
    MaxUnits = 8
    Scale = 4
    MaxPriorityFee = 2
    Tolerance = 5
    MaxInstructions = 3
    Rent = 4
SPECIFICATION Spec
INVARIANTS
    FailedNeverSwallowsAClaim
CHECK_DEADLOCK FALSE
