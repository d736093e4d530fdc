\* Two calls for one name; every transaction a step away from a proper claim.
CONSTANTS
    Claims = {c1, c2}
    Name = "name"
    Us = "us"
    OurAgent = "agent"
    Treasury = "treasury"
    NoTreasury = NoTreasury
    NoCap = NoCap
    NoOffer = NoOffer
    Prices = {0, 3}
    Caps = {0, NoCap}
    Offers <- OffersHere
    SigFee = 1
    UnitsPerIx = 2
    MaxUnits = 8
    Scale = 4
    MaxPriorityFee = 2
    Tolerance = 5
    MaxInstructions = 3
    Rent = 4
SYMMETRY Symmetry
SPECIFICATION Spec
INVARIANTS
    TypeOK
    SignedIsOurClaim
    SignedCostsTheQuote
    SpentIsCharged
    ClaimedIsOurs
    OneClaimInDoubt
CHECK_DEADLOCK FALSE
