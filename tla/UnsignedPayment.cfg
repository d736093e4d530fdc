\* Two calls of the three tools, the payee by name or by wallet; two servers, of which one may lie.
CONSTANTS
    Calls = {"first", "second"}
    Configured <- ConfiguredHere
    Server <- ServerHere
    Owners = {o1, o2}
    Nobody = Nobody
    MaxLag = 1
    Rate = 2
    SeenMax = 64
    MaxSlot = 3
    MaxClock = 1
    Depositor = "depositor"
    Nonce = "nonce"
    NoNonce = NoNonce
    NoId = NoId
    SigFee = 2
    UnitsPerIx = 2
    MaxUnits = 8
    Scale = 2
    MaxFee = 6
    MinEscrow = 3
    Limit = 2
    Price = 1
    Id = "id"
    Salt = "salt"
    Amount = 5
    Amounts = {2, 5}
    Offers <- OffersHere
    ByName = ByName
    Plans <- PlansHere
    None = None
SYMMETRY Symmetry
SPECIFICATION Spec
INVARIANTS
    TypeOK
    OldOwnerIsNotPaid
    BehindMeansBehind
    ApprovedPaysThePayee
    ApprovedDoesNothingElse
    CorroboratedReportIsTrue
CHECK_DEADLOCK FALSE
