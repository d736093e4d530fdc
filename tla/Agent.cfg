\* Two senders and the pool they share.
CONSTANTS
    None = None
    Senders = {a, b}
    Known <- MCKnown
    Said <- MCSaid
    Grant = 1
    Low = 1
    PerSender = 1
    GlobalMax = 2
    MaxMessages = 2
    MaxCodes = 3
    MaxMishaps = 1
SPECIFICATION Spec
INVARIANTS
    TypeOK
    CodesGoToOne
    SameCodesAgain
    MarkedIsSettled
    UnsavedIsExcused
    AlertedOnce
PROPERTIES
    EverySettled
