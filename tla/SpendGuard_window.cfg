\* Three calls; a ledger of two entries, so that a third approval merges the
\* oldest two; a floor above the smaller quote, room for three floors or for one
\* large charge.
CONSTANTS
    Attempts = {a1, a2, a3}
    NoOne = NoOne
    Merged = Merged
    Callers = {"xete_send_message"}
    Quotes = {1, 5}
    MaxLamports = 5
    WindowLamports = 6
    WindowSeconds = 3
    Floor = 2
    Slack = 1
    MaxEntries = 2
    MaxClock = 5
SYMMETRY Symmetry
SPECIFICATION Spec
INVARIANTS
    WindowCeiling
    NothingForgotten
    AmountsConserved
PROPERTIES
    OnlyOwnerOrAge
    ImplementsCeiling
