\* Two calls with any caller and amount, and a cap that the largest quote exceeds.
\* No symmetry, for the liveness.
CONSTANTS
    Attempts = {a1, a2}
    NoOne = NoOne
    Merged = Merged
    Callers = {"xete_send_message", "xete_settle_create", "xete_alias_claim"}
    Quotes = {1, 3, 4}
    MaxLamports = 3
    WindowLamports = 4
    WindowSeconds = 3
    Floor = 2
    Slack = 1
    MaxEntries = 3
    MaxClock = 4
SPECIFICATION FairSpec
INVARIANTS
    RefundLeavesNothing
PROPERTIES
    CallsAnswered
