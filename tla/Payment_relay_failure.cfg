\* One call is enough.
CONSTANTS
    Calls = {c1}
    MaxPolls = 1
SPECIFICATION Spec
INVARIANTS
    FailedNeverSwallowsAPayment
CHECK_DEADLOCK FALSE
