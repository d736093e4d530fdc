\* Two processes of one home directory.
CONSTANTS
    Procs = {p1, p2}
    None = None
    Tokens = {t1, t2, t3}
SYMMETRY Symmetry
SPECIFICATION Spec
INVARIANTS
    ConflictIsProven
    StaleTokenIsRenewed
PROPERTIES
    UnreadableIsWarned
    OldKeystoreSurvives
CHECK_DEADLOCK FALSE
