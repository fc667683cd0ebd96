SPECIFICATION Spec

CONSTANTS
    Contents <- Tables
    Matches <- Predicates
    Programs <- AllPrograms
    DefaultCount = 2
    None = None

INVARIANTS
    TypeOK
    OrderlyPlansKeepOutput

\* A chain ends with its output.
CHECK_DEADLOCK FALSE
