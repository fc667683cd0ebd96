SPECIFICATION Spec

CONSTANTS
    Contents <- Tables
    Matches <- Predicates
    Programs <- HeadTailPrograms
    DefaultCount = 2
    None = None

INVARIANT PlanKeepsOutput

\* A chain ends with its output.
CHECK_DEADLOCK FALSE
