SPECIFICATION Spec

CONSTANTS
    Inputs <- AllTexts
    Value <- Seven
    DefaultCount = 10
    None = None

INVARIANTS
    TypeOK
    TokensFollowQuoting
    HalvesMakeTheLine
    ArgumentsKept
    PathsRoundTrip

\* A line has been parsed.
CHECK_DEADLOCK FALSE
