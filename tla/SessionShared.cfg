SPECIFICATION SlowSpec

CONSTANTS
    Tasks = {t1, t2}
    Lines <- QueryLines
    ToolCalls <- ReadCalls
    Mode = "ReadWrite"
    FaultyDriver = TRUE
    MaxCalls = 2
    Paths <- AllPaths
    Tools <- AllTools
    Views <- NoViews
    Casts <- NoCasts
    None = None
    Ids = {i1, i2, i3, i4, i5, i6, i7, i8}
    MaxResults = 2
    NotFound = NotFound


INVARIANTS
    TypeOK
    OutputsMatchGroups

PROPERTIES
    LastNeverGoesBack
    OthersProceed

\* Nobody calls more than MaxCalls times.
CHECK_DEADLOCK FALSE
