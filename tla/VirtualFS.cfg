SPECIFICATION VfsSpec

CONSTANTS
    Paths <- AllPaths
    Tools <- AllTools
    Views <- OrderViews
    Casts <- TypedParams
    None = None

INVARIANTS
    VfsTypeOK
    LinksAreTransparent
    PathsOnlyRead
