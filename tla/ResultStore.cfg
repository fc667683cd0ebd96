SPECIFICATION Spec
CONSTANTS
    Ids = {u1, u2, u3, u4, u5}
    ResultSets = {r1, r2}
    MaxResults = 3
    NotFound = NotFound
INVARIANTS TypeOK IndexesAgree LastIsNewest
PROPERTY ImplementsWindow
