SPECIFICATION Spec
CONSTANTS
    Names = {"docs"}
    Records <- SomeRecords
    Batches <- UpTo2Records
    Searches <- SomeSearches
    Filters <- SomeFilters
    Exact = 4
    None = None
INVARIANT TypeOK
PROPERTY ImplementsKeyed
