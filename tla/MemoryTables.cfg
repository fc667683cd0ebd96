SPECIFICATION TablesSpec
CONSTANTS
    TableNames = {"users", "ghosts"}
    PrimaryKey <- Keys
    Rows <- AllRows
    RowBatches <- UpTo2Rows
    Updates <- NewColumn
    Queries <- SomeQueries
    Filters <- SomeFilters
    Exact = 4
    MaxRows = 3
    None = None
INVARIANTS TablesTypeOK UpsertByKey PagesMakeTheAnswer SortedByAllColumns FiltersCutTheOrder
