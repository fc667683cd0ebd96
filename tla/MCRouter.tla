------------------------------ MODULE MCRouter ------------------------------
(***************************************************************************)
(* Operations for the runs of Router: on two collections, a table and a    *)
(* graph, at least one of every path through dispatch().                   *)
(***************************************************************************)
EXTENDS Router

Call(kind, on, request) == [kind |-> kind, on |-> on, request |-> request]

\* Whole-database listings against writes of one collection, and two reads
\* of one collection that only their kind tells apart.
CollectionOps ==
    { Call("ListCollections", {}, "all"),
      Call("InspectCollection", {"docs"}, "all"),
      Call("VectorSearch", {"docs"}, "all"),
      Call("Upsert", {"docs"}, "all"),
      Call("CreateCollection", {"docs"}, "all"),
      Call("DropCollection", {"docs"}, "all") }

\* Two tables: a join reads both, a write changes one.
TableOps ==
    { Call("ListTables", {}, "all"),
      Call("DescribeTable", {"users"}, "all"),
      Call("QueryTable", {"users"}, "all"),
      Call("QueryTable", {"users"}, "limit"),
      Call("MergeTable", {"users", "orders"}, "all"),
      Call("InsertRows", {"orders"}, "all"),
      Call("DeleteRows", {"users"}, "all"),
      Call("ReadResult", {}, "last") }

\* One graph: a query that reads, a query that creates nodes (to is_write()
\* both are reads) and a write.
GraphReadWriteOps ==
    { Call("GraphQuery", {"graph"}, "match"),
      Call("GraphQuery", {"graph"}, "create"),
      Call("Upsert", {"graph"}, "all") }

\* A reader and a writer of one table, for the run about overlap.
ReadWriteOps ==
    { Call("QueryTable", {"users"}, "all"),
      Call("UpdateRows", {"users"}, "all") }

AllOps == CollectionOps \cup TableOps
=============================================================================
