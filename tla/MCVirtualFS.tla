----------------------------- MODULE MCVirtualFS -----------------------------
(***************************************************************************)
(* One path of every kind, two links, and views of every parameter type.   *)
(***************************************************************************)
EXTENDS VirtualFS

Path(kind, name) == [kind |-> kind, name |-> name, view |-> None, param |-> None]
Entry(table, view, param) ==
    [kind |-> "ViewEntry", name |-> table, view |-> view, param |-> param]

AllPaths ==
    { Path(kind, None) : kind \in Roots \cup {"TableRoot"} }
    \cup { Path(kind, "docs") : kind \in Inspected \cup {"SearchQuery"} }
    \cup { Path("Table", "orders"), Path("View", "orders"),
           Path("Result", "last"), Path("Tmp", "scratch"),
           Path("Symlink", "mine"), Path("Symlink", "yours") }
    \cup { Entry("orders", view, param) :
             view \in {"by_customer", "by_status", "missing"}, param \in {"42", "open"} }

AllTools == {"ls", "cat", "find", "grep", "rm", "echo"}

Mount(name, column, type) ==
    [name |-> name, table |-> "orders", column |-> column, type |-> type]

\* The second by_status is never reached.
OrderViews ==
    << Mount("by_customer", "customer_id", "Integer"), Mount("by_status", "status", "String"),
       Mount("by_status", "status", "Uuid") >>

TypedParams == [Integer |-> {"42"}, Uuid |-> {}]
=============================================================================
