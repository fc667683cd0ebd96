------------------------------ MODULE Operation ------------------------------
(***************************************************************************)
(* DbOperation (crates/dbshell-core/src/operation.rs).  An operation is a  *)
(* record [kind, on, request]: `on` is the set of tables, collections or   *)
(* graphs it names, `request` stands for every other field of the variant. *)
(***************************************************************************)

\* VFS-local kinds: they name no driver.
LocalKinds == {"ReadResult", "ListResults"}

\* is_write().  SlipIsWrite forgets one variant of the match.
SlipIsWrite(o) ==
    o.kind \in {"Delete", "InsertRows", "UpsertRows", "UpdateRows", "DeleteRows",
                "CreateCollection", "DropCollection"}
IsWrite(o) ==
    o.kind \in {"Upsert", "Delete", "InsertRows", "UpsertRows", "UpdateRows",
                "DeleteRows", "CreateCollection", "DropCollection"}

\* driver_name().is_some().
HasDriver(o) == o.kind \notin LocalKinds

\* collection_or_table(): the names a scoped invalidation would look at.
ScopedKinds == {"InspectCollection", "VectorSearch", "Upsert", "Delete",
                "DropCollection", "DescribeTable", "QueryTable", "InsertRows",
                "UpsertRows", "UpdateRows", "DeleteRows"}
CollectionOrTable(o) == IF o.kind \in ScopedKinds THEN o.on ELSE {}

\* The ToolPayload the router wraps an answer in.
PayloadOf(kind) ==
    CASE kind = "ListCollections"   -> "Listing"
      [] kind = "InspectCollection" -> "Info"
      [] kind = "CreateCollection"  -> "Created"
      [] kind = "DropCollection"    -> "Dropped"
      [] kind \in {"Delete", "DeleteRows"} -> "Deleted"
      [] kind \in {"Upsert", "InsertRows", "UpsertRows", "UpdateRows"} -> "Written"
      [] OTHER -> "Records"
=============================================================================
