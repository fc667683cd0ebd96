------------------------------- MODULE Driver -------------------------------
(***************************************************************************)
(* A database behind the DbDriver trait, as QueryRouter::dispatch uses it: *)
(* what each operation answers and what it does to the data.  The contents *)
(* of a table, collection or graph are a number that each change moves on, *)
(* back to the first after MaxVersion (rows inserted may be deleted): what *)
(* it takes to tell an old answer from a new one.  Modelled on             *)
(* crates/dbshell-drivers/src/memory.rs, whose methods each hold one       *)
(* RwLock throughout and so are atomic; graphs and merges stand for the    *)
(* drivers that implement graph_query and merge_tables, which MemoryDriver *)
(* leaves Unsupported.                                                     *)
(***************************************************************************)
EXTENDS Naturals, Operation

CONSTANTS
    Collections, Tables, Graphs,
    MaxVersion,   \* how many different contents one of them goes through
    Err           \* the Err(_) of a driver

Entities == Collections \cup Tables \cup Graphs

Missing == 0      \* no such collection or table
Empty   == 1      \* just created

ASSUME MaxVersionAssumption == MaxVersion \in Nat /\ MaxVersion > 1

Databases == [Entities -> 0..MaxVersion]

\* MemoryDriver::with_table and the schema come first: tables and graphs
\* are there from the start, collections are created by operations.
InitialDb == [e \in Entities |-> IF e \in Collections THEN Missing ELSE Empty]

-----------------------------------------------------------------------------
\* The methods that take the write lock, and a GraphQuery that creates nodes:
\* its text decides, not its kind.
ChangingKinds == {"Upsert", "Delete", "InsertRows", "UpsertRows", "UpdateRows",
                  "DeleteRows", "CreateCollection", "DropCollection"}
Mutating(o) ==
    \/ o.kind \in ChangingKinds
    \/ o.kind = "GraphQuery" /\ o.request = "create"

\* `?` on list_collections().find, get, get_mut, contains_key.
Refused(o, d) ==
    \/ ~HasDriver(o)
    \/ o.kind = "CreateCollection" /\ \E e \in o.on : d[e] # Missing
    \/ o.kind # "CreateCollection" /\ \E e \in o.on : d[e] = Missing

Changed(o, d, e) ==
    CASE o.kind = "CreateCollection" -> Empty
      [] o.kind = "DropCollection"   -> Missing
      [] OTHER -> IF d[e] = MaxVersion THEN Empty ELSE d[e] + 1

Effect(o, d) ==
    IF Mutating(o) /\ ~Refused(o, d)
    THEN [e \in Entities |-> IF e \in o.on THEN Changed(o, d, e) ELSE d[e]]
    ELSE d

\* What an answer depends on.  No operation changes a table's schema.
Scope(o) ==
    CASE o.kind = "ListCollections" -> Collections
      [] o.kind = "ListTables"      -> Tables
      [] o.kind = "DescribeTable"   -> {}
      [] o.kind \in ChangingKinds   -> {}
      [] OTHER                      -> o.on

Answer(o, d) == [call |-> o, seen |-> [e \in Scope(o) |-> d[e]]]

Outcome(o, d) == IF Refused(o, d) THEN Err ELSE Answer(o, Effect(o, d))
=============================================================================
