----------------------------- MODULE MCPipeline -----------------------------
(***************************************************************************)
(* Programs for the runs of Pipeline: every chain of up to three stages,   *)
(* behind every kind of lead.                                              *)
(***************************************************************************)
EXTENDS Pipeline

\* "odd" and "big" cut each other; one table has its rows out of order.
Predicates == [odd |-> {1, 3}, big |-> {2, 3}]
Tables == { <<>>, <<1, 2, 3>>, <<3, 1, 4, 2>> }

\* None is the head of two rows that has no -n.
Heads == { Stage("head", n) : n \in {0, 3, None} }
Tails == { Stage("tail", n) : n \in {1, 2} }
OtherStages ==
    { FieldFilter("odd"), FieldFilter("big"), Stage("grep", "odd"),
      Stage("sort", "reverse"), Stage("wc", "lines") }
AllStages == Heads \cup Tails \cup OtherStages

UpTo3(stages) == UNION { [1..n -> stages] : n \in 0..3 }

Chains(bases, stages) == { [base |-> b, stages |-> c] : b \in bases, c \in UpTo3(stages) }

Query == Base("QueryTable", {})
ViewEntry == Base("QueryTable", {{2, 3}})
Search == Base("VectorSearch", {})
Listings == { Base(k, {}) : k \in {"ListTables", "ListCollections", "InspectCollection"} }

AllPrograms ==
    Chains({Query, ViewEntry, Search}, AllStages)
        \cup Chains(Listings, {Stage("head", 3), Stage("sort", "ascending"), Stage("wc", "lines")})

\* find ... | head | tail
HeadTailPrograms == Chains({Query}, {Stage("head", 1), Stage("head", 2), Stage("tail", 1)})
=============================================================================
