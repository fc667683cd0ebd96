-------------------------- MODULE MemoryCollections --------------------------
(***************************************************************************)
(* The collections of MemoryDriver (crates/dbshell-drivers/src/memory.rs). *)
(* Each method holds the lock of the map from start to end, so each is one *)
(* step.  A vector is known by its cosine similarity with the one searched *)
(* for.                                                                    *)
(***************************************************************************)
EXTENDS SequencesExt, Filter, Kept

CONSTANTS
    Names,      \* of collections
    Records,    \* [id, vector, payload]
    Batches,    \* inputs of upsert: sequences of records
    Searches    \* inputs of vector_search: [limit, filter]

ASSUME RecordsAssumption ==
    None \notin Int /\ \A r \in Records : r.vector \in Int \cup {None}
ASSUME InputsAssumption ==
    /\ Batches \subseteq Seq(Records)
    /\ None \notin Filters
    /\ \A req \in Searches : req.limit \in Nat

VARIABLES
    collections,  \* HashMap<String, MemoryCollection>: name -> records
    reply         \* what the last call returned

vars == <<collections, reply>>

Init == collections = [c \in {} |-> None] /\ reply = None

Passes(record, filter) == filter = None \/ MatchesFilter(record.payload, filter)

CreateCollection(c) ==
    /\ IF c \in DOMAIN collections
       THEN /\ reply' = [error |-> "Exists"]
            /\ UNCHANGED collections
       ELSE /\ collections' = [d \in DOMAIN collections \cup {c} |->
                                  IF d = c THEN <<>> ELSE collections[d]]
            /\ reply' = [ok |-> TRUE]

DropCollection(c) ==
    /\ c \in DOMAIN collections
    /\ collections' = [d \in DOMAIN collections \ {c} |-> collections[d]]
    /\ reply' = [ok |-> TRUE]

\* get(), get_mut(), remove() of a name that is not there.
NoCollection(c) ==
    /\ c \notin DOMAIN collections
    /\ reply' = [error |-> "NotFound"]
    /\ UNCHANGED collections

\* iter_mut().find(..): the first, or 0.  The slip looks at the last record.
SlipFindRecord(records, id) ==
    IF records # <<>> /\ records[Len(records)].id = id THEN Len(records) ELSE 0
FindRecord(records, id) == SelectInSeq(records, LAMBDA r : r.id = id)

PutRecord(records, record) ==
    LET i == FindRecord(records, record.id)
    IN  IF i = 0 THEN Append(records, record) ELSE [records EXCEPT ![i] = record]

Upsert(c, batch) ==
    /\ c \in DOMAIN collections
    /\ collections' = [collections EXCEPT ![c] = FoldLeft(PutRecord, @, batch)]
    /\ reply' = [count |-> Len(batch)]

Delete(c, filter) ==
    LET records == collections[c]
        kept == Kept(records, { r \in Range(records) : ~MatchesFilter(r.payload, filter) })
    IN  /\ c \in DOMAIN collections
        /\ collections' = [collections EXCEPT ![c] = kept]
        /\ reply' = [count |-> Len(records) - Len(kept)]

\* The indices `top` may hold after each record: one too many, and one of the
\* worst goes; sort_unstable_by puts equal scores in any order.
Worst(records, top) ==
    { i \in top : \A j \in top : records[i].vector <= records[j].vector }

SlipTruncated(records, top, limit) ==
    IF Cardinality(top) <= limit THEN {top} ELSE { top \ {CHOOSE i \in top : \A j \in top : i >= j} }
Truncated(records, top, limit) ==
    IF Cardinality(top) <= limit THEN {top} ELSE { top \ {i} : i \in Worst(records, top) }

TopIndices(records, req) ==
    LET eligible(i) == records[i].vector # None /\ Passes(records[i], req.filter)
        consider(tops, i) ==
            IF eligible(i)
            THEN UNION { Truncated(records, top \cup {i}, req.limit) : top \in tops }
            ELSE tops
    IN  FoldLeft(consider, {{}}, [i \in DOMAIN records |-> i])

Descending(records, ranking) ==
    \A i, j \in DOMAIN ranking :
        i < j => records[ranking[i]].vector >= records[ranking[j]].vector

VectorSearch(c, req) ==
    LET records == collections[c]
    IN  /\ c \in DOMAIN collections
        /\ \E top \in TopIndices(records, req) : \E ranking \in SetToSeqs(top) :
            /\ Descending(records, ranking)
            /\ reply' = [found |-> [i \in DOMAIN ranking |-> records[ranking[i]]]]
        /\ UNCHANGED collections

ListCollections ==
    /\ reply' = [listed |-> [c \in DOMAIN collections |-> Len(collections[c])]]
    /\ UNCHANGED collections

-----------------------------------------------------------------------------
Next ==
    \/ \E c \in Names :
        \/ CreateCollection(c)
        \/ NoCollection(c)
        \/ DropCollection(c)
        \/ \E batch \in Batches : Upsert(c, batch)
        \/ \E filter \in Filters : Delete(c, filter)
        \/ \E req \in Searches : VectorSearch(c, req)
    \/ ListCollections

Spec == Init /\ [][Next]_vars

-----------------------------------------------------------------------------
(* Type invariant: every collection lists each id once, whatever batches   *)
(* were upserted.                                                          *)
TypeOK ==
    /\ DOMAIN collections \subseteq Names
    /\ \A c \in DOMAIN collections : collections[c] \in Seq(Records)
    /\ \A c \in DOMAIN collections : \A i, j \in DOMAIN collections[c] :
        collections[c][i].id = collections[c][j].id => i = j

ById(records) ==
    [id \in { records[i].id : i \in DOMAIN records } |->
        records[SelectInSeq(records, LAMBDA r : r.id = id)]]

Content == [c \in DOMAIN collections |-> ById(collections[c])]

(* The collections are what a vector store promises: a list of records     *)
(* searched from its start, and the k best kept record by record, are as   *)
(* good as a map from ids and a look at all scores at once.                *)
Keyed == INSTANCE KeyedCollections WITH content <- Content

ImplementsKeyed == Keyed!Spec
=============================================================================
