-------------------------- MODULE KeyedCollections --------------------------
(***************************************************************************)
(* What a vector store promises: named collections that hold one record    *)
(* per id, and a search that returns the best of the records there are.    *)
(***************************************************************************)
EXTENDS SequencesExt, Filter

CONSTANTS
    Names,     \* of collections
    Batches,   \* sequences of records [id, vector, payload]
    Searches   \* requests [limit, filter]

VARIABLES
    content,   \* name -> id -> record
    reply      \* what the last call returned

vars == <<content, reply>>

Init == content = [c \in {} |-> None] /\ reply = None

Passes(record, filter) == filter = None \/ MatchesFilter(record.payload, filter)

Done == [ok |-> TRUE]
Refused(code) == [error |-> code]
Counted(n) == [count |-> n]
Listed(sizes) == [listed |-> sizes]
Found(ranking) == [found |-> ranking]

-----------------------------------------------------------------------------
Create(c) ==
    IF c \in DOMAIN content
    THEN reply' = Refused("Exists") /\ UNCHANGED content
    ELSE /\ content' = [d \in DOMAIN content \cup {c} |->
                           IF d = c THEN [id \in {} |-> None] ELSE content[d]]
         /\ reply' = Done

Missing(c) ==
    /\ c \notin DOMAIN content
    /\ reply' = Refused("NotFound")
    /\ UNCHANGED content

Drop(c) ==
    /\ c \in DOMAIN content
    /\ content' = [d \in DOMAIN content \ {c} |-> content[d]]
    /\ reply' = Done

\* Of several records with one id the last stays.
LastOf(batch, id) == batch[SelectLastInSeq(batch, LAMBDA r : r.id = id)]

Upsert(c, batch) ==
    LET ids == { batch[i].id : i \in DOMAIN batch }
    IN  /\ c \in DOMAIN content
        /\ content' = [content EXCEPT ![c] =
                          [id \in DOMAIN @ \cup ids |->
                              IF id \in ids THEN LastOf(batch, id) ELSE @[id]]]
        /\ reply' = Counted(Len(batch))

Delete(c, filter) ==
    LET gone == { id \in DOMAIN content[c] : Passes(content[c][id], filter) }
    IN  /\ c \in DOMAIN content
        /\ content' = [content EXCEPT ![c] = [id \in DOMAIN @ \ gone |-> @[id]]]
        /\ reply' = Counted(Cardinality(gone))

\* The best first, none left out that is better than one returned.
Search(c, req) ==
    LET held == content[c]
        eligible == { id \in DOMAIN held : held[id].vector # None /\ Passes(held[id], req.filter) }
        score(id) == held[id].vector
    IN  /\ c \in DOMAIN content
        /\ \E best \in SUBSET eligible : \E ranking \in SetToSeqs(best) :
            /\ Cardinality(best) = IF Cardinality(eligible) < req.limit
                                   THEN Cardinality(eligible) ELSE req.limit
            /\ \A i, j \in DOMAIN ranking : i < j => score(ranking[i]) >= score(ranking[j])
            /\ \A in \in best, out \in eligible \ best : score(in) >= score(out)
            /\ reply' = Found([i \in DOMAIN ranking |-> held[ranking[i]]])
        /\ UNCHANGED content

List ==
    /\ reply' = Listed([c \in DOMAIN content |-> Cardinality(DOMAIN content[c])])
    /\ UNCHANGED content

Next ==
    \/ \E c \in Names :
        \/ Create(c)
        \/ Missing(c)
        \/ Drop(c)
        \/ \E batch \in Batches : Upsert(c, batch)
        \/ \E filter \in Filters : Delete(c, filter)
        \/ \E req \in Searches : Search(c, req)
    \/ List

Spec == Init /\ [][Next]_vars
=============================================================================
