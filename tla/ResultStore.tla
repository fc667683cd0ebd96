----------------------------- MODULE ResultStore -----------------------------
(***************************************************************************)
(* The buffer behind /results/<uuid> and /results/last                     *)
(* (crates/dbshell-core/src/result_store.rs).  Session keeps it in a       *)
(* RwLock, so each method below is one atomic step.                        *)
(***************************************************************************)
EXTENDS Naturals, Sequences

CONSTANTS
    Ids,         \* the UUIDs Uuid::new_v4 may return; bounds the stores of a run
    ResultSets,
    MaxResults,  \* MAX_RESULTS, 100 in the code
    NotFound     \* None, for a missing result and for an unset `last`

ASSUME MaxResultsAssumption == MaxResults \in Nat \ {0}
ASSUME IdsAssumption == "last" \notin Ids /\ NotFound \notin Ids \cup ResultSets

VARIABLES
    results,     \* HashMap<String, ResultSet>
    order,       \* VecDeque<String>, oldest at the front
    last,        \* Option<String>
    issued,      \* UUIDs handed out so far: a v4 UUID never repeats
    asked,       \* the argument of the last get, NotFound after a list_ids
    reply        \* what it returned

storeVars == <<results, order, last, issued>>
vars == <<results, order, last, issued, asked, reply>>

InitStore ==
    /\ results = [i \in {} |-> NotFound]
    /\ order = <<>>
    /\ last = NotFound
    /\ issued = {}

Init == InitStore /\ asked = NotFound /\ reply = NotFound

\* Uuid::new_v4().
NewId(id) == id \in Ids \ issued

-----------------------------------------------------------------------------
(* store(): evict, insert, push_back, move `last`.  Next to a step of it   *)
(* stands the slip (Slip...) a wrong edit of that line would make; the     *)
(* specification never uses a slip, and each is caught by a property below.*)

SlipFullTooLate == Len(order) > MaxResults
Full == Len(order) >= MaxResults

SlipEvictedNothing == {}
Evicted == IF Full THEN {Head(order)} ELSE {}

OrderAfterEviction == IF Full THEN Tail(order) ELSE order

SlipLastKept(id) == IF last = NotFound THEN id ELSE last
LastAfter(id) == id

Store(id, rs) ==
    /\ NewId(id)
    /\ issued' = issued \cup {id}
    /\ results' = [i \in (DOMAIN results \ Evicted) \cup {id} |->
                      IF i = id THEN rs ELSE results[i]]
    /\ order' = Append(OrderAfterEviction, id)
    /\ last' = LastAfter(id)

(* get() and last(): "last" is looked up through the pointer. *)

Lookup(id) == IF id \in DOMAIN results THEN results[id] ELSE NotFound

LastOf == IF last = NotFound THEN NotFound ELSE Lookup(last)

\* The slip answers a missing id with the newest result.
SlipGetValue(id) == IF id \in DOMAIN results THEN Lookup(id) ELSE LastOf
GetValue(id) == IF id = "last" THEN LastOf ELSE Lookup(id)

Get(id) ==
    /\ asked' = id
    /\ reply' = GetValue(id)
    /\ UNCHANGED storeVars

ListIds ==
    /\ asked' = NotFound
    /\ reply' = order
    /\ UNCHANGED storeVars

-----------------------------------------------------------------------------
Next ==
    \/ \E id \in Ids, rs \in ResultSets : Store(id, rs) /\ UNCHANGED <<asked, reply>>
    \/ \E id \in Ids \cup {"last"} : Get(id)
    \/ ListIds

Spec == Init /\ [][Next]_vars

-----------------------------------------------------------------------------
(* Type invariant: the map, the deque and the pointer have the types of    *)
(* the struct's fields, and the deque never outgrows MAX_RESULTS.          *)
TypeOK ==
    /\ issued \subseteq Ids
    /\ DOMAIN results \subseteq issued
    /\ \A i \in DOMAIN results : results[i] \in ResultSets
    /\ order \in Seq(issued)
    /\ Len(order) <= MaxResults
    /\ last \in issued \cup {NotFound}
    /\ asked \in Ids \cup {"last", NotFound}
    /\ reply \in ResultSets \cup {NotFound} \cup Seq(Ids)

(* The map and the deque are two indexes of the same results: every stored *)
(* result is listed exactly once and every listed id can be read.  If they *)
(* drift apart, list_ids names results get() cannot find, or results leak  *)
(* in the map and are never evicted.                                       *)
IndexesAgree ==
    /\ DOMAIN results = { order[i] : i \in 1..Len(order) }
    /\ \A i, j \in 1..Len(order) : order[i] = order[j] => i = j

(* `last` names the newest stored result, and that result is still there:  *)
(* eviction never takes the one /results/last points to.                   *)
LastIsNewest ==
    IF order = <<>> THEN last = NotFound
    ELSE last = order[Len(order)] /\ last \in DOMAIN results

(* The store keeps the promise of ResultWindow: the most recent MAX_RESULTS*)
(* results in arrival order, and reads answer from exactly that window.    *)
Window ==
    INSTANCE ResultWindow WITH
        window <- [i \in 1..Len(order) |->
                      [id |-> order[i], rs |-> results[order[i]]]]

ImplementsWindow == Window!Spec
=============================================================================
