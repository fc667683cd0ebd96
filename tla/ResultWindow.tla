---------------------------- MODULE ResultWindow ----------------------------
(***************************************************************************)
(* What the result store promises, without its data structures: the N most *)
(* recently stored result sets, oldest first, each under the identifier it *)
(* was given; "last" names the newest.  ResultStore implements this with a *)
(* hash map, a deque of identifiers and a pointer, which it must keep in   *)
(* step (crates/dbshell-core/src/result_store.rs).                         *)
(***************************************************************************)
EXTENDS Naturals, Sequences

CONSTANTS
    Ids,         \* identifiers the store may hand out
    ResultSets,  \* the result sets a pipeline may produce
    MaxResults,  \* how many results are kept
    NotFound     \* the answer for an identifier the store does not know

VARIABLES
    window,      \* the stored results, oldest first
    asked,       \* the identifier last read, NotFound after a listing
    reply        \* the answer to it

vars == <<window, asked, reply>>

Entry == [id : Ids, rs : ResultSets]

Init ==
    /\ window = <<>>
    /\ asked = NotFound
    /\ reply = NotFound

\* Keep the MaxResults newest entries.
Trim(w) == IF Len(w) > MaxResults THEN Tail(w) ELSE w

Push(id, rs) ==
    /\ \A i \in 1..Len(window) : window[i].id # id
    /\ window' = Trim(Append(window, [id |-> id, rs |-> rs]))
    /\ UNCHANGED <<asked, reply>>

\* The result sets an identifier names: none, or exactly one.
Named(id) ==
    { window[i].rs : i \in { j \in 1..Len(window) : IF id = "last"
                                                    THEN j = Len(window)
                                                    ELSE window[j].id = id } }

Read(id) ==
    /\ asked' = id
    /\ IF Named(id) = {} THEN reply' = NotFound ELSE reply' \in Named(id)
    /\ UNCHANGED window

List ==
    /\ asked' = NotFound
    /\ reply' = [i \in 1..Len(window) |-> window[i].id]
    /\ UNCHANGED window

Next ==
    \/ \E id \in Ids, rs \in ResultSets : Push(id, rs)
    \/ \E id \in Ids \cup {"last"} : Read(id)
    \/ List

Spec == Init /\ [][Next]_vars
=============================================================================
