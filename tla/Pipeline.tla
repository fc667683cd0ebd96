------------------------------ MODULE Pipeline ------------------------------
(***************************************************************************)
(* A pipe chain from its parsed stages to its output.  PipelineOptimizer   *)
(* (crates/dbshell-core/src/pipeline.rs) folds stages into the request for *)
(* the driver, the driver serves it (dbshell-drivers/src/memory.rs), and   *)
(* what was not folded runs over the rows (Session::run_client_stages).    *)
(* A row is a number; a pattern or a predicate is known by the rows it is  *)
(* true of.                                                                *)
(***************************************************************************)
EXTENDS SequencesExt, Naturals, Operation, Kept

CONSTANTS
    Contents,      \* what the driver may hold: sequences of rows
    Matches,       \* pattern or predicate -> the rows it is true of
    Programs,      \* [base, stages]: resolved lead operation, stages after it
    DefaultCount,  \* 10 in the code: rows of a head without -n, of a search
    None

ASSUME ContentsAssumption == \A t \in Contents : t \in Seq(Nat)
ASSUME MatchesAssumption == \A m \in DOMAIN Matches : Matches[m] \in SUBSET Nat
ASSUME DefaultCountAssumption == DefaultCount \in Nat

\* What a lead resolves to that stages can follow.
LeadKinds == {"QueryTable", "VectorSearch", "ListTables", "DescribeTable",
              "ListCollections", "InspectCollection"}

Requests ==
    [kind : LeadKinds, filters : SUBSET SUBSET Nat,
     offset : Nat \cup {None}, limit : Nat \cup {None}]
Payloads == [shape : {"Records", "Listing", "Info", "Written"}, lines : Seq(Nat)]

ASSUME NoneAssumption == None \notin Nat \cup Payloads

VARIABLES
    table,    \* what the driver holds, in its own order
    program,  \* the input
    request,  \* server_op
    todo,     \* stages optimize() has still to look at
    client,   \* client_stages, later those of them still to run
    payload   \* None until the driver has answered

vars == <<table, program, request, todo, client, payload>>

-----------------------------------------------------------------------------
(* parse_stage(): what a stage could push down.  A count is the value of   *)
(* -n, whose + is dropped for tail.                                        *)

PushdownOf(tool) ==
    CASE tool = "head" -> "Limit"
      [] tool = "tail" -> "Offset"
      [] tool = "grep" -> "GrepFilter"
      [] OTHER         -> "None"

Stage(tool, arg) ==
    [tool |-> tool, pushdown |-> PushdownOf(tool),
     arg |-> IF tool \in {"head", "tail"} /\ arg = None THEN DefaultCount ELSE arg]

\* The parser has no expressions; a program that uses the crate can build one.
FieldFilter(predicate) ==
    [tool |-> "filter", pushdown |-> "FieldFilter", arg |-> predicate]

\* VirtualFS::resolve: the lead's operation.  A view entry has a filter, a
\* vector search its limit of 10.
Base(kind, filters) ==
    [kind |-> kind, filters |-> filters, offset |-> None,
     limit |-> IF kind = "VectorSearch" THEN DefaultCount ELSE None]

\* What parse_stage() and a program that uses the crate can make.
IsStage(s) ==
    /\ s.tool \in {"head", "tail", "grep", "sort", "wc", "filter"}
    /\ s = IF s.tool = "filter" THEN FieldFilter(s.arg) ELSE Stage(s.tool, s.arg)
    /\ s.tool \in {"head", "tail"} => s.arg \in Nat
    /\ s.tool \in {"grep", "filter"} => s.arg \in DOMAIN Matches

ASSUME ProgramsAssumption ==
    \A p \in Programs :
        /\ p.base.kind \in LeadKinds
        /\ p.base = Base(p.base.kind, p.base.filters)
        /\ p.base.filters \subseteq SUBSET Nat
        /\ p.stages \in Seq(Range(p.stages))
        /\ \A i \in DOMAIN p.stages : IsStage(p.stages[i])

-----------------------------------------------------------------------------
(* fold_limit, fold_offset, fold_filter, fold_grep.                        *)

CanFold(kind, pushdown) ==
    \/ kind = "QueryTable" /\ pushdown # "None"
    \/ kind = "VectorSearch" /\ pushdown = "Limit"

\* No column is called "*", where a folded grep looks for its pattern.
Fold(s, r) ==
    CASE s.pushdown = "Limit"       -> [r EXCEPT !.limit = s.arg]
      [] s.pushdown = "Offset"      -> [r EXCEPT !.offset = s.arg]
      [] s.pushdown = "FieldFilter" -> [r EXCEPT !.filters = @ \cup {Matches[s.arg]}]
      [] s.pushdown = "GrepFilter"  -> [r EXCEPT !.filters = @ \cup {{}}]

\* hit_boundary: a stage has stayed on the client.
SlipHitBoundary == FALSE
HitBoundary == client # <<>>

-----------------------------------------------------------------------------
(* The driver.                                                             *)

Take(lines, n) == SubSeq(lines, 1, IF n < Len(lines) THEN n ELSE Len(lines))
Drop(lines, n) == SubSeq(lines, n + 1, Len(lines))

UpTo(lines, limit) == IF limit = None THEN lines ELSE Take(lines, limit)
From(lines, offset) == IF offset = None THEN lines ELSE Drop(lines, offset)

\* query_table: filter, offset, limit, in this order.  The slip swaps the
\* last two.
Passing(r, t) == Kept(t, { row \in Range(t) : \A f \in r.filters : row \in f })
SlipQueryTable(r, t) == From(UpTo(Passing(r, t), r.limit), r.offset)
QueryTable(r, t) == UpTo(From(Passing(r, t), r.offset), r.limit)

\* vector_search: the best `limit` records; the table is in order of score.
VectorSearch(r, t) == Take(t, r.limit)

\* The listings take no request.
Serve(r, t) ==
    CASE r.kind = "QueryTable"   -> QueryTable(r, t)
      [] r.kind = "VectorSearch" -> VectorSearch(r, t)
      [] OTHER                   -> t

-----------------------------------------------------------------------------
(* What a tool prints when it reads these lines.                           *)

\* sort_by is stable: a row goes behind those it does not come before.
Before(arg, a, b) == IF arg = "reverse" THEN a > b ELSE a < b
Place(arg, sorted, row) ==
    LET n == Cardinality({ i \in DOMAIN sorted : ~Before(arg, row, sorted[i]) })
    IN  SubSeq(sorted, 1, n) \o <<row>> \o SubSeq(sorted, n + 1, Len(sorted))
SortBy(arg, lines) ==
    FoldLeft(LAMBDA sorted, row : Place(arg, sorted, row), <<>>, lines)

Printed(s, lines) ==
    CASE s.tool = "head" -> Take(lines, s.arg)
      [] s.tool = "tail" -> Drop(lines, s.arg)
      [] s.tool \in {"grep", "filter"} -> Kept(lines, Matches[s.arg])
      [] s.tool = "sort" -> SortBy(s.arg, lines)
      [] s.tool = "wc"   -> <<Len(lines)>>

\* A stage of run_client_stages: rows are edited, everything is counted (as
\* 0 when it is neither rows nor a listing), the rest passes through.
RunStage(s, p) ==
    CASE s.tool = "wc" ->
            [shape |-> "Written",
             lines |-> <<IF p.shape \in {"Records", "Listing"} THEN Len(p.lines) ELSE 0>>]
      [] s.tool \in {"head", "tail", "grep", "sort"} /\ p.shape = "Records" ->
            [p EXCEPT !.lines = Printed(s, @)]
      [] OTHER -> p

Init ==
    /\ table \in Contents
    /\ program \in Programs
    /\ request = program.base
    /\ todo = program.stages
    /\ client = <<>>
    /\ payload = None

\* One round of optimize()'s loop.
Optimize ==
    LET s == Head(todo)
    IN  /\ todo # <<>>
        /\ todo' = Tail(todo)
        /\ IF ~HitBoundary /\ CanFold(request.kind, s.pushdown)
           THEN /\ request' = Fold(s, request)
                /\ UNCHANGED client
           ELSE /\ client' = Append(client, s)
                /\ UNCHANGED request
        /\ UNCHANGED <<table, program, payload>>

\* dispatch_op(&plan.server_op)
Dispatch ==
    /\ todo = <<>>
    /\ payload = None
    /\ payload' = [shape |-> PayloadOf(request.kind), lines |-> Serve(request, table)]
    /\ UNCHANGED <<table, program, request, todo, client>>

\* One round of run_client_stages()'s loop.
RunClientStage ==
    /\ payload # None
    /\ client # <<>>
    /\ payload' = RunStage(Head(client), payload)
    /\ client' = Tail(client)
    /\ UNCHANGED <<table, program, request, todo>>

Next == Optimize \/ Dispatch \/ RunClientStage

Spec == Init /\ [][Next]_vars

-----------------------------------------------------------------------------
(* Type invariant: no stage is lost, doubled or moved.  What runs on the   *)
(* client is the end of the chain as it was written, and the stages that   *)
(* went to the driver are those before the first that could not.           *)
TypeOK ==
    /\ table \in Contents
    /\ request \in Requests /\ request.kind = program.base.kind
    /\ payload # None => payload \in Payloads /\ todo = <<>>
    /\ {client, todo} \subseteq Seq(Range(program.stages))
    /\ IsSuffix(client \o todo, program.stages)
    /\ payload = None /\ client # <<>> =>
           ~CanFold(request.kind, Head(client).pushdown)

\* Stages one after the other, each over all that the one before printed.
Piped(lines, stages) ==
    FoldLeft(LAMBDA printed, s : Printed(s, printed), lines, stages)

Shown == IF payload = None THEN Serve(request, table) ELSE payload.lines

(* "Pipe: connect stdout to next stage's stdin" (DESIGN.md:1356): whatever *)
(* has been folded into the request, or run, so far, the rest of the chain *)
(* turns the rows into what the chain prints when the lead's whole answer  *)
(* is piped through all of it.                                             *)
PlanKeepsOutput ==
    Piped(Shown, client \o todo) = Piped(Serve(program.base, table), program.stages)

\* The stages that go to the driver.
Folded(p) ==
    { i \in DOMAIN p.stages :
        \A j \in 1..i : CanFold(p.base.kind, p.stages[j].pushdown) }

\* Chains whose order a single query keeps: it filters, then skips, then cuts,
\* and each part of it once, but for filters and for ever smaller limits.
Orderly(p) ==
    LET stage(i) == p.stages[i]
    IN  /\ \/ PayloadOf(p.base.kind) = "Records"
           \/ PayloadOf(p.base.kind) = "Listing" /\ \A i \in DOMAIN p.stages : stage(i).tool = "wc"
        /\ \A i \in DOMAIN p.stages :
            /\ stage(i).tool = "filter" => i \in Folded(p)
            /\ stage(i).tool = "grep" => i \notin Folded(p)
            /\ stage(i).tool = "wc" => i = Len(p.stages)
        /\ \A i \in Folded(p) :
            /\ stage(i).tool = "head" /\ p.base.limit # None => stage(i).arg <= p.base.limit
            /\ \A j \in 1..(i - 1) :
                /\ stage(i).tool \in {"filter", "tail"} => stage(j).tool = "filter"
                /\ stage(i).tool = "head" /\ stage(j).tool = "head" =>
                       stage(i).arg <= stage(j).arg

(* Optimizing an orderly chain is invisible: the stages folded, those that *)
(* stayed and the driver's own order of filter, offset and limit together  *)
(* print what the pipe prints.                                             *)
OrderlyPlansKeepOutput == Orderly(program) => PlanKeepsOutput
=============================================================================
