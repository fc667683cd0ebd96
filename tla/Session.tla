------------------------------- MODULE Session -------------------------------
(***************************************************************************)
(* A Session (crates/dbshell-core/src/session.rs) that several tasks share *)
(* through &self: exec() runs the pipelines of an input line one after the *)
(* other, exec_tool() runs one tool.  Paths are resolved by VirtualFS, the *)
(* answers kept in the ResultStore; in between a task waits for the router,*)
(* and others run.  No transaction is ever open: the builder starts with   *)
(* none and nothing sets one.  The session's VirtualFS has no links.       *)
(***************************************************************************)
EXTENDS Naturals, Sequences, Operation

CONSTANTS
    Tasks,
    Lines,         \* inputs of exec(): sequences of groups [lead, counts, separator]
    ToolCalls,     \* inputs of exec_tool(): leads [path, tool]
    Mode,          \* SessionMode
    FaultyDriver,  \* may a driver call fail?
    MaxCalls,      \* bound: calls per task
    Paths, Tools, Views, Casts, None,   \* VirtualFS
    Ids, MaxResults, NotFound           \* ResultStore

VARIABLES
    results, order, last, issued,       \* RwLock<ResultStore>
    pc,       \* per task: where its call stands
    entry,    \* per task: which method was called
    input,    \* per task: the groups of the call
    todo,     \* per task: the groups still to end, the one it is at first
    outputs,  \* per task: the ToolResults so far
    aborted,  \* per task: the error exec() returned instead of its outputs
    held,     \* per task: the result set about to be stored
    calls,    \* per task: calls made, for MaxCalls
    answers,  \* result sets made so far: they are told apart by their number
    log,      \* history: the result sets in the order they were stored
    seen      \* history, per task: how much of log it has stored or read

storeVars == <<results, order, last, issued>>
taskVars == <<pc, entry, input, todo, outputs, aborted, held, calls>>
vars == <<storeVars, taskVars, answers, log, seen>>

ResultSets == Nat \ {0}

Vfs == INSTANCE VirtualFS WITH symlinks <- [n \in {} |-> None], reply <- None
Store == INSTANCE ResultStore WITH asked <- NotFound, reply <- NotFound

TransactionControl == {"begin", "commit", "rollback"}

\* What CommandLine::parse makes of a line, as far as a session looks at it.
Leads == [tool : Tools \cup TransactionControl, path : Paths \cup {None}]
Groups ==
    [lead : Leads, counts : BOOLEAN, separator : {"Sequential", "Background", "End"}]

ASSUME LinesAssumption == Lines \subseteq Seq(Groups) /\ ToolCalls \subseteq Leads
ASSUME PathsAssumption == \A p \in Paths : p.kind \in Vfs!PathKinds
ASSUME NoneAssumption == None \notin Nat \cup {"Unsupported", "InvalidState"}
ASSUME StoreAssumption == NotFound \notin Ids \cup ResultSets

\* A ToolResult, from an answer or from an error.
Ok(shape, rs) == [code |-> "ok", shape |-> shape, rs |-> rs]
Failed(code) == [code |-> code, shape |-> "Empty", rs |-> None]

Init ==
    /\ Store!InitStore
    /\ pc = [t \in Tasks |-> "idle"]
    /\ entry = [t \in Tasks |-> "exec"]
    /\ input = [t \in Tasks |-> <<>>]
    /\ todo = [t \in Tasks |-> <<>>]
    /\ outputs = [t \in Tasks |-> <<>>]
    /\ aborted = [t \in Tasks |-> None]
    /\ held = [t \in Tasks |-> None]
    /\ calls = [t \in Tasks |-> 0]
    /\ answers = 0
    /\ log = <<>>
    /\ seen = [t \in Tasks |-> 0]

-----------------------------------------------------------------------------
Call(t, method, groups, start) ==
    /\ pc[t] = "idle"
    /\ calls[t] < MaxCalls
    /\ calls' = [calls EXCEPT ![t] = @ + 1]
    /\ entry' = [entry EXCEPT ![t] = method]
    /\ input' = [input EXCEPT ![t] = groups]
    /\ todo' = [todo EXCEPT ![t] = groups]
    /\ outputs' = [outputs EXCEPT ![t] = <<>>]
    /\ aborted' = [aborted EXCEPT ![t] = None]
    /\ pc' = [pc EXCEPT ![t] = start]
    /\ UNCHANGED <<storeVars, held, answers, log, seen>>

Exec(t, line) == Call(t, "exec", line, "next")

ExecTool(t, lead) ==
    Call(t, "tool", <<[lead |-> lead, counts |-> FALSE, separator |-> "End"]>>, "resolve")

GroupOf(t) == Head(todo[t])
LeadOf(t) == GroupOf(t).lead

\* dispatch_op() drops the guard on `tx` before it waits for the router; the
\* slip keeps it.
SlipHoldsTx(u) == pc[u] = "dispatch"
HoldsTx(u) == FALSE

TxIsFree(t) == \A u \in Tasks \ {t} : ~HoldsTx(u)

\* exec()'s loop, and the `?` of begin(), commit() and rollback(): with no
\* transactions all three are errors, and exec() returns at once.  All three,
\* and a &, look at `tx`.
UsesTx(g) == g.lead.tool \in TransactionControl \/ g.separator = "Background"

TransactionError(tool) == IF tool = "begin" THEN "Unsupported" ELSE "InvalidState"

NextGroup(t) ==
    /\ pc[t] = "next"
    /\ todo[t] # <<>> /\ UsesTx(GroupOf(t)) => TxIsFree(t)
    /\ IF todo[t] = <<>>
       THEN /\ pc' = [pc EXCEPT ![t] = "done"]
            /\ UNCHANGED aborted
       ELSE IF LeadOf(t).tool \in TransactionControl
       THEN /\ pc' = [pc EXCEPT ![t] = "done"]
            /\ aborted' = [aborted EXCEPT ![t] = TransactionError(LeadOf(t).tool)]
       ELSE /\ pc' = [pc EXCEPT ![t] = "resolve"]
            /\ UNCHANGED aborted
    /\ UNCHANGED <<storeVars, entry, input, todo, outputs, held, calls, answers, log, seen>>

\* The pipeline ends with this ToolResult: exec() pushes it, an error too;
\* exec_tool() returns it.  The slip forgets the errors.
SlipPush(t, out) == IF out.code = "ok" THEN Append(outputs[t], out) ELSE outputs[t]
Push(t, out) == Append(outputs[t], out)

Finish(t, out) ==
    /\ outputs' = [outputs EXCEPT ![t] = Push(t, out)]
    /\ todo' = [todo EXCEPT ![t] = Tail(@)]
    /\ pc' = [pc EXCEPT ![t] = IF entry[t] = "exec" THEN "next" ELSE "done"]

\* A lead with no path is an error too.
ResolveLead(lead) ==
    IF lead.path = None THEN Vfs!Error("InvalidPath") ELSE Vfs!Resolve(lead.path, lead.tool)
OperationOf(t) == ResolveLead(LeadOf(t))

\* What keeps an operation from being dispatched.
Refusal(o) ==
    CASE o.kind = "Error" -> o.request
      [] Mode = "ReadOnly" /\ IsWrite(o) -> "PermissionDenied"
      [] OTHER -> None

\* exec_tool() looks a result up by the last segment of the path's text, a
\* Tmp path's too; exec_pipeline() does not.
Answered(t) ==
    LET rs == Store!GetValue(LeadOf(t).path.raw)
    IN  /\ Finish(t, IF rs = NotFound THEN Failed("NotFound") ELSE Ok("Records", rs))
        /\ seen' = IF rs # NotFound /\ LeadOf(t).path.raw = "last"
                   THEN [seen EXCEPT ![t] = CHOOSE i \in 1..Len(log) : log[i] = rs]
                   ELSE seen

\* The slip leaves results to the router.
SlipAnswersHere(t, o) == entry[t] = "tool" /\ o.kind = "ListResults"
AnswersHere(t, o) == entry[t] = "tool" /\ o.kind = "ReadResult"

Resolve(t) ==
    LET o == OperationOf(t)
    IN  /\ pc[t] = "resolve"
        /\ \/ /\ Refusal(o) # None
              /\ Finish(t, Failed(Refusal(o)))
              /\ UNCHANGED seen
           \/ /\ Refusal(o) = None
              /\ AnswersHere(t, o)
              /\ Answered(t)
           \/ /\ Refusal(o) = None
              /\ ~AnswersHere(t, o)
              /\ pc' = [pc EXCEPT ![t] = "lock"]
              /\ UNCHANGED <<todo, outputs, seen>>
        /\ UNCHANGED <<storeVars, entry, input, aborted, held, calls, answers, log>>

-----------------------------------------------------------------------------
(* dispatch_op(): with no transaction to execute in, wait for the router.  *)
(* Then run_client_stages(): wc leaves no rows.                            *)

LockTx(t) ==
    /\ pc[t] = "lock"
    /\ TxIsFree(t)
    /\ pc' = [pc EXCEPT ![t] = "dispatch"]
    /\ UNCHANGED <<storeVars, entry, input, todo, outputs, aborted, held, calls, answers, log, seen>>

\* The router has no driver for a VFS-local operation.
DispatchLocal(t) ==
    /\ pc[t] = "dispatch"
    /\ ~HasDriver(OperationOf(t))
    /\ Finish(t, Failed("InvalidState"))
    /\ UNCHANGED <<storeVars, entry, input, aborted, held, calls, answers, log, seen>>

DispatchFails(t) ==
    /\ pc[t] = "dispatch"
    /\ HasDriver(OperationOf(t))
    /\ FaultyDriver
    /\ Finish(t, Failed("DriverError"))
    /\ UNCHANGED <<storeVars, entry, input, aborted, held, calls, answers, log, seen>>

Dispatch(t) ==
    LET payload == IF GroupOf(t).counts THEN "Written" ELSE PayloadOf(OperationOf(t).kind)
    IN  /\ pc[t] = "dispatch"
        /\ HasDriver(OperationOf(t))
        /\ IF payload = "Records"
           THEN /\ answers' = answers + 1
                /\ held' = [held EXCEPT ![t] = answers + 1]
                /\ pc' = [pc EXCEPT ![t] = "store"]
                /\ UNCHANGED <<todo, outputs>>
           ELSE /\ Finish(t, Ok(payload, None))
                /\ UNCHANGED <<answers, held>>
        /\ UNCHANGED <<storeVars, entry, input, aborted, calls, log, seen>>

\* Uuid::new_v4(): one never used is as good as another.
FreshId == CHOOSE id \in Ids : Store!NewId(id)

\* store_if_records().await
StoreRecords(t) ==
    /\ pc[t] = "store"
    /\ \E id \in Ids : Store!NewId(id)
    /\ Store!Store(FreshId, held[t])
    /\ log' = Append(log, held[t])
    /\ seen' = [seen EXCEPT ![t] = Len(log) + 1]
    /\ held' = [held EXCEPT ![t] = None]
    /\ Finish(t, Ok("Records", held[t]))
    /\ UNCHANGED <<entry, input, aborted, calls, answers>>

Return(t) ==
    /\ pc[t] = "done"
    /\ pc' = [pc EXCEPT ![t] = "idle"]
    /\ UNCHANGED <<storeVars, entry, input, todo, outputs, aborted, held, calls, answers, log, seen>>

Local(t) ==
    \/ NextGroup(t)
    \/ Resolve(t)
    \/ LockTx(t)
    \/ DispatchLocal(t)
    \/ StoreRecords(t)
    \/ Return(t)

Next ==
    \E t \in Tasks :
        \/ \E line \in Lines : Exec(t, line)
        \/ \E lead \in ToolCalls : ExecTool(t, lead)
        \/ Local(t)
        \/ Dispatch(t)
        \/ DispatchFails(t)

Spec == Init /\ [][Next]_vars

\* The runtime polls every task whose await is ready.  A driver may take
\* forever, and nobody has to call.
Fairness == \A t \in Tasks : WF_vars(Local(t))
SlowSpec == Spec /\ Fairness

-----------------------------------------------------------------------------
Total(t) == Len(input[t])

\* What the i-th ToolResult of a call may be.
Fits(t, i) ==
    LET g == input[t][i]
        o == ResolveLead(g.lead)
        out == outputs[t][i]
    IN  \/ out.code # "ok" /\ out.shape = "Empty"
        \/ out.code = "ok" /\ out.shape = IF g.counts THEN "Written" ELSE PayloadOf(o.kind)

(* Type invariant.  A task that waits has a group to wait for, exec_tool() *)
(* sends the router nothing it has no driver for, and no result set is     *)
(* stored twice or held by two tasks.                                      *)
TypeOK ==
    /\ pc \in [Tasks -> {"idle", "next", "resolve", "lock", "dispatch", "store", "done"}]
    /\ entry \in [Tasks -> {"exec", "tool"}]
    /\ \A t \in Tasks :
        /\ pc[t] \in {"resolve", "lock", "dispatch", "store"} => todo[t] # <<>>
        /\ pc[t] = "dispatch" /\ entry[t] = "tool" => HasDriver(OperationOf(t))
        /\ held[t] \in (1..answers) \cup {None}
        /\ held[t] # None <=> pc[t] = "store"
        /\ \A i \in 1..Len(log) : held[t] # log[i]
        /\ \A u \in Tasks : held[t] = held[u] /\ held[t] # None => t = u
        /\ seen[t] \in 0..Len(log)
    /\ \A i \in 1..Len(log) : log[i] \in 1..answers
    /\ \A i, j \in 1..Len(log) : log[i] = log[j] => i = j

(* "One ToolResult per pipeline" (DESIGN.md:1316), for lines without       *)
(* transaction control: the i-th output is the i-th pipeline's, be it an   *)
(* error or an answer, and a failing pipeline stops none after it.         *)
OutputsMatchGroups ==
    \A t \in Tasks :
        /\ Len(outputs[t]) + Len(todo[t]) = Total(t)
        /\ \A i \in 1..Len(outputs[t]) : Fits(t, i)
        /\ pc[t] = "done" /\ aborted[t] = None => todo[t] = <<>>

(* /results/last only moves forward for every task: it never shows a task  *)
(* something stored before its own newest result, nor before what it has   *)
(* already read there, however the stores of tasks interleave and whatever *)
(* is evicted.                                                             *)
LastNeverGoesBack == [][\A t \in Tasks : seen'[t] >= seen[t]]_vars

(* A driver that is slow, or hangs, for one task holds up no other: each   *)
(* comes to a driver call of its own or returns.                           *)
OthersProceed ==
    \A t \in Tasks : pc[t] \notin {"idle", "dispatch"} ~> pc[t] \in {"idle", "dispatch"}
=============================================================================
