---------------------------- MODULE SessionProofs ----------------------------
(***************************************************************************)
(* For any number of tasks, any lines and any interleaving of their steps: *)
(* a call's outputs are those of its pipelines, in order, and              *)
(* /results/last never goes back for any task.                             *)
(***************************************************************************)
EXTENDS Session, FiniteSetTheorems, SequenceTheorems, TLAPS

States == {"idle", "next", "resolve", "lock", "dispatch", "store", "done"}
Busy == {"resolve", "lock", "dispatch", "store"}
Codes == {"ok", "NotFound", "InvalidPath", "PermissionDenied", "InvalidState", "DriverError"}
Shapes == {"Empty", "Records", "Listing", "Info", "Created", "Dropped", "Deleted", "Written"}
Outs == [code : Codes, shape : Shapes, rs : ResultSets \cup {None}]

Typed ==
    /\ pc \in [Tasks -> States]
    /\ entry \in [Tasks -> {"exec", "tool"}]
    /\ input \in [Tasks -> Seq(Groups)]
    /\ todo \in [Tasks -> Seq(Groups)]
    /\ outputs \in [Tasks -> Seq(Outs)]
    /\ aborted \in [Tasks -> {None, "Unsupported", "InvalidState"}]
    /\ held \in [Tasks -> ResultSets \cup {None}]
    /\ seen \in [Tasks -> Nat]
    /\ answers \in Nat
    /\ log \in Seq(ResultSets)
    /\ \A id \in DOMAIN results : results[id] \in ResultSets

(* What is still to do is the end of the line, from where the outputs are. *)
Position(t) ==
    /\ Len(outputs[t]) + Len(todo[t]) = Len(input[t])
    /\ \A j \in 1..Len(todo[t]) : todo[t][j] = input[t][Len(outputs[t]) + j]

(* What a task has made sure of when it is where it is.                    *)
Phase(t) ==
    /\ pc[t] = "next" => entry[t] = "exec"
    /\ pc[t] \in Busy => todo[t] # <<>>
    /\ pc[t] \in Busy /\ entry[t] = "tool" => Len(todo[t]) = 1 /\ ~todo[t][1].counts
    /\ pc[t] \in {"lock", "dispatch"} /\ entry[t] = "tool" => HasDriver(OperationOf(t))
    /\ pc[t] = "store" => ~GroupOf(t).counts /\ PayloadOf(OperationOf(t).kind) = "Records"
    /\ pc[t] = "done" /\ aborted[t] = None => todo[t] = <<>>

Fitting(t) == \A i \in 1..Len(outputs[t]) : Fits(t, i)

TaskInv(t) == Position(t) /\ Phase(t) /\ Fitting(t)

(* Result sets are numbered as they are made: those held and those stored  *)
(* are different from each other and from what will be made.               *)
Made ==
    /\ \A t \in Tasks :
        /\ held[t] # None <=> pc[t] = "store"
        /\ held[t] # None => held[t] <= answers
        /\ \A i \in 1..Len(log) : held[t] # log[i]
        /\ \A u \in Tasks : held[t] = held[u] /\ held[t] # None => t = u
        /\ seen[t] <= Len(log)
    /\ \A i \in 1..Len(log) : log[i] <= answers
    /\ \A i, j \in 1..Len(log) : log[i] = log[j] => i = j

(* `last` leads to what was stored last, whatever has been evicted since.  *)
Newest ==
    /\ Len(log) = 0 => last = NotFound
    /\ Len(log) # 0 => /\ last # NotFound
                       /\ last \in DOMAIN results
                       /\ results[last] = log[Len(log)]

IInv == Typed /\ (\A t \in Tasks : TaskInv(t)) /\ Made /\ Newest

-----------------------------------------------------------------------------
(* Facts about sequences.                                                  *)
LEMMA FirstAndRest ==
    ASSUME NEW S, NEW s \in Seq(S), s # <<>>
    PROVE  /\ Head(s) \in S /\ Head(s) = s[1]
           /\ Tail(s) \in Seq(S)
           /\ Len(s) \in Nat \ {0}
           /\ Len(Tail(s)) = Len(s) - 1
           /\ \A i \in 1..Len(Tail(s)) : Tail(s)[i] = s[i + 1]
<1>1. Len(s) \in Nat \ {0}
  BY EmptySeq, LenProperties
<1>2. s[1] \in S
  BY <1>1, ElementOfSeq
<1>. QED  BY <1>1, <1>2, HeadTailProperties

LEMMA RestOfOne ==
    ASSUME NEW S, NEW s \in Seq(S), Len(s) = 1
    PROVE  s # <<>> /\ Tail(s) = <<>>
<1>1. s # <<>>
  BY EmptySeq
<1>2. Tail(s) \in Seq(S) /\ Len(Tail(s)) = 0
  BY <1>1, FirstAndRest
<1>. QED  BY <1>1, <1>2, EmptySeq

LEMMA Appended ==
    ASSUME NEW S, NEW s \in Seq(S), NEW e \in S
    PROVE  /\ Append(s, e) \in Seq(S)
           /\ Len(s) \in Nat
           /\ Len(Append(s, e)) = Len(s) + 1
           /\ \A i \in 1..Len(s) : Append(s, e)[i] = s[i]
           /\ Append(s, e)[Len(s) + 1] = e
BY AppendProperties, LenProperties

-----------------------------------------------------------------------------
(* What the other components contribute: no path asks for the list of      *)
(* results, and a path that is refused is so with a code of its own.       *)
LEMMA ResolvedLead ==
    ASSUME NEW lead \in Leads
    PROVE  /\ ResolveLead(lead).kind # "ListResults"
           /\ ResolveLead(lead).kind = "Error" =>
                  ResolveLead(lead).request \in {"NotFound", "InvalidPath"}
<1>1. CASE lead.path = None
  BY <1>1 DEF ResolveLead, Vfs!Error, Vfs!Op
<1>2. CASE lead.path # None
  <2>1. lead.path \in Paths /\ lead.path.kind \in Vfs!PathKinds
    BY <1>2, PathsAssumption DEF Leads
  <2>2. CASE lead.path.kind = "Symlink"
    <3>1. ResolveLead(lead) = Vfs!Error("NotFound")
      BY <1>2, <2>2 DEF ResolveLead, Vfs!Resolve
    <3>. QED  BY <3>1 DEF Vfs!Error, Vfs!Op
  <2>3. CASE lead.path.kind # "Symlink"
    <3>1. ResolveLead(lead) = Vfs!ResolveTarget(lead.path, lead.tool)
      BY <1>2, <2>3 DEF ResolveLead, Vfs!Resolve
    <3>2. CASE lead.path.kind \in Vfs!Roots
      <4>1. ResolveLead(lead) = Vfs!Op("ListCollections", {}, <<>>)
        BY <3>1, <3>2 DEF Vfs!ResolveTarget, Vfs!Roots, Vfs!Inspected
      <4>. QED  BY <4>1 DEF Vfs!Op
    <3>3. CASE lead.path.kind \in Vfs!Inspected
      <4>1. ResolveLead(lead) = Vfs!ResolveInspected(lead.path, lead.tool)
        BY <3>1, <3>3 DEF Vfs!ResolveTarget, Vfs!Roots, Vfs!Inspected
      <4>. QED  BY <4>1 DEF Vfs!ResolveInspected, Vfs!Op
    <3>4. CASE lead.path.kind = "ViewEntry"
      BY <3>1, <3>4 DEF Vfs!ResolveTarget, Vfs!ResolveEntry, Vfs!Error, Vfs!Op, Vfs!Roots,
             Vfs!Inspected
    <3>5. CASE lead.path.kind \in {"TableRoot", "View", "SearchQuery", "Result", "Tmp"}
      <4>1. \/ ResolveLead(lead) = Vfs!Op("ListTables", {}, <<>>)
            \/ ResolveLead(lead) = Vfs!Op("DescribeTable", {lead.path.name}, <<>>)
            \/ ResolveLead(lead) = Vfs!Op("VectorSearch", {lead.path.name}, <<>>)
            \/ ResolveLead(lead) = Vfs!Op("ReadResult", {}, <<>>)
        BY <3>1, <3>5 DEF Vfs!ResolveTarget, Vfs!Roots, Vfs!Inspected
      <4>. QED  BY <4>1 DEF Vfs!Op
    <3>6. CASE lead.path.kind = "Table"
      <4>1. ResolveLead(lead) = Vfs!ResolveTable(lead.path, lead.tool)
        BY <3>1, <3>6 DEF Vfs!ResolveTarget, Vfs!Roots, Vfs!Inspected
      <4>. QED  BY <4>1 DEF Vfs!ResolveTable, Vfs!Op
    <3>. QED  BY <2>1, <2>3, <3>2, <3>3, <3>4, <3>5, <3>6 DEF Vfs!PathKinds
  <2>. QED  BY <2>2, <2>3
<1>. QED  BY <1>1, <1>2

(* A read of /results/last shows what was stored last, other reads at most *)
(* a result set.                                                           *)
LEMMA LastReadsTheNewest ==
    ASSUME Typed, Newest, Made, NEW id, NEW rs, rs = Store!GetValue(id), rs # NotFound
    PROVE  /\ rs \in ResultSets
           /\ id = "last" => /\ Len(log) \in Nat \ {0}
                             /\ (CHOOSE i \in 1..Len(log) : log[i] = rs) = Len(log)
<1>1. Len(log) \in Nat
  BY LenProperties DEF Typed
<1>2. CASE id # "last"
  BY <1>2 DEF Store!GetValue, Store!Lookup, Typed
<1>3. CASE id = "last"
  <2>1. last # NotFound /\ last \in DOMAIN results /\ rs = results[last]
    BY <1>3 DEF Store!GetValue, Store!LastOf, Store!Lookup
  <2>2. Len(log) # 0 /\ rs = log[Len(log)]
    BY <1>1, <2>1 DEF Newest
  <2>3. rs \in ResultSets
    BY <2>1 DEF Typed
  <2>4. \A i \in 1..Len(log) : log[i] = rs => i = Len(log)
    BY <1>1, <2>2 DEF Made
  <2>. QED  BY <1>1, <2>2, <2>3, <2>4
<1>. QED  BY <1>2, <1>3

-----------------------------------------------------------------------------
(* What a step of one task leaves alone.                                   *)
OthersKept(t) ==
    \A u \in Tasks \ {t} :
        /\ pc'[u] = pc[u] /\ entry'[u] = entry[u] /\ input'[u] = input[u]
        /\ todo'[u] = todo[u] /\ outputs'[u] = outputs[u] /\ aborted'[u] = aborted[u]

LEMMA TaskFrame ==
    ASSUME NEW u, TaskInv(u),
           pc'[u] = pc[u], entry'[u] = entry[u], input'[u] = input[u],
           todo'[u] = todo[u], outputs'[u] = outputs[u], aborted'[u] = aborted[u]
    PROVE  TaskInv(u)'
BY DEF TaskInv, Position, Phase, Fitting, Fits, OperationOf, LeadOf, GroupOf

LEMMA OthersFrame ==
    ASSUME NEW t \in Tasks, OthersKept(t), \A u \in Tasks : TaskInv(u), TaskInv(t)'
    PROVE  (\A u \in Tasks : TaskInv(u))'
BY TaskFrame DEF OthersKept

LEMMA MadeFrame ==
    ASSUME Made, held' = held, log' = log, answers' = answers,
           \A u \in Tasks : pc'[u] = "store" <=> pc[u] = "store",
           \A u \in Tasks : seen'[u] <= Len(log)
    PROVE  Made'
BY DEF Made

LEMMA NewestFrame ==
    ASSUME Newest, results' = results, last' = last, log' = log
    PROVE  Newest'
BY DEF Newest

-----------------------------------------------------------------------------
(* A pipeline ends: its output lands where its group is in the line.       *)
Suits(t, out) ==
    \/ out.code # "ok" /\ out.shape = "Empty"
    \/ /\ out.code = "ok"
       /\ out.shape = IF GroupOf(t).counts THEN "Written" ELSE PayloadOf(OperationOf(t).kind)

LEMMA FinishKeeps ==
    ASSUME Typed, NEW t \in Tasks, TaskInv(t), pc[t] \in Busy,
           NEW out \in Outs, Suits(t, out), Finish(t, out),
           entry' = entry, input' = input, aborted' = aborted
    PROVE  /\ pc' \in [Tasks -> States] /\ pc'[t] \in {"next", "done"}
           /\ todo' \in [Tasks -> Seq(Groups)]
           /\ outputs' \in [Tasks -> Seq(Outs)]
           /\ OthersKept(t)
           /\ TaskInv(t)'
<1>1. /\ todo[t] \in Seq(Groups) /\ todo[t] # <<>>
      /\ outputs[t] \in Seq(Outs)
  BY DEF Typed, TaskInv, Phase
<1>2. /\ todo'[t] = Tail(todo[t])
      /\ outputs'[t] = Append(outputs[t], out)
      /\ pc'[t] = IF entry[t] = "exec" THEN "next" ELSE "done"
  BY DEF Finish, Push, Typed
<1>3. /\ pc' \in [Tasks -> States] /\ pc'[t] \in {"next", "done"}
      /\ todo' \in [Tasks -> Seq(Groups)]
      /\ outputs' \in [Tasks -> Seq(Outs)]
      /\ OthersKept(t)
  <2>1. Tail(todo[t]) \in Seq(Groups)
    BY <1>1, FirstAndRest
  <2>2. Append(outputs[t], out) \in Seq(Outs)
    BY <1>1, Appended
  <2>. QED  BY <1>2, <2>1, <2>2 DEF Finish, Push, Typed, OthersKept, States
<1>4. /\ Len(todo[t]) \in Nat \ {0}
      /\ Len(todo'[t]) = Len(todo[t]) - 1
      /\ \A j \in 1..Len(todo'[t]) : todo'[t][j] = todo[t][j + 1]
      /\ GroupOf(t) = todo[t][1]
  BY <1>1, <1>2, FirstAndRest DEF GroupOf
<1>5. /\ Len(outputs[t]) \in Nat
      /\ Len(outputs'[t]) = Len(outputs[t]) + 1
      /\ \A i \in 1..Len(outputs[t]) : outputs'[t][i] = outputs[t][i]
      /\ outputs'[t][Len(outputs[t]) + 1] = out
  BY <1>1, <1>2, Appended
<1>6. Position(t)'
  <2>. DEFINE done == Len(outputs[t])  left == Len(todo[t])
  <2>0. /\ done \in Nat /\ left \in Nat
        /\ Len(outputs'[t]) = done + 1 /\ Len(todo'[t]) = left - 1
    BY <1>4, <1>5
  <2>1. Len(outputs'[t]) + Len(todo'[t]) = Len(input'[t])
    <3>1. done + left = Len(input[t])
      BY DEF Position, TaskInv
    <3>. HIDE DEF done, left
    <3>. QED  BY <2>0, <3>1
  <2>2. ASSUME NEW j \in 1..Len(todo'[t])
        PROVE  todo'[t][j] = input'[t][Len(outputs'[t]) + j]
    <3>1. j + 1 \in 1..Len(todo[t]) /\ todo'[t][j] = todo[t][j + 1]
      BY <1>4
    <3>2. todo[t][j + 1] = input[t][Len(outputs[t]) + (j + 1)]
      BY <3>1 DEF Position, TaskInv
    <3>3. done + (j + 1) = Len(outputs'[t]) + j
      <4>1. j \in Int
        OBVIOUS
      <4>. HIDE DEF done, left
      <4>. QED  BY <2>0, <4>1
    <3>. QED  BY <3>1, <3>2, <3>3
  <2>. QED  BY <2>1, <2>2 DEF Position
<1>7. Fitting(t)'
  <2>1. GroupOf(t) = input[t][Len(outputs[t]) + 1]
    BY <1>4 DEF Position, TaskInv
  <2>2. ASSUME NEW i \in 1..Len(outputs'[t]) PROVE Fits(t, i)'
    <3>1. CASE i = Len(outputs[t]) + 1
      <4>1. input'[t][i] = GroupOf(t) /\ outputs'[t][i] = out
        BY <1>5, <2>1, <3>1
      <4>. QED  BY <4>1 DEF Fits, Suits, OperationOf, LeadOf
    <3>2. CASE i \in 1..Len(outputs[t])
      BY <1>5, <3>2 DEF Fits, Fitting, TaskInv
    <3>. QED  BY <1>5, <3>1, <3>2
  <2>. QED  BY <2>2 DEF Fitting
<1>8. Phase(t)'
  <2>1. CASE entry[t] = "exec"
    BY <1>2, <2>1 DEF Phase, Busy
  <2>2. CASE entry[t] # "exec"
    <3>1. entry[t] = "tool" /\ Len(todo[t]) = 1
      BY <2>2 DEF Typed, TaskInv, Phase
    <3>2. todo'[t] = <<>>
      BY <1>1, <1>2, <3>1, RestOfOne
    <3>. QED  BY <1>2, <2>2, <3>2 DEF Phase, Busy
  <2>. QED  BY <2>1, <2>2
<1>. QED  BY <1>3, <1>6, <1>7, <1>8 DEF TaskInv

LEMMA Starts == Init => IInv
<1> SUFFICES ASSUME Init PROVE IInv
  OBVIOUS
<1>1. Typed
  BY EmptySeq DEF Init, Store!InitStore, Typed, States
<1>2. ASSUME NEW t \in Tasks PROVE TaskInv(t)
  BY <1>2 DEF Init, TaskInv, Position, Phase, Fitting, Busy
<1>3. Made
  BY NoneAssumption DEF Init, Made
<1>4. Newest
  BY DEF Init, Newest, Store!InitStore
<1>. QED  BY <1>1, <1>2, <1>3, <1>4 DEF IInv

-----------------------------------------------------------------------------
(* Every action keeps the invariant.                                       *)
LEMMA Combine ==
    ASSUME IInv, NEW t \in Tasks,
           Typed', OthersKept(t), TaskInv(t)', Made', Newest'
    PROVE  IInv'
<1>1. (\A u \in Tasks : TaskInv(u))'
  BY OthersFrame DEF IInv
<1>. QED  BY <1>1 DEF IInv

LEMMA CallKeeps ==
    ASSUME IInv, NEW t \in Tasks, NEW method \in {"exec", "tool"},
           NEW groups \in Seq(Groups), NEW start, Call(t, method, groups, start),
           \/ start = "next" /\ method = "exec"
           \/ start = "resolve" /\ method = "tool" /\ Len(groups) = 1 /\ ~groups[1].counts
    PROVE  IInv'
<1>. USE DEF Call, storeVars
<1>1. Typed'
  BY EmptySeq DEF IInv, Typed, States
<1>2. OthersKept(t)
  BY DEF IInv, Typed, OthersKept
<1>3. /\ pc'[t] = start /\ entry'[t] = method /\ aborted'[t] = None
      /\ input'[t] = groups /\ todo'[t] = groups /\ outputs'[t] = <<>>
      /\ groups # <<>> \/ start = "next"
  BY EmptySeq DEF IInv, Typed
<1>4. Position(t)'
  <2>. HIDE DEF Call, storeVars
  <2>1. Len(groups) \in Nat /\ Len(outputs'[t]) = 0
    BY <1>3, LenProperties, EmptySeq
  <2>2. Len(outputs'[t]) + Len(todo'[t]) = Len(input'[t])
    <3>1. 0 + Len(groups) = Len(groups)
      BY <2>1
    <3>. QED  BY <1>3, <2>1, <3>1
  <2>3. ASSUME NEW j \in 1..Len(todo'[t])
        PROVE  todo'[t][j] = input'[t][Len(outputs'[t]) + j]
    <3>1. j \in Nat
      BY <1>3, <2>1
    <3>2. Len(outputs'[t]) + j = j
      BY <2>1, <3>1
    <3>. QED  BY <1>3, <3>2
  <2>. QED  BY <2>2, <2>3 DEF Position
<1>5. Phase(t)'
  BY <1>3 DEF Phase, Busy
<1>6. Fitting(t)'
  BY <1>3, EmptySeq DEF Fitting
<1>7. Made'
  BY MadeFrame DEF IInv, Made, Typed
<1>8. Newest'
  BY NewestFrame DEF IInv
<1>. QED  BY <1>1, <1>2, <1>4, <1>5, <1>6, <1>7, <1>8, Combine DEF TaskInv

LEMMA ExecKeeps ==
    ASSUME IInv, NEW t \in Tasks, NEW line \in Lines, Exec(t, line)
    PROVE  IInv'
BY CallKeeps, LinesAssumption DEF Exec

LEMMA ExecToolKeeps ==
    ASSUME IInv, NEW t \in Tasks, NEW lead \in ToolCalls, ExecTool(t, lead)
    PROVE  IInv'
<1>. DEFINE group == [lead |-> lead, counts |-> FALSE, separator |-> "End"]
<1>1. group \in Groups
  BY LinesAssumption DEF Groups
<1>2. <<group>> \in Seq(Groups) /\ Len(<<group>>) = 1 /\ <<group>>[1] = group
  BY <1>1
<1>. QED  BY <1>2, CallKeeps DEF ExecTool

LEMMA NextGroupKeeps ==
    ASSUME IInv, NEW t \in Tasks, NextGroup(t)
    PROVE  IInv'
<1>. USE DEF NextGroup, storeVars
<1>0. /\ pc[t] = "next" /\ entry[t] = "exec"
      /\ pc'[t] \in {"done", "resolve"}
  BY DEF IInv, Typed, TaskInv, Phase
<1>1. Typed'
  BY DEF IInv, Typed, States, TransactionError
<1>2. OthersKept(t)
  BY DEF IInv, Typed, OthersKept
<1>3. Phase(t)'
  <2>1. CASE todo[t] = <<>>
    BY <1>0, <2>1 DEF Phase, Busy, IInv, Typed
  <2>2. CASE todo[t] # <<>> /\ LeadOf(t).tool \in TransactionControl
    <3>1. aborted'[t] # None /\ pc'[t] = "done"
      BY <2>2, NoneAssumption DEF IInv, Typed, TransactionError
    <3>. QED  BY <3>1 DEF Phase, Busy
  <2>3. CASE todo[t] # <<>> /\ LeadOf(t).tool \notin TransactionControl
    BY <1>0, <2>3 DEF Phase, Busy, IInv, Typed
  <2>. QED  BY <2>1, <2>2, <2>3
<1>4. TaskInv(t)'
  BY <1>3 DEF IInv, TaskInv, Position, Fitting, Fits
<1>5. Made'
  BY <1>0, MadeFrame DEF IInv, Made, Typed
<1>6. Newest'
  BY NewestFrame DEF IInv
<1>. QED  BY <1>1, <1>2, <1>4, <1>5, <1>6, Combine

LEMMA LockTxKeeps ==
    ASSUME IInv, NEW t \in Tasks, LockTx(t)
    PROVE  IInv'
<1>. USE DEF LockTx, storeVars
<1>1. Typed'
  BY DEF IInv, Typed, States
<1>2. OthersKept(t)
  BY DEF IInv, Typed, OthersKept
<1>3. Phase(t)'
  BY DEF IInv, Typed, TaskInv, Phase, Busy, OperationOf, LeadOf, GroupOf
<1>4. TaskInv(t)'
  BY <1>3 DEF IInv, TaskInv, Position, Fitting, Fits
<1>5. Made'
  BY MadeFrame DEF IInv, Made, Typed
<1>6. Newest'
  BY NewestFrame DEF IInv
<1>. QED  BY <1>1, <1>2, <1>4, <1>5, <1>6, Combine

LEMMA ReturnKeeps ==
    ASSUME IInv, NEW t \in Tasks, Return(t)
    PROVE  IInv'
<1>. USE DEF Return, storeVars
<1>1. Typed'
  BY DEF IInv, Typed, States
<1>2. OthersKept(t)
  BY DEF IInv, Typed, OthersKept
<1>3. Phase(t)'
  BY DEF IInv, Typed, Phase, Busy
<1>4. TaskInv(t)'
  BY <1>3 DEF IInv, TaskInv, Position, Fitting, Fits
<1>5. Made'
  BY MadeFrame DEF IInv, Made, Typed
<1>6. Newest'
  BY NewestFrame DEF IInv
<1>. QED  BY <1>1, <1>2, <1>4, <1>5, <1>6, Combine

(* A pipeline that ends without a result set of its own.                   *)
LEMMA EndKeeps ==
    ASSUME IInv, NEW t \in Tasks, pc[t] \in Busy \ {"store"},
           NEW out \in Outs, Suits(t, out), Finish(t, out),
           seen' \in [Tasks -> Nat], \A u \in Tasks : seen'[u] <= Len(log),
           UNCHANGED <<storeVars, entry, input, aborted, held, answers, log>>
    PROVE  IInv'
<1>. USE DEF storeVars
<1>1. /\ pc' \in [Tasks -> States] /\ pc'[t] \in {"next", "done"}
      /\ todo' \in [Tasks -> Seq(Groups)]
      /\ outputs' \in [Tasks -> Seq(Outs)]
      /\ OthersKept(t)
      /\ TaskInv(t)'
  BY FinishKeeps DEF IInv, Busy
<1>2. Typed'
  BY <1>1 DEF IInv, Typed
<1>3. \A u \in Tasks : pc'[u] = "store" <=> pc[u] = "store"
  BY <1>1 DEF OthersKept
<1>4. Made'
  BY <1>3, MadeFrame DEF IInv
<1>5. Newest'
  BY NewestFrame DEF IInv
<1>. QED  BY <1>1, <1>2, <1>4, <1>5, Combine

(* The same for an error.                                                  *)
LEMMA FailKeeps ==
    ASSUME IInv, NEW t \in Tasks, pc[t] \in Busy \ {"store"},
           NEW code \in Codes \ {"ok"}, Finish(t, Failed(code)),
           UNCHANGED <<storeVars, entry, input, aborted, held, answers, log, seen>>
    PROVE  IInv'
<1>1. Failed(code) \in Outs
  BY DEF Failed, Outs, Shapes
<1>2. Suits(t, Failed(code))
  BY DEF Failed, Suits
<1>3. seen' \in [Tasks -> Nat] /\ \A u \in Tasks : seen'[u] <= Len(log)
  BY DEF IInv, Typed, Made
<1>. QED  BY <1>1, <1>2, <1>3, EndKeeps

LEMMA DispatchLocalKeeps ==
    ASSUME IInv, NEW t \in Tasks, DispatchLocal(t)
    PROVE  IInv'
BY FailKeeps DEF DispatchLocal, Busy, Codes

LEMMA DispatchFailsKeeps ==
    ASSUME IInv, NEW t \in Tasks, DispatchFails(t)
    PROVE  IInv'
BY FailKeeps DEF DispatchFails, Busy, Codes

(* Where a task that resolves its path stands.                             *)
LEMMA AtWork ==
    ASSUME IInv, NEW t \in Tasks, pc[t] \in Busy
    PROVE  /\ GroupOf(t) \in Groups /\ LeadOf(t) \in Leads
           /\ GroupOf(t) = todo[t][1]
<1>1. todo[t] \in Seq(Groups) /\ todo[t] # <<>>
  BY DEF IInv, Typed, TaskInv, Phase
<1>2. GroupOf(t) \in Groups /\ GroupOf(t) = todo[t][1]
  BY <1>1, FirstAndRest DEF GroupOf
<1>. QED  BY <1>2 DEF LeadOf, Groups

LEMMA ResolveKeeps ==
    ASSUME IInv, NEW t \in Tasks, Resolve(t)
    PROVE  IInv' /\ seen'[t] >= seen[t] /\ \A u \in Tasks \ {t} : seen'[u] = seen[u]
<1>. DEFINE o == OperationOf(t)
<1>0. /\ pc[t] = "resolve" /\ pc[t] \in Busy \ {"store"}
      /\ UNCHANGED <<storeVars, entry, input, aborted, held, calls, answers, log>>
      /\ seen \in [Tasks -> Nat] /\ \A u \in Tasks : seen[u] <= Len(log)
      /\ LeadOf(t) \in Leads
      /\ GroupOf(t) = todo[t][1]
  BY AtWork DEF Resolve, Busy, IInv, Typed, Made
<1>1. CASE Refusal(o) # None /\ Finish(t, Failed(Refusal(o))) /\ UNCHANGED seen
  <2>1. o.kind = "Error" => o.request \in {"NotFound", "InvalidPath"}
    BY <1>0, ResolvedLead DEF OperationOf
  <2>2. Refusal(o) \in Codes \ {"ok"}
    BY <1>1, <2>1 DEF Refusal, Codes
  <2>3. IInv'
    BY <1>0, <1>1, <2>2, FailKeeps
  <2>. QED  BY <1>0, <1>1, <2>3
<1>2. CASE AnswersHere(t, o) /\ Answered(t)
  <2>. DEFINE id == LeadOf(t).path.raw
              rs == Store!GetValue(id)
              out == IF rs = NotFound THEN Failed("NotFound") ELSE Ok("Records", rs)
              at == CHOOSE i \in 1..Len(log) : log[i] = rs
  <2>1. /\ rs # NotFound => rs \in ResultSets
        /\ rs # NotFound /\ id = "last" => Len(log) \in Nat /\ at = Len(log)
    BY LastReadsTheNewest DEF IInv
  <2>2. /\ seen' \in [Tasks -> Nat] /\ \A u \in Tasks : seen'[u] <= Len(log)
        /\ seen'[t] >= seen[t] /\ \A u \in Tasks \ {t} : seen'[u] = seen[u]
    <3>1. CASE rs # NotFound /\ id = "last"
      <4>1. seen' = [seen EXCEPT ![t] = at]
        BY <1>2, <3>1 DEF Answered
      <4>. HIDE DEF id, rs, at
      <4>. QED  BY <1>0, <2>1, <3>1, <4>1
    <3>2. CASE ~(rs # NotFound /\ id = "last")
      <4>1. seen' = seen
        BY <1>2, <3>2 DEF Answered
      <4>. QED  BY <1>0, <4>1
    <3>. QED  BY <3>1, <3>2
  <2>3. out \in Outs
    <3>. HIDE DEF id, rs
    <3>. QED  BY <2>1 DEF Outs, Codes, Shapes, Ok, Failed
  <2>4. Suits(t, out)
    <3>1. o.kind = "ReadResult" /\ entry[t] = "tool"
      BY <1>2 DEF AnswersHere
    <3>2. ~GroupOf(t).counts
      BY <1>0, <3>1 DEF IInv, TaskInv, Phase, Busy
    <3>3. PayloadOf(o.kind) = "Records"
      BY <3>1 DEF PayloadOf
    <3>. HIDE DEF id, rs
    <3>. QED  BY <3>2, <3>3 DEF Suits, Ok, Failed
  <2>5. Finish(t, out)
    BY <1>2 DEF Answered
  <2>. HIDE DEF id, rs, at, out
  <2>6. IInv'
    BY <1>0, <2>2, <2>3, <2>4, <2>5, EndKeeps
  <2>. QED  BY <2>2, <2>6
<1>3. CASE /\ ~AnswersHere(t, o)
           /\ pc' = [pc EXCEPT ![t] = "lock"]
           /\ UNCHANGED <<todo, outputs, seen>>
  <2>. USE DEF storeVars
  <2>1. Typed'
    BY <1>0, <1>3 DEF IInv, Typed, States
  <2>2. OthersKept(t)
    BY <1>0, <1>3 DEF IInv, Typed, OthersKept
  <2>3. Phase(t)'
    <3>1. entry[t] = "tool" => HasDriver(o)
      BY <1>0, <1>3, ResolvedLead DEF AnswersHere, HasDriver, LocalKinds, OperationOf
    <3>2. pc'[t] = "lock"
      BY <1>3 DEF IInv, Typed
    <3>. QED  BY <1>0, <1>3, <3>1, <3>2 DEF IInv, TaskInv, Phase, Busy, OperationOf, LeadOf, GroupOf
  <2>4. TaskInv(t)'
    BY <1>0, <1>3, <2>3 DEF IInv, TaskInv, Position, Fitting, Fits
  <2>5. \A u \in Tasks : pc'[u] = "store" <=> pc[u] = "store"
    BY <1>0, <1>3 DEF IInv, Typed
  <2>6. Made'
    BY <1>0, <1>3, <2>5, MadeFrame DEF IInv
  <2>7. Newest'
    BY <1>0, NewestFrame DEF IInv
  <2>8. IInv'
    BY <2>1, <2>2, <2>4, <2>6, <2>7, Combine
  <2>. QED  BY <1>0, <1>3, <2>8
<1>. QED  BY <1>1, <1>2, <1>3 DEF Resolve

(* A new result set has a number of its own.                               *)
LEMMA DispatchKeeps ==
    ASSUME IInv, NEW t \in Tasks, Dispatch(t)
    PROVE  IInv'
<1>. DEFINE payload == IF GroupOf(t).counts THEN "Written"
                       ELSE PayloadOf(OperationOf(t).kind)
<1>0. /\ pc[t] = "dispatch" /\ pc[t] \in Busy \ {"store"}
      /\ UNCHANGED <<storeVars, entry, input, aborted, calls, log, seen>>
      /\ seen \in [Tasks -> Nat] /\ \A u \in Tasks : seen[u] <= Len(log)
  BY DEF Dispatch, Busy, IInv, Typed, Made
<1>1. CASE payload # "Records"
  <2>1. Finish(t, Ok(payload, None)) /\ UNCHANGED <<answers, held>>
    BY <1>1 DEF Dispatch
  <2>2. Ok(payload, None) \in Outs
    BY DEF Ok, Outs, Codes, Shapes, PayloadOf
  <2>3. Suits(t, Ok(payload, None))
    BY DEF Suits, Ok
  <2>. HIDE DEF payload
  <2>. QED  BY <1>0, <2>1, <2>2, <2>3, EndKeeps
<1>2. CASE payload = "Records"
  <2>1. /\ answers' = answers + 1 /\ held' = [held EXCEPT ![t] = answers + 1]
        /\ pc' = [pc EXCEPT ![t] = "store"]
        /\ UNCHANGED <<todo, outputs>>
        /\ ~GroupOf(t).counts /\ PayloadOf(OperationOf(t).kind) = "Records"
    BY <1>2 DEF Dispatch
  <2>. USE DEF storeVars
  <2>2. Typed'
    BY <1>0, <2>1 DEF IInv, Typed, States, ResultSets
  <2>3. OthersKept(t)
    BY <1>0, <2>1 DEF IInv, Typed, OthersKept
  <2>4. Phase(t)'
    <3>1. pc'[t] = "store"
      BY <2>1 DEF IInv, Typed
    <3>. QED
      BY <1>0, <2>1, <3>1 DEF IInv, TaskInv, Phase, Busy, OperationOf, LeadOf, GroupOf
  <2>5. TaskInv(t)'
    BY <1>0, <2>1, <2>4 DEF IInv, TaskInv, Position, Fitting, Fits
  <2>6. Made'
    <3>1. /\ answers \in Nat /\ None \notin Nat
          /\ Len(log) \in Nat /\ \A i \in 1..Len(log) : log[i] \in Nat
      BY NoneAssumption, LenProperties, ElementOfSeq DEF IInv, Typed, ResultSets
    <3>2. /\ held'[t] = answers + 1 /\ pc'[t] = "store"
          /\ \A u \in Tasks \ {t} : held'[u] = held[u] /\ pc'[u] = pc[u]
      BY <2>1 DEF IInv, Typed
    <3>3. \A u \in Tasks : held[u] # None => held[u] \in Nat /\ held[u] <= answers
      BY DEF IInv, Typed, ResultSets, Made
    <3>4. \A u \in Tasks \ {t} : held'[u] # held'[t]
      BY <3>1, <3>2, <3>3
    <3>5. \A u \in Tasks : held'[u] # None => held'[u] <= answers'
      BY <2>1, <3>1, <3>2, <3>3
    <3>6. \A i \in 1..Len(log) : log[i] <= answers /\ log[i] # answers + 1
      BY <3>1 DEF IInv, Made
    <3>7. \A i \in 1..Len(log) : log[i] <= answers'
      BY <2>1, <3>1, <3>6
    <3>8. \A u \in Tasks : held'[u] # None <=> pc'[u] = "store"
      BY <3>1, <3>2 DEF IInv, Made
    <3>9. \A u \in Tasks : \A i \in 1..Len(log) : held'[u] # log[i]
      BY <3>2, <3>6 DEF IInv, Made
    <3>. QED  BY <1>0, <3>2, <3>4, <3>5, <3>7, <3>8, <3>9 DEF IInv, Made
  <2>7. Newest'
    BY <1>0, NewestFrame DEF IInv
  <2>. QED  BY <2>2, <2>3, <2>5, <2>6, <2>7, Combine
<1>. QED  BY <1>1, <1>2

(* The result set stored is the newest, and new.                           *)
LEMMA StoreKeeps ==
    ASSUME IInv, NEW t \in Tasks, StoreRecords(t)
    PROVE  IInv' /\ seen'[t] >= seen[t] /\ \A u \in Tasks \ {t} : seen'[u] = seen[u]
<1>. DEFINE out == Ok("Records", held[t])
<1>0. /\ pc[t] = "store" /\ pc[t] \in Busy
      /\ UNCHANGED <<entry, input, aborted, calls, answers>>
      /\ Finish(t, out)
      /\ seen' = [seen EXCEPT ![t] = Len(log) + 1]
      /\ held' = [held EXCEPT ![t] = None]
      /\ log' = Append(log, held[t])
      /\ Store!Store(FreshId, held[t])
  BY DEF StoreRecords, Busy
<1>1. /\ held[t] # None /\ held[t] \in ResultSets
      /\ log \in Seq(ResultSets) /\ answers \in Nat
      /\ seen \in [Tasks -> Nat] /\ held \in [Tasks -> ResultSets \cup {None}]
      /\ None \notin Nat
  BY <1>0, NoneAssumption DEF IInv, Made, Typed
<1>2. /\ log' \in Seq(ResultSets) /\ Len(log) \in Nat /\ Len(log') = Len(log) + 1
      /\ \A i \in 1..Len(log) : log'[i] = log[i]
      /\ log'[Len(log')] = held[t]
  BY <1>0, <1>1, Appended
<1>3. /\ last' = FreshId /\ FreshId \in DOMAIN results'
      /\ results'[FreshId] = held[t]
      /\ \A id \in DOMAIN results' : results'[id] \in ResultSets
  BY <1>0, <1>1 DEF Store!Store, Store!LastAfter, IInv, Typed
<1>4. FreshId # NotFound
  BY <1>0, StoreAssumption DEF Store!Store, Store!NewId
<1>5. /\ pc' \in [Tasks -> States] /\ pc'[t] \in {"next", "done"}
      /\ todo' \in [Tasks -> Seq(Groups)]
      /\ outputs' \in [Tasks -> Seq(Outs)]
      /\ OthersKept(t)
      /\ TaskInv(t)'
  <2>1. out \in Outs
    BY <1>1 DEF Outs, Codes, Shapes, Ok
  <2>2. Suits(t, out)
    BY <1>0 DEF Suits, Ok, IInv, TaskInv, Phase
  <2>. HIDE DEF out
  <2>. QED  BY <1>0, <2>1, <2>2, FinishKeeps DEF IInv
<1>6. Typed'
  BY <1>0, <1>1, <1>2, <1>3, <1>5 DEF IInv, Typed
<1>7. seen'[t] >= seen[t] /\ \A u \in Tasks \ {t} : seen'[u] = seen[u]
  BY <1>0, <1>1, <1>2 DEF IInv, Made
<1>8. Made'
  <2>1. /\ held'[t] = None
        /\ \A u \in Tasks \ {t} : held'[u] = held[u] /\ held[u] # held[t] /\ pc'[u] = pc[u]
    <3>1. \A u \in Tasks \ {t} : held[u] # held[t]
      BY <1>1 DEF IInv, Made
    <3>. QED  BY <1>0, <1>1, <1>5, <3>1 DEF OthersKept
  <2>2. \A i \in 1..Len(log') : IF i = Len(log') THEN log'[i] = held[t]
                                ELSE i \in 1..Len(log) /\ log'[i] = log[i]
    BY <1>2
  <2>3. \A i \in 1..Len(log') : log'[i] \in Nat
    BY <1>2, ElementOfSeq DEF ResultSets
  <2>4. \A u \in Tasks : held'[u] # None <=> pc'[u] = "store"
    BY <1>5, <2>1 DEF IInv, Made
  <2>5. \A u \in Tasks : held'[u] # None => held'[u] <= answers'
    BY <1>0, <2>1 DEF IInv, Made
  <2>6. \A u \in Tasks : \A i \in 1..Len(log') : held'[u] # log'[i]
    BY <1>1, <2>1, <2>2, <2>3 DEF IInv, Made
  <2>7. \A u, v \in Tasks : held'[u] = held'[v] /\ held'[u] # None => u = v
    BY <2>1 DEF IInv, Made
  <2>8. \A u \in Tasks : seen'[u] <= Len(log')
    BY <1>0, <1>1, <1>2 DEF IInv, Made
  <2>9. \A i \in 1..Len(log') : log'[i] <= answers'
    BY <1>0, <1>1, <2>2 DEF IInv, Made
  <2>10. \A i, j \in 1..Len(log') : log'[i] = log'[j] => i = j
    BY <1>0, <2>2 DEF IInv, Made
  <2>. QED  BY <2>4, <2>5, <2>6, <2>7, <2>8, <2>9, <2>10 DEF Made
<1>9. Newest'
  BY <1>2, <1>3, <1>4 DEF Newest
<1>. QED  BY <1>5, <1>6, <1>7, <1>8, <1>9, Combine

-----------------------------------------------------------------------------
LEMMA NextKeeps ==
    ASSUME IInv, [Next]_vars
    PROVE  IInv' /\ \A u \in Tasks : seen'[u] >= seen[u]
<1>0. seen \in [Tasks -> Nat]
  BY DEF IInv, Typed
<1>1. ASSUME NEW t \in Tasks, NEW line \in Lines, Exec(t, line)
      PROVE  IInv' /\ \A u \in Tasks : seen'[u] >= seen[u]
  <2>1. IInv'
    BY <1>1, ExecKeeps
  <2>2. seen' = seen
    BY <1>1 DEF Exec, Call, storeVars
  <2>. QED  BY <1>0, <2>1, <2>2
<1>2. ASSUME NEW t \in Tasks, NEW lead \in ToolCalls, ExecTool(t, lead)
      PROVE  IInv' /\ \A u \in Tasks : seen'[u] >= seen[u]
  <2>1. IInv'
    BY <1>2, ExecToolKeeps
  <2>2. seen' = seen
    BY <1>2 DEF ExecTool, Call, storeVars
  <2>. QED  BY <1>0, <2>1, <2>2
<1>3. ASSUME NEW t \in Tasks, NextGroup(t)
      PROVE  IInv' /\ \A u \in Tasks : seen'[u] >= seen[u]
  <2>1. IInv'
    BY <1>3, NextGroupKeeps
  <2>2. seen' = seen
    BY <1>3 DEF NextGroup, storeVars
  <2>. QED  BY <1>0, <2>1, <2>2
<1>4. ASSUME NEW t \in Tasks, Resolve(t)
      PROVE  IInv' /\ \A u \in Tasks : seen'[u] >= seen[u]
  BY <1>0, <1>4, ResolveKeeps
<1>5. ASSUME NEW t \in Tasks, LockTx(t)
      PROVE  IInv' /\ \A u \in Tasks : seen'[u] >= seen[u]
  <2>1. IInv'
    BY <1>5, LockTxKeeps
  <2>2. seen' = seen
    BY <1>5 DEF LockTx, storeVars
  <2>. QED  BY <1>0, <2>1, <2>2
<1>6. ASSUME NEW t \in Tasks, DispatchLocal(t)
      PROVE  IInv' /\ \A u \in Tasks : seen'[u] >= seen[u]
  <2>1. IInv'
    BY <1>6, DispatchLocalKeeps
  <2>2. seen' = seen
    BY <1>6 DEF DispatchLocal, storeVars
  <2>. QED  BY <1>0, <2>1, <2>2
<1>7. ASSUME NEW t \in Tasks, DispatchFails(t)
      PROVE  IInv' /\ \A u \in Tasks : seen'[u] >= seen[u]
  <2>1. IInv'
    BY <1>7, DispatchFailsKeeps
  <2>2. seen' = seen
    BY <1>7 DEF DispatchFails, storeVars
  <2>. QED  BY <1>0, <2>1, <2>2
<1>8. ASSUME NEW t \in Tasks, Dispatch(t)
      PROVE  IInv' /\ \A u \in Tasks : seen'[u] >= seen[u]
  <2>1. IInv'
    BY <1>8, DispatchKeeps
  <2>2. seen' = seen
    BY <1>8 DEF Dispatch, storeVars
  <2>. QED  BY <1>0, <2>1, <2>2
<1>9. ASSUME NEW t \in Tasks, StoreRecords(t)
      PROVE  IInv' /\ \A u \in Tasks : seen'[u] >= seen[u]
  BY <1>0, <1>9, StoreKeeps
<1>10. ASSUME NEW t \in Tasks, Return(t)
       PROVE  IInv' /\ \A u \in Tasks : seen'[u] >= seen[u]
  <2>1. IInv'
    BY <1>10, ReturnKeeps
  <2>2. seen' = seen
    BY <1>10 DEF Return, storeVars
  <2>. QED  BY <1>0, <2>1, <2>2
<1>11. CASE UNCHANGED vars
  <2>. USE <1>11 DEF vars, storeVars, taskVars
  <2>1. Typed'
    BY DEF IInv, Typed
  <2>2. ASSUME NEW u \in Tasks PROVE TaskInv(u)'
    <3>1. Position(u)' /\ Fitting(u)'
      BY DEF IInv, TaskInv, Position, Fitting, Fits
    <3>2. Phase(u)'
      BY DEF IInv, TaskInv, Phase, OperationOf, LeadOf, GroupOf
    <3>. QED  BY <3>1, <3>2 DEF TaskInv
  <2>3. Made'
    BY MadeFrame DEF IInv, Made, Typed
  <2>4. Newest'
    BY NewestFrame DEF IInv
  <2>5. IInv'
    BY <2>1, <2>2, <2>3, <2>4 DEF IInv
  <2>. QED  BY <1>0, <2>5
<1>. QED
  BY <1>1, <1>2, <1>3, <1>4, <1>5, <1>6, <1>7, <1>8, <1>9, <1>10, <1>11 DEF Next, Local

LEMMA Invariant == Spec => []IInv
  BY Starts, NextKeeps, PTL DEF Spec

(* No task waits without a group to wait for, exec_tool() sends the router *)
(* nothing it has no driver for, and no result set is stored twice.        *)
THEOREM SessionTypeCorrect == Spec => []TypeOK
<1>1. ASSUME IInv PROVE TypeOK
  <2>1. Len(log) \in Nat /\ \A i \in 1..Len(log) : log[i] \in Nat \ {0}
    BY <1>1, LenProperties, ElementOfSeq DEF IInv, Typed, ResultSets
  <2>2. \A i \in 1..Len(log) : log[i] \in 1..answers
    BY <1>1, <2>1 DEF IInv, Typed, Made
  <2>3. ASSUME NEW t \in Tasks
        PROVE  /\ held[t] \in (1..answers) \cup {None}
               /\ seen[t] \in 0..Len(log)
    BY <1>1, <2>1 DEF IInv, Typed, Made, ResultSets
  <2>4. ASSUME NEW t \in Tasks
        PROVE  /\ pc[t] \in {"resolve", "lock", "dispatch", "store"} => todo[t] # <<>>
               /\ pc[t] = "dispatch" /\ entry[t] = "tool" => HasDriver(OperationOf(t))
    BY <1>1 DEF IInv, TaskInv, Phase, Busy
  <2>. QED  BY <1>1, <2>2, <2>3, <2>4 DEF IInv, Typed, Made, TypeOK, States
<1>. QED  BY <1>1, Invariant, PTL

(* Each pipeline of a line has its output, at its place, whatever fails and*)
(* whatever other tasks do.                                                *)
THEOREM SessionOutputsMatchGroups == Spec => []OutputsMatchGroups
<1>1. IInv => OutputsMatchGroups
  BY DEF IInv, TaskInv, Position, Phase, Fitting, OutputsMatchGroups, Total
<1>. QED  BY <1>1, Invariant, PTL

(* No task ever sees /results/last go back.                                *)
THEOREM SessionLastNeverGoesBack == Spec => LastNeverGoesBack
<1>1. IInv /\ [Next]_vars => [\A t \in Tasks : seen'[t] >= seen[t]]_vars
  BY NextKeeps
<1>. QED  BY <1>1, Invariant, PTL DEF Spec, LastNeverGoesBack
=============================================================================
