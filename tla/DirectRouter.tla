---------------------------- MODULE DirectRouter ----------------------------
(***************************************************************************)
(* What a router promises if the cache is to be invisible: every call      *)
(* takes effect and gets its answer from the database at one instant       *)
(* between its invocation and its return, or it fails and changes nothing. *)
(***************************************************************************)
EXTENDS Driver

CONSTANTS
    Clients,  \* tasks that share the router
    Ops,      \* the operations they may call
    NoOp, NoReply

VARIABLES
    db,       \* the database
    phase,    \* per client: "idle", "pending" or "done"
    op,       \* per client: its operation
    got       \* per client: the answer

vars == <<db, phase, op, got>>

Init ==
    /\ db = InitialDb
    /\ phase = [c \in Clients |-> "idle"]
    /\ op = [c \in Clients |-> NoOp]
    /\ got = [c \in Clients |-> NoReply]

Invoke(c, o) ==
    /\ phase[c] = "idle"
    /\ phase' = [phase EXCEPT ![c] = "pending"]
    /\ op' = [op EXCEPT ![c] = o]
    /\ UNCHANGED <<db, got>>

Execute(c) ==
    /\ phase[c] = "pending"
    /\ phase' = [phase EXCEPT ![c] = "done"]
    /\ db' = Effect(op[c], db)
    /\ got' = [got EXCEPT ![c] = Outcome(op[c], db)]
    /\ UNCHANGED op

Fail(c) ==
    /\ phase[c] = "pending"
    /\ phase' = [phase EXCEPT ![c] = "done"]
    /\ got' = [got EXCEPT ![c] = Err]
    /\ UNCHANGED <<db, op>>

Return(c) ==
    /\ phase[c] = "done"
    /\ phase' = [phase EXCEPT ![c] = "idle"]
    /\ op' = [op EXCEPT ![c] = NoOp]
    /\ got' = [got EXCEPT ![c] = NoReply]
    /\ UNCHANGED db

Next ==
    \E c \in Clients :
        \/ \E o \in Ops : Invoke(c, o)
        \/ Execute(c)
        \/ Fail(c)
        \/ Return(c)

Spec == Init /\ [][Next]_vars
=============================================================================
