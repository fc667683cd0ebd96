------------------------------- MODULE Router -------------------------------
(***************************************************************************)
(* CachedQueryRouter (crates/dbshell-core/src/router.rs) over CacheLayer   *)
(* (cache.rs): tasks on a multi-threaded runtime share one router, and a   *)
(* call is cut at every await, where another task may run.                 *)
(***************************************************************************)
EXTENDS Driver, FiniteSets

CONSTANTS
    Clients,       \* tasks that call dispatch() on the shared router
    Ops,           \* the operations they may call
    Policy,        \* CachePolicy
    Capacity,      \* max_capacity, 10_000 in the code
    FaultyDriver,  \* may a driver call fail, or its reply be lost?
    Absent, NoOp, NoReply

ASSUME PolicyAssumption ==
    Policy \in {"None", "SessionScoped", "Ttl", "Persistent"}
ASSUME CapacityAssumption == Capacity \in Nat \ {0}
ASSUME OpsAssumption ==
    /\ NoOp \notin Ops
    /\ \A o \in Ops : /\ o = [kind |-> o.kind, on |-> o.on, request |-> o.request]
                      /\ o.on \subseteq Entities

VARIABLES
    db,          \* the data behind the driver
    cache,       \* session_cache: CacheKey -> payload, or Absent
    pc,          \* per client: where its call stands
    op,          \* per client: the operation of that call
    got,         \* per client: the result it holds
    overlapped,  \* history: clients that read before a change, not yet put
    exposed      \* history: keys no invalidation is due for, see below

callVars == <<pc, op, got>>
vars == <<db, cache, callVars, overlapped, exposed>>

\* CacheKey::from_op hashes the Debug text, which shows every field; two
\* operations with one 64-bit hash are left out.
SlipCacheKey(o) == <<o.on, o.request>>
CacheKey(o) == <<o.kind, o.on, o.request>>

Keys == { CacheKey(o) : o \in Ops }

Enabled == Policy # "None"

Init ==
    /\ db = InitialDb
    /\ cache = [k \in Keys |-> Absent]
    /\ pc = [c \in Clients |-> "idle"]
    /\ op = [c \in Clients |-> NoOp]
    /\ got = [c \in Clients |-> NoReply]
    /\ overlapped = {}
    /\ exposed = {}

-----------------------------------------------------------------------------
(* dispatch(): a write goes straight to the driver, a read looks first.    *)

Invoke(c, o) ==
    /\ pc[c] = "idle"
    /\ op' = [op EXCEPT ![c] = o]
    /\ pc' = [pc EXCEPT ![c] = IF IsWrite(o) THEN "drive" ELSE "lookup"]
    /\ UNCHANGED <<db, cache, got, overlapped, exposed>>

\* CacheLayer::get.  A hit is returned as it is.
Lookup(c) ==
    LET hit == cache[CacheKey(op[c])]
    IN  /\ pc[c] = "lookup"
        /\ IF hit # Absent
           THEN /\ pc' = [pc EXCEPT ![c] = "done"]
                /\ got' = [got EXCEPT ![c] = hit]
           ELSE /\ pc' = [pc EXCEPT ![c] = "drive"]
                /\ UNCHANGED got
        /\ UNCHANGED <<db, cache, op, overlapped, exposed>>

\* Where a call goes once the driver answered r: `?` returns an Err.  The
\* slips retry after an error, or cache it like an answer.
SlipRetries(o, r) == IF r = Err THEN IF IsWrite(o) THEN "drive" ELSE "lookup"
                     ELSE IF IsWrite(o) THEN "invalidate" ELSE "fill"
SlipCachesErrors(o, r) == IF IsWrite(o) THEN "invalidate" ELSE "fill"
AfterDriver(o, r) == IF r = Err THEN "done"
                     ELSE IF IsWrite(o) THEN "invalidate" ELSE "fill"

\* The history of a change: calls that already read and will still put, and
\* the keys whose entries nobody is going to invalidate.
Witness(change, invalidates) ==
    /\ overlapped' = IF change THEN overlapped \cup { r \in Clients : pc[r] = "fill" }
                     ELSE overlapped
    /\ exposed' = IF change /\ ~invalidates THEN Keys ELSE exposed

\* inner.dispatch(op).await, the driver's part of it.  Of the kinds that may
\* change data, a GraphQuery alone is no write to is_write().
Drive(c) ==
    LET r == Outcome(op[c], db)
    IN  /\ pc[c] = "drive"
        /\ db' = Effect(op[c], db)
        /\ got' = [got EXCEPT ![c] = r]
        /\ pc' = [pc EXCEPT ![c] = AfterDriver(op[c], r)]
        /\ Witness(db' # db, op[c].kind # "GraphQuery")
        /\ UNCHANGED <<cache, op>>

\* The driver fails and nothing happened.
DriverFail(c) ==
    /\ FaultyDriver
    /\ pc[c] = "drive"
    /\ got' = [got EXCEPT ![c] = Err]
    /\ pc' = [pc EXCEPT ![c] = AfterDriver(op[c], Err)]
    /\ UNCHANGED <<db, cache, op, overlapped, exposed>>

\* The change happened, its reply got lost (or the caller dropped the future
\* while waiting for it): `?` leaves before invalidate_for_write.
LoseReply(c) ==
    /\ FaultyDriver
    /\ pc[c] = "drive"
    /\ Effect(op[c], db) # db
    /\ db' = Effect(op[c], db)
    /\ got' = [got EXCEPT ![c] = Err]
    /\ pc' = [pc EXCEPT ![c] = AfterDriver(op[c], Err)]
    /\ Witness(TRUE, FALSE)
    /\ UNCHANGED <<cache, op>>

-----------------------------------------------------------------------------
(* The cache after the driver answered.                                    *)

Entries(m) == { k \in Keys : m[k] # Absent }

\* CacheLayer::put.  At capacity moka gives up some entry, maybe the new one.
Put(k, r) ==
    LET full == [cache EXCEPT ![k] = r]
    IN  IF ~Enabled THEN cache' = cache
        ELSE IF Cardinality(Entries(full)) <= Capacity THEN cache' = full
        ELSE \E v \in Entries(full) : cache' = [full EXCEPT ![v] = Absent]

Fill(c) ==
    LET k == CacheKey(op[c])
    IN  /\ pc[c] = "fill"
        /\ Put(k, got[c])
        /\ pc' = [pc EXCEPT ![c] = "done"]
        /\ overlapped' = overlapped \ {c}
        /\ exposed' = IF c \in overlapped THEN exposed \cup {k} ELSE exposed \ {k}
        /\ UNCHANGED <<db, op, got>>

\* invalidate_for_write: the whole cache, whatever the operation.  The slip
\* is an invalidation by name, which reads that name nothing survive.
SlipSurvivors(o) ==
    { k \in Keys : \/ CollectionOrTable(o) \cap k[2] = {}
                   \/ k[1] \notin ScopedKinds }
Survivors(o) == IF Enabled THEN {} ELSE Keys

Invalidate(c) ==
    /\ pc[c] = "invalidate"
    /\ cache' = [k \in Keys |-> IF k \in Survivors(op[c]) THEN cache[k] ELSE Absent]
    /\ exposed' = {}
    /\ pc' = [pc EXCEPT ![c] = "done"]
    /\ UNCHANGED <<db, op, got, overlapped>>

Return(c) ==
    /\ pc[c] = "done"
    /\ pc' = [pc EXCEPT ![c] = "idle"]
    /\ op' = [op EXCEPT ![c] = NoOp]
    /\ got' = [got EXCEPT ![c] = NoReply]
    /\ UNCHANGED <<db, cache, overlapped, exposed>>

\* time_to_live
SlipExpires == Policy = "Persistent"
Expires == Policy = "Ttl"

Expire(k) ==
    /\ Expires
    /\ cache[k] # Absent
    /\ cache' = [cache EXCEPT ![k] = Absent]
    /\ UNCHANGED <<db, callVars, overlapped, exposed>>

-----------------------------------------------------------------------------
Proceed(c) ==
    \/ Lookup(c)
    \/ Drive(c)
    \/ Fill(c)
    \/ Invalidate(c)
    \/ Return(c)

Next ==
    \/ \E c \in Clients :
        \/ \E o \in Ops : Invoke(c, o)
        \/ Proceed(c)
        \/ DriverFail(c)
        \/ LoseReply(c)
    \/ \E k \in Keys : Expire(k)

\* The runtime polls every task whose await is ready, the driver answers
\* every call, moka expires every entry; nobody has to call.
Fairness ==
    /\ \A c \in Clients : WF_vars(Proceed(c))
    /\ \A k \in Keys : WF_vars(Expire(k))

Spec == Init /\ [][Next]_vars
FairSpec == Spec /\ Fairness

-----------------------------------------------------------------------------
Answers ==
    [call : Ops, seen : UNION { [S -> 0..MaxVersion] : S \in SUBSET Entities }]

ASSUME AnswersAssumption == {Err, Absent, NoReply} \cap Answers = {} /\ Absent # Err

(* Type invariant: every entry is a driver's answer, Err is never cached,  *)
(* only a reader fills and only a writer invalidates.                      *)
TypeOK ==
    /\ db \in Databases
    /\ cache \in [Keys -> Answers \cup {Absent}]
    /\ pc \in [Clients -> {"idle", "lookup", "drive", "fill", "invalidate", "done"}]
    /\ op \in [Clients -> Ops \cup {NoOp}]
    /\ got \in [Clients -> Answers \cup {Err, NoReply}]
    /\ \A c \in Clients :
        /\ pc[c] = "idle" <=> op[c] = NoOp
        /\ pc[c] \in {"lookup", "fill"} => ~IsWrite(op[c])
        /\ pc[c] = "invalidate" => IsWrite(op[c])
        /\ pc[c] \in {"fill", "invalidate"} => got[c] \in Answers
    /\ overlapped \subseteq { c \in Clients : pc[c] = "fill" }
    /\ exposed \subseteq Keys

\* What a lookup of k answers is what the driver would answer now; a query
\* that changes the data has no such answer.
Fresh(k) ==
    \/ cache[k] = Absent
    \/ Mutating(cache[k].call)
    \/ cache[k] = Outcome(cache[k].call, db)

Invalidating == \E c \in Clients : pc[c] = "invalidate"

(* Nobody is served another operation's answer: what a call holds, be it   *)
(* from the driver or from an entry some other call put, answers this call.*)
RepliesAnswerTheCall ==
    \A c \in Clients :
        pc[c] \in {"fill", "invalidate", "done"} => got[c] = Err \/ got[c].call = op[c]

(* The cache goes stale in three ways only: a write has reached the driver *)
(* and its invalidation is still to come; a reader that had its answer     *)
(* before a change put it after; or a change was made that invalidates     *)
(* nothing (a GraphQuery, or a write whose reply was lost).  So without    *)
(* such overlaps, failures and graph writes, every entry is the driver's.  *)
StaleOnlyIfExposed ==
    \A k \in Keys : Fresh(k) \/ k \in exposed \/ Invalidating

(* "Invalidate all cached entries for the driver+collection/table affected *)
(* by this write operation" (cache.rs:66): outside the instants between a  *)
(* write and its invalidation, every entry is what the driver would answer.*)
Coherent == Invalidating \/ \A k \in Keys : Fresh(k)

(* The cache is invisible: calls behave as if each went to the database at *)
(* one instant of its own (Lookup of a hit, or Drive).                     *)
Direct ==
    INSTANCE DirectRouter WITH
        phase <- [c \in Clients |->
                     IF pc[c] \in {"lookup", "drive"} THEN "pending"
                     ELSE IF pc[c] = "idle" THEN "idle" ELSE "done"]

ImplementsDirect == Direct!Spec

(* Every call returns, whatever the driver's errors and the other tasks do.*)
CallsReturn == \A c \in Clients : pc[c] # "idle" ~> pc[c] = "idle"

(* Under a Ttl policy a stale entry does not stay.                         *)
StaleExpires == \A k \in Keys : ~Fresh(k) ~> Fresh(k)
=============================================================================
