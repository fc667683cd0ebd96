---------------------------- MODULE RouterProofs ----------------------------
(***************************************************************************)
(* For any number of clients, any operations, policy, capacity and driver  *)
(* failures: a cache entry is stale only in the ways StaleOnlyIfExposed    *)
(* names.  Without overlap, failure and graph writes it never is.          *)
(***************************************************************************)
EXTENDS Router, TLAPS

(* The inductive invariant.  A reader about to put must know that its      *)
(* answer is current or that a change overlapped it (FillIsFresh), an      *)
(* entry must be found under the key of the call it answers (KeysMatch),   *)
(* and CachePolicy::None must never have an entry (NothingCached).         *)
KeysMatch ==
    \A k \in Keys : cache[k] # Absent => CacheKey(cache[k].call) = k

FillIsFresh ==
    \A c \in Clients :
        pc[c] = "fill" => \/ c \in overlapped
                          \/ Mutating(op[c])
                          \/ got[c] = Outcome(op[c], db)

NothingCached == ~Enabled => \A k \in Keys : cache[k] = Absent

IInv ==
    /\ TypeOK
    /\ NothingCached
    /\ KeysMatch
    /\ RepliesAnswerTheCall
    /\ FillIsFresh
    /\ StaleOnlyIfExposed

USE OpsAssumption, AnswersAssumption

-----------------------------------------------------------------------------
(* The driver.                                                             *)

(* A change leaves every content within its bound.                         *)
LEMMA EffectTyped ==
    ASSUME NEW o \in Ops, NEW d \in Databases
    PROVE  Effect(o, d) \in Databases
<1>1. ASSUME NEW e \in Entities PROVE Changed(o, d, e) \in 0..MaxVersion
  BY MaxVersionAssumption DEF Changed, Databases, Empty, Missing
<1>2. \A e \in Entities : d[e] \in 0..MaxVersion
  BY DEF Databases
<1>3. [e \in Entities |-> IF e \in o.on THEN Changed(o, d, e) ELSE d[e]] \in Databases
  BY <1>1, <1>2 DEF Databases
<1>. QED  BY <1>3 DEF Effect

LEMMA AnswerTyped ==
    ASSUME NEW o \in Ops, NEW d \in Databases
    PROVE  Answer(o, d) \in Answers /\ Answer(o, d).call = o
<1>1. Scope(o) \subseteq Entities
  BY DEF Scope, Entities
<1>2. [e \in Scope(o) |-> d[e]] \in [Scope(o) -> 0..MaxVersion]
  BY <1>1 DEF Databases
<1>3. [e \in Scope(o) |-> d[e]] \in UNION { [S -> 0..MaxVersion] : S \in SUBSET Entities }
  BY <1>1, <1>2
<1>. QED  BY <1>3 DEF Answer, Answers

(* What the driver returns is an error, or an answer to the very call.     *)
LEMMA OutcomeTyped ==
    ASSUME NEW o \in Ops, NEW d \in Databases
    PROVE  Outcome(o, d) = Err \/ (Outcome(o, d) \in Answers /\ Outcome(o, d).call = o)
BY EffectTyped, AnswerTyped DEF Outcome

LEMMA OnlyMutatingChanges ==
    ASSUME NEW o, NEW d, Effect(o, d) # d
    PROVE  Mutating(o)
BY DEF Effect

(* Two operations with one key are one operation.                          *)
LEMMA KeyIsOp ==
    ASSUME NEW o \in Ops, NEW p \in Ops, CacheKey(o) = CacheKey(p)
    PROVE  o = p
<1>1. o.kind = p.kind /\ o.on = p.on /\ o.request = p.request
  BY DEF CacheKey
<1>2. /\ o = [kind |-> o.kind, on |-> o.on, request |-> o.request]
      /\ p = [kind |-> p.kind, on |-> p.on, request |-> p.request]
  OBVIOUS
<1>. QED  BY <1>1, <1>2

LEMMA KeyOfOp == ASSUME NEW o \in Ops PROVE CacheKey(o) \in Keys
BY DEF Keys

-----------------------------------------------------------------------------
LEMMA InitIInv == Init => IInv
<1>. SUFFICES ASSUME Init PROVE IInv
  OBVIOUS
<1>1. InitialDb \in Databases
  BY MaxVersionAssumption DEF InitialDb, Databases, Missing, Empty
<1>2. TypeOK
  BY <1>1 DEF Init, TypeOK
<1>. QED  BY <1>2 DEF Init, IInv, NothingCached, KeysMatch, RepliesAnswerTheCall, FillIsFresh,
             StaleOnlyIfExposed, Fresh

LEMMA InvokeIInv ==
    ASSUME IInv, NEW c \in Clients, NEW o \in Ops, Invoke(c, o)
    PROVE  IInv'
<1> USE DEF IInv, Invoke
<1>1. TypeOK'
  BY DEF TypeOK
<1>2. NothingCached' /\ KeysMatch' /\ RepliesAnswerTheCall' /\ FillIsFresh'
  BY DEF NothingCached, KeysMatch, RepliesAnswerTheCall, FillIsFresh, TypeOK
<1>3. Invalidating => Invalidating'
  BY DEF Invalidating, TypeOK
<1>4. StaleOnlyIfExposed'
  BY <1>3 DEF StaleOnlyIfExposed, Fresh
<1>. QED  BY <1>1, <1>2, <1>4

LEMMA LookupIInv ==
    ASSUME IInv, NEW c \in Clients, Lookup(c)
    PROVE  IInv'
<1> USE DEF IInv, Lookup
<1>1. op[c] \in Ops /\ CacheKey(op[c]) \in Keys
  BY KeyOfOp DEF TypeOK
<1>2. TypeOK'
  BY <1>1 DEF TypeOK
<1>3. ASSUME cache[CacheKey(op[c])] # Absent
      PROVE  cache[CacheKey(op[c])].call = op[c]
  <2>1. cache[CacheKey(op[c])] \in Answers
    BY <1>1, <1>3 DEF TypeOK
  <2>2. cache[CacheKey(op[c])].call \in Ops
    BY <2>1 DEF Answers
  <2>. QED  BY <1>1, <1>3, <2>2, KeyIsOp DEF KeysMatch
<1>4. NothingCached' /\ KeysMatch' /\ FillIsFresh'
  BY DEF NothingCached, KeysMatch, FillIsFresh, TypeOK
<1>5. RepliesAnswerTheCall'
  BY <1>3 DEF RepliesAnswerTheCall, TypeOK
<1>6. Invalidating => Invalidating'
  BY DEF Invalidating, TypeOK
<1>7. StaleOnlyIfExposed'
  BY <1>6 DEF StaleOnlyIfExposed, Fresh
<1>. QED  BY <1>2, <1>4, <1>5, <1>7

(* A change of the database, by Drive or LoseReply: readers with an answer *)
(* in hand are marked, and either the writer will invalidate or every key  *)
(* is exposed.                                                             *)
LEMMA DriveIInv ==
    ASSUME IInv, NEW c \in Clients, Drive(c)
    PROVE  IInv'
<1> USE DEF IInv, Drive
<1> DEFINE r == Outcome(op[c], db)
<1>1. op[c] \in Ops /\ db \in Databases
  BY DEF TypeOK
<1>2. db' \in Databases /\ (r = Err \/ (r \in Answers /\ r.call = op[c]))
  BY <1>1, EffectTyped, OutcomeTyped
<1>3. pc'[c] \in {"done", "fill", "invalidate"} /\ (pc'[c] = "fill" => ~IsWrite(op[c]))
      /\ (pc'[c] = "invalidate" => IsWrite(op[c]))
      /\ (r # Err => pc'[c] # "done")
  BY DEF AfterDriver, TypeOK
<1>4. pc'[c] # "done" => r \in Answers
  BY <1>2 DEF AfterDriver, TypeOK
<1>5. overlapped' \subseteq { x \in Clients : pc'[x] = "fill" }
  BY DEF Witness, TypeOK
<1>6. exposed' \subseteq Keys
  BY DEF Witness, TypeOK
<1>7. TypeOK'
  <2>1. \A x \in Clients :
          /\ pc'[x] = "idle" <=> op'[x] = NoOp
          /\ pc'[x] \in {"lookup", "fill"} => ~IsWrite(op'[x])
          /\ pc'[x] = "invalidate" => IsWrite(op'[x])
          /\ pc'[x] \in {"fill", "invalidate"} => got'[x] \in Answers
    BY <1>1, <1>3, <1>4 DEF TypeOK
  <2>. QED  BY <1>2, <1>3, <1>5, <1>6, <2>1 DEF TypeOK
<1>8. NothingCached' /\ KeysMatch' /\ RepliesAnswerTheCall'
  BY <1>2 DEF NothingCached, KeysMatch, RepliesAnswerTheCall, TypeOK
<1>9. FillIsFresh'
  <2>1. ASSUME NEW x \in Clients, pc'[x] = "fill", x # c
        PROVE  x \in overlapped' \/ Mutating(op'[x]) \/ got'[x] = Outcome(op'[x], db')
    BY <2>1 DEF FillIsFresh, Witness, TypeOK
  <2>2. ASSUME pc'[c] = "fill", ~Mutating(op'[c])
        PROVE  got'[c] = Outcome(op'[c], db')
    BY <1>1, <2>2, OnlyMutatingChanges DEF TypeOK
  <2>. QED  BY <2>1, <2>2 DEF FillIsFresh
<1>10. StaleOnlyIfExposed'
  <2>1. CASE db' = db
    <3>1. Invalidating => Invalidating'
      BY DEF Invalidating, TypeOK
    <3>2. exposed' = exposed
      BY <2>1 DEF Witness
    <3>. QED  BY <2>1, <3>1, <3>2 DEF StaleOnlyIfExposed, Fresh
  <2>2. CASE db' # db /\ op[c].kind # "GraphQuery"
    <3>0. IsWrite(op[c])
      BY <1>1, <2>2, OnlyMutatingChanges DEF Mutating, ChangingKinds, IsWrite
    <3>1. ~Refused(op[c], db)
      BY <2>2 DEF Effect
    <3>2. r # Err
      BY <1>1, <3>1, EffectTyped, AnswerTyped DEF Outcome
    <3>3. pc'[c] = "invalidate"
      BY <3>0, <3>2 DEF AfterDriver, TypeOK
    <3>. QED  BY <3>3 DEF StaleOnlyIfExposed, Invalidating
  <2>3. CASE db' # db /\ op[c].kind = "GraphQuery"
    BY <2>3 DEF StaleOnlyIfExposed, Witness
  <2>. QED  BY <2>1, <2>2, <2>3
<1>. QED  BY <1>7, <1>8, <1>9, <1>10

LEMMA DriverFailIInv ==
    ASSUME IInv, NEW c \in Clients, DriverFail(c)
    PROVE  IInv'
<1> USE DEF IInv, DriverFail, AfterDriver
<1>1. TypeOK'
  BY DEF TypeOK
<1>2. NothingCached' /\ KeysMatch' /\ RepliesAnswerTheCall' /\ FillIsFresh'
  BY DEF NothingCached, KeysMatch, RepliesAnswerTheCall, FillIsFresh, TypeOK
<1>3. Invalidating => Invalidating'
  BY DEF Invalidating, TypeOK
<1>4. StaleOnlyIfExposed'
  BY <1>3 DEF StaleOnlyIfExposed, Fresh
<1>. QED  BY <1>1, <1>2, <1>4

LEMMA LoseReplyIInv ==
    ASSUME IInv, NEW c \in Clients, LoseReply(c)
    PROVE  IInv'
<1> USE DEF IInv, LoseReply, AfterDriver, Witness
<1>1. op[c] \in Ops /\ db' \in Databases
  BY EffectTyped DEF TypeOK
<1>2. TypeOK'
  BY <1>1 DEF TypeOK
<1>3. NothingCached' /\ KeysMatch' /\ RepliesAnswerTheCall'
  BY DEF NothingCached, KeysMatch, RepliesAnswerTheCall, TypeOK
<1>4. FillIsFresh'
  BY DEF FillIsFresh, TypeOK
<1>5. StaleOnlyIfExposed'
  BY DEF StaleOnlyIfExposed
<1>. QED  BY <1>2, <1>3, <1>4, <1>5

(* put() writes the reader's answer, or gives some entry up.               *)
LEMMA FillIInv ==
    ASSUME IInv, NEW c \in Clients, Fill(c)
    PROVE  IInv'
<1> USE DEF IInv, Fill
<1> DEFINE k == CacheKey(op[c])
<1>1. /\ op[c] \in Ops /\ k \in Keys /\ pc[c] = "fill"
      /\ got[c] \in Answers /\ got[c].call = op[c] /\ got[c] # Absent
  BY KeyOfOp DEF TypeOK, RepliesAnswerTheCall
<1>2. /\ cache' \in [Keys -> Answers \cup {Absent}]
      /\ \A j \in Keys : \/ cache'[j] = Absent
                         \/ j # k /\ cache'[j] = cache[j]
                         \/ j = k /\ cache'[j] = (IF Enabled THEN got[c] ELSE cache[j])
  BY <1>1 DEF Put, Entries, TypeOK
<1>3. TypeOK'
  BY <1>1, <1>2 DEF TypeOK
<1>4. NothingCached' /\ KeysMatch'
  BY <1>1, <1>2 DEF NothingCached, KeysMatch
<1>5. RepliesAnswerTheCall' /\ FillIsFresh'
  BY DEF RepliesAnswerTheCall, FillIsFresh, TypeOK
<1>6. StaleOnlyIfExposed'
  <2>1. Invalidating => Invalidating'
    BY <1>1 DEF Invalidating, TypeOK
  <2>2. SUFFICES ASSUME NEW j \in Keys, ~Invalidating'
                 PROVE  Fresh(j)' \/ j \in exposed'
    BY DEF StaleOnlyIfExposed
  <2>3. Fresh(j) \/ j \in exposed
    BY <2>1, <2>2 DEF StaleOnlyIfExposed
  <2>4. CASE cache'[j] = Absent
    BY <2>4 DEF Fresh
  <2>5. CASE j # k /\ cache'[j] = cache[j]
    BY <2>3, <2>5 DEF Fresh
  <2>6. CASE j = k /\ cache'[j] # Absent
    <3>1. CASE Enabled
      BY <1>1, <1>2, <2>6, <3>1 DEF Fresh, FillIsFresh
    <3>2. CASE ~Enabled
      BY <1>4, <2>6, <3>2 DEF NothingCached, Enabled
    <3>. QED  BY <3>1, <3>2
  <2>. QED  BY <1>2, <2>4, <2>5, <2>6
<1>. QED  BY <1>3, <1>4, <1>5, <1>6

LEMMA InvalidateIInv ==
    ASSUME IInv, NEW c \in Clients, Invalidate(c)
    PROVE  IInv'
<1> USE DEF IInv, Invalidate
<1>1. cache' \in [Keys -> Answers \cup {Absent}]
  BY DEF TypeOK
<1>2. TypeOK'
  BY <1>1 DEF TypeOK
<1>3. NothingCached' /\ KeysMatch' /\ RepliesAnswerTheCall' /\ FillIsFresh'
  BY DEF NothingCached, KeysMatch, RepliesAnswerTheCall, FillIsFresh, TypeOK
<1>4. StaleOnlyIfExposed'
  BY DEF StaleOnlyIfExposed, Fresh, Survivors, NothingCached
<1>. QED  BY <1>2, <1>3, <1>4

LEMMA ReturnIInv ==
    ASSUME IInv, NEW c \in Clients, Return(c)
    PROVE  IInv'
<1> USE DEF IInv, Return
<1>1. TypeOK'
  BY DEF TypeOK
<1>2. NothingCached' /\ KeysMatch' /\ RepliesAnswerTheCall' /\ FillIsFresh'
  BY DEF NothingCached, KeysMatch, RepliesAnswerTheCall, FillIsFresh, TypeOK
<1>3. Invalidating => Invalidating'
  BY DEF Invalidating, TypeOK
<1>4. StaleOnlyIfExposed'
  BY <1>3 DEF StaleOnlyIfExposed, Fresh
<1>. QED  BY <1>1, <1>2, <1>4

LEMMA ExpireIInv ==
    ASSUME IInv, NEW k \in Keys, Expire(k)
    PROVE  IInv'
<1> USE DEF IInv, Expire, callVars
<1>1. TypeOK'
  BY DEF TypeOK
<1>2. NothingCached' /\ KeysMatch' /\ RepliesAnswerTheCall' /\ FillIsFresh'
  BY DEF NothingCached, KeysMatch, RepliesAnswerTheCall, FillIsFresh, TypeOK
<1>3. StaleOnlyIfExposed'
  BY DEF StaleOnlyIfExposed, Fresh, Invalidating, TypeOK
<1>. QED  BY <1>1, <1>2, <1>3

LEMMA NextIInv == IInv /\ [Next]_vars => IInv'
<1>. SUFFICES ASSUME IInv, [Next]_vars PROVE IInv'
  OBVIOUS
<1>1. ASSUME NEW c \in Clients, NEW o \in Ops, Invoke(c, o) PROVE IInv'
  BY <1>1, InvokeIInv
<1>2. ASSUME NEW c \in Clients, Proceed(c) PROVE IInv'
  BY <1>2, LookupIInv, DriveIInv, FillIInv, InvalidateIInv, ReturnIInv DEF Proceed
<1>3. ASSUME NEW c \in Clients, DriverFail(c) \/ LoseReply(c) PROVE IInv'
  BY <1>3, DriverFailIInv, LoseReplyIInv
<1>4. ASSUME NEW k \in Keys, Expire(k) PROVE IInv'
  BY <1>4, ExpireIInv
<1>5. CASE UNCHANGED vars
  BY <1>5 DEF vars, callVars, IInv, TypeOK, NothingCached, KeysMatch,
              RepliesAnswerTheCall, FillIsFresh, StaleOnlyIfExposed, Fresh, Invalidating
<1>. QED  BY <1>1, <1>2, <1>3, <1>4, <1>5 DEF Next

LEMMA Invariance == Spec => []IInv
<1>. QED  BY InitIInv, NextIInv, PTL DEF Spec

-----------------------------------------------------------------------------
(* The type invariant of the router holds for every client, operation and  *)
(* policy: no Err is ever cached, only writers invalidate.                 *)
THEOREM RouterTypeCorrect == Spec => []TypeOK
<1>1. IInv => TypeOK
  BY DEF IInv
<1>. QED  BY <1>1, Invariance, PTL

(* No call is ever given the cached answer of another operation.           *)
THEOREM RouterRepliesAnswer == Spec => []RepliesAnswerTheCall
<1>1. IInv => RepliesAnswerTheCall
  BY DEF IInv
<1>. QED  BY <1>1, Invariance, PTL

(* Whatever the interleaving of any number of clients and the driver's     *)
(* failures, an entry is stale only while a write awaits its invalidation, *)
(* or after one of the named exposures.                                    *)
THEOREM RouterStaleOnlyIfExposed == Spec => []StaleOnlyIfExposed
<1>1. IInv => StaleOnlyIfExposed
  BY DEF IInv
<1>. QED  BY <1>1, Invariance, PTL

-----------------------------------------------------------------------------
(* With one client, a driver that does not fail, and no graph writes,      *)
(* nothing is ever exposed.                                                *)
Serial ==
    /\ \A c, d \in Clients : c = d
    /\ ~FaultyDriver
    /\ \A o \in Ops : Mutating(o) => IsWrite(o)

NoneExposed == overlapped = {} /\ exposed = {}

LEMMA SerialStep ==
    ASSUME Serial, IInv, NoneExposed, [Next]_vars
    PROVE  NoneExposed'
<1> USE DEF NoneExposed
<1>1. ASSUME NEW c \in Clients, Drive(c) PROVE NoneExposed'
  <2>1. op[c] \in Ops /\ pc[c] = "drive"
    BY <1>1 DEF Drive, IInv, TypeOK
  <2>2. \A x \in Clients : pc[x] # "fill"
    BY <2>1 DEF Serial
  <2>3. db' # db => op[c].kind # "GraphQuery"
    BY <1>1, <2>1, OnlyMutatingChanges DEF Drive, Serial, IsWrite
  <2>. QED  BY <1>1, <2>2, <2>3 DEF Drive, Witness
<1>2. ASSUME NEW c \in Clients, Fill(c) PROVE NoneExposed'
  BY <1>2 DEF Fill
<1>3. ASSUME NEW c \in Clients, \/ \E o \in Ops : Invoke(c, o)
                               \/ Lookup(c) \/ Invalidate(c) \/ Return(c)
      PROVE  NoneExposed'
  BY <1>3 DEF Invoke, Lookup, Invalidate, Return
<1>4. ASSUME NEW c \in Clients, DriverFail(c) \/ LoseReply(c) PROVE NoneExposed'
  BY <1>4 DEF DriverFail, LoseReply, Serial
<1>5. ASSUME NEW k \in Keys, Expire(k) PROVE NoneExposed'
  BY <1>5 DEF Expire
<1>6. CASE UNCHANGED vars
  BY <1>6 DEF vars
<1>. QED  BY <1>1, <1>2, <1>3, <1>4, <1>5, <1>6 DEF Next, Proceed

(* A serial client of a driver without graph writes sees a coherent cache, *)
(* whatever operations it runs, and whatever the policy and the capacity.  *)
THEOREM RouterSerialCoherent == ASSUME Serial PROVE Spec => []Coherent
<1>1. Init => NoneExposed
  BY DEF Init, NoneExposed
<1>2. IInv /\ NoneExposed /\ [Next]_vars => NoneExposed'
  BY SerialStep
<1>3. IInv /\ NoneExposed => Coherent
  BY DEF IInv, NoneExposed, StaleOnlyIfExposed, Coherent
<1>. QED  BY <1>1, <1>2, <1>3, Invariance, PTL DEF Spec

-----------------------------------------------------------------------------
(* Refinement of DirectRouter, when the cache is off or its user is serial.*)

CacheHidden == ~FaultyDriver /\ (Serial \/ ~Enabled)

Phase == [c \in Clients |->
             IF pc[c] \in {"lookup", "drive"} THEN "pending"
             ELSE IF pc[c] = "idle" THEN "idle" ELSE "done"]

\* What the refinement needs to know of a state.
RInv == IInv /\ (Serial => NoneExposed)

LEMMA RInvariance == ASSUME CacheHidden PROVE Spec => []RInv
<1>1. Init => (Serial => NoneExposed)
  BY DEF Init, NoneExposed
<1>2. RInv /\ [Next]_vars => (Serial => NoneExposed)'
  BY SerialStep DEF RInv
<1>3. Init => RInv
  BY <1>1, InitIInv DEF RInv
<1>4. RInv /\ [Next]_vars => RInv'
  BY <1>2, NextIInv DEF RInv
<1>. QED  BY <1>3, <1>4, PTL DEF Spec

(* A hit is what the driver would answer at the moment of the lookup.      *)
LEMMA HitIsDriversAnswer ==
    ASSUME CacheHidden, RInv, NEW c \in Clients, pc[c] = "lookup",
           cache[CacheKey(op[c])] # Absent
    PROVE  /\ cache[CacheKey(op[c])] = Outcome(op[c], db)
           /\ Effect(op[c], db) = db
<1> DEFINE k == CacheKey(op[c])
<1>1. op[c] \in Ops /\ k \in Keys /\ ~IsWrite(op[c])
  BY KeyOfOp DEF RInv, IInv, TypeOK
<1>2. Enabled
  BY <1>1 DEF RInv, IInv, NothingCached
<1>3. Serial /\ NoneExposed
  BY <1>2 DEF CacheHidden, RInv
<1>4. ~Invalidating
  BY <1>3 DEF Serial, Invalidating
<1>5. cache[k].call = op[c]
  <2>1. cache[k].call \in Ops
    BY <1>1 DEF RInv, IInv, TypeOK, Answers
  <2>. QED  BY <1>1, <2>1, KeyIsOp DEF RInv, IInv, KeysMatch
<1>6. ~Mutating(op[c])
  BY <1>1, <1>3 DEF Serial
<1>7. Fresh(k)
  BY <1>1, <1>3, <1>4 DEF RInv, IInv, NoneExposed, StaleOnlyIfExposed
<1>. QED  BY <1>5, <1>6, <1>7, OnlyMutatingChanges DEF Fresh

(* Both specifications are about one driver.                               *)
LEMMA SameDriver ==
    /\ Direct!InitialDb = InitialDb
    /\ \A o, d : Direct!Effect(o, d) = Effect(o, d)
    /\ \A o, d : Direct!Outcome(o, d) = Outcome(o, d)
<1> USE DEF Direct!Entities, Entities, Direct!Missing, Missing, Direct!Empty, Empty,
            Direct!LocalKinds, LocalKinds, Direct!HasDriver, HasDriver,
            Direct!ChangingKinds, ChangingKinds
<1>1. Direct!InitialDb = InitialDb
  BY DEF Direct!InitialDb, InitialDb
<1>2. ASSUME NEW o, NEW d PROVE Direct!Refused(o, d) <=> Refused(o, d)
  BY DEF Direct!Refused, Refused
<1>3. ASSUME NEW o PROVE Direct!Mutating(o) <=> Mutating(o)
  BY DEF Direct!Mutating, Mutating
<1>4. ASSUME NEW o, NEW d, NEW e PROVE Direct!Changed(o, d, e) = Changed(o, d, e)
  BY DEF Direct!Changed, Changed
<1>5. ASSUME NEW o, NEW d PROVE Direct!Effect(o, d) = Effect(o, d)
  BY <1>2, <1>3, <1>4 DEF Direct!Effect, Effect
<1>6. ASSUME NEW o, NEW d PROVE Direct!Answer(o, d) = Answer(o, d)
  BY DEF Direct!Answer, Answer, Direct!Scope, Scope
<1>7. ASSUME NEW o, NEW d PROVE Direct!Outcome(o, d) = Outcome(o, d)
  BY <1>2, <1>5, <1>6 DEF Direct!Outcome, Outcome
<1>. QED  BY <1>1, <1>5, <1>7

LEMMA StepRefines ==
    ASSUME CacheHidden, RInv, [Next]_vars
    PROVE  [Direct!Next]_(Direct!vars)
<1> DEFINE D == [Direct!Next]_(Direct!vars)
<1> USE DEF RInv, IInv, TypeOK
<1>0. Direct!vars = <<db, Phase, op, got>>
  BY DEF Direct!vars, Phase
<1>1. ASSUME NEW c \in Clients, NEW o \in Ops, Invoke(c, o) PROVE D
  <2>1. Phase[c] = "idle" /\ Phase' = [Phase EXCEPT ![c] = "pending"]
    BY <1>1 DEF Invoke, Phase
  <2>2. Direct!Invoke(c, o)
    BY <1>1, <2>1 DEF Invoke, Direct!Invoke, Phase
  <2>. QED  BY <2>2 DEF Direct!Next
<1>2. ASSUME NEW c \in Clients, Lookup(c) PROVE D
  <2>1. CASE cache[CacheKey(op[c])] # Absent
    <3>1. Phase[c] = "pending" /\ Phase' = [Phase EXCEPT ![c] = "done"]
      BY <1>2, <2>1 DEF Lookup, Phase
    <3>2. /\ cache[CacheKey(op[c])] = Outcome(op[c], db)
          /\ Effect(op[c], db) = db
      BY <1>2, <2>1, HitIsDriversAnswer DEF Lookup
    <3>3. Direct!Execute(c)
      BY <1>2, <2>1, <3>1, <3>2, SameDriver DEF Lookup, Direct!Execute, Phase
    <3>. QED  BY <3>3 DEF Direct!Next
  <2>2. CASE cache[CacheKey(op[c])] = Absent
    <3>1. Phase' = Phase
      BY <1>2, <2>2 DEF Lookup, Phase
    <3>. QED  BY <1>0, <1>2, <2>2, <3>1 DEF Lookup, Direct!vars, Phase
  <2>. QED  BY <2>1, <2>2
<1>3. ASSUME NEW c \in Clients, Drive(c) PROVE D
  <2>1. Phase[c] = "pending" /\ Phase' = [Phase EXCEPT ![c] = "done"]
    BY <1>3 DEF Drive, AfterDriver, Phase
  <2>2. Direct!Execute(c)
    BY <1>3, <2>1, SameDriver DEF Drive, Direct!Execute, Phase
  <2>. QED  BY <2>2 DEF Direct!Next
<1>4. ASSUME NEW c \in Clients, Fill(c) \/ Invalidate(c) PROVE D
  <2>1. Phase' = Phase
    BY <1>4 DEF Fill, Invalidate, Phase
  <2>. QED  BY <1>4, <2>1 DEF Fill, Invalidate, Direct!vars, Phase
<1>5. ASSUME NEW c \in Clients, Return(c) PROVE D
  <2>1. Phase[c] = "done" /\ Phase' = [Phase EXCEPT ![c] = "idle"]
    BY <1>5 DEF Return, Phase
  <2>2. Direct!Return(c)
    BY <1>5, <2>1 DEF Return, Direct!Return, Phase
  <2>. QED  BY <2>2 DEF Direct!Next
<1>6. ASSUME NEW c \in Clients, DriverFail(c) \/ LoseReply(c) PROVE D
  BY <1>6 DEF CacheHidden, DriverFail, LoseReply
<1>7. ASSUME NEW k \in Keys, Expire(k) PROVE D
  BY <1>7 DEF Expire, callVars, Direct!vars
<1>8. CASE UNCHANGED vars
  BY <1>8 DEF vars, callVars, Direct!vars
<1>. QED  BY <1>1, <1>2, <1>3, <1>4, <1>5, <1>6, <1>7, <1>8 DEF Next, Proceed

(* The cache cannot be observed by a serial client, nor by any number of   *)
(* clients when the policy is None: every call behaves as if it went to    *)
(* the database at one instant between its invocation and its return.      *)
THEOREM RouterImplementsDirect ==
    ASSUME CacheHidden PROVE Spec => ImplementsDirect
<1>1. Init => Direct!Init
  BY SameDriver DEF Init, Direct!Init
<1>2. RInv /\ [Next]_vars => [Direct!Next]_(Direct!vars)
  BY StepRefines
<1>. QED  BY <1>1, <1>2, RInvariance, PTL DEF Spec, ImplementsDirect, Direct!Spec
=============================================================================
