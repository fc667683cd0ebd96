-------------------------- MODULE ResultStoreProofs --------------------------
(***************************************************************************)
(* For every set of identifiers and every MAX_RESULTS >= 1: the three      *)
(* fields of ResultStore stay in step, and ResultStore implements          *)
(* ResultWindow.                                                           *)
(***************************************************************************)
EXTENDS ResultStore, SequenceTheorems, TLAPS

(* The inductive invariant is the conjunction of the invariants TLC checks:*)
(* the type invariant alone cannot say that the id about to be evicted has *)
(* an entry, and IndexesAgree needs ids never to be reissued.              *)
IInv == TypeOK /\ IndexesAgree /\ LastIsNewest

-----------------------------------------------------------------------------
(* Appending to a deque whose ids are distinct, after popping its front    *)
(* when it is full, keeps them distinct, and keeps exactly the ids of the  *)
(* map.                                                                    *)
LEMMA PopFront ==
    ASSUME NEW S, NEW s \in Seq(S), s # <<>>
    PROVE  /\ Tail(s) \in Seq(S)
           /\ Len(Tail(s)) = Len(s) - 1
           /\ \A i \in 1..Len(Tail(s)) : Tail(s)[i] = s[i+1]
           /\ Head(s) = s[1]
           /\ Len(s) \in Nat \ {0}
BY HeadTailProperties, EmptySeq

LEMMA PushBack ==
    ASSUME NEW S, NEW s \in Seq(S), NEW e \in S
    PROVE  /\ Append(s, e) \in Seq(S)
           /\ Len(Append(s, e)) = Len(s) + 1
           /\ \A i \in 1..Len(s) : Append(s, e)[i] = s[i]
           /\ Append(s, e)[Len(s) + 1] = e
           /\ Len(s) \in Nat
BY AppendProperties, LenProperties

(* What the deque looks like after store(): the surviving ids, then id.    *)
LEMMA OrderShape ==
    ASSUME TypeOK, IndexesAgree, NEW id \in Ids \ issued
    PROVE  LET o == OrderAfterEviction
               n == Append(o, id)
           IN  /\ n \in Seq(issued \cup {id})
               /\ Len(n) = Len(o) + 1
               /\ Len(o) \in Nat
               /\ Len(n) <= MaxResults
               /\ n[Len(n)] = id
               /\ \A i \in 1..Len(o) : n[i] = o[i]
               /\ \A i \in 1..Len(o) : o[i] \in issued
               /\ { o[i] : i \in 1..Len(o) } = DOMAIN results \ Evicted
               /\ \A i, j \in 1..Len(o) : o[i] = o[j] => i = j
<1> DEFINE o == OrderAfterEviction
           n == Append(o, id)
<1>0. order \in Seq(issued) /\ Len(order) \in Nat /\ Len(order) <= MaxResults
  BY LenProperties DEF TypeOK
<1>1. /\ o \in Seq(issued)
      /\ Len(o) \in Nat
      /\ Len(o) + 1 <= MaxResults
      /\ { o[i] : i \in 1..Len(o) } = DOMAIN results \ Evicted
      /\ \A i, j \in 1..Len(o) : o[i] = o[j] => i = j
  <2>1. CASE Full
    <3>1. order # <<>>
      BY <2>1, <1>0, EmptySeq, MaxResultsAssumption DEF Full
    <3>2. /\ o = Tail(order) /\ Evicted = {order[1]}
          /\ Len(o) = Len(order) - 1
          /\ \A i \in 1..Len(o) : o[i] = order[i+1]
          /\ Len(order) \in Nat \ {0}
          /\ o \in Seq(issued)
      BY <2>1, <3>1, <1>0, PopFront DEF OrderAfterEviction, Evicted
    <3>3. \A i \in 2..Len(order) : order[i] # order[1]
      BY <3>2 DEF IndexesAgree
    <3>4. { o[i] : i \in 1..Len(o) } = { order[i] : i \in 2..Len(order) }
      <4>1. \A i \in 1..Len(o) : i + 1 \in 2..Len(order) /\ o[i] = order[i+1]
        BY <3>2
      <4>2. \A i \in 2..Len(order) : i - 1 \in 1..Len(o) /\ o[i-1] = order[i]
        BY <3>2
      <4>3. ASSUME NEW x \in { o[i] : i \in 1..Len(o) }
            PROVE  x \in { order[i] : i \in 2..Len(order) }
        <5>1. PICK i \in 1..Len(o) : x = o[i]
          OBVIOUS
        <5>. QED  BY <4>1, <5>1
      <4>4. ASSUME NEW x \in { order[i] : i \in 2..Len(order) }
            PROVE  x \in { o[i] : i \in 1..Len(o) }
        <5>1. PICK i \in 2..Len(order) : x = order[i]
          OBVIOUS
        <5>. QED  BY <4>2, <5>1
      <4> HIDE DEF o
      <4>. QED  BY <4>3, <4>4
    <3>5. { order[i] : i \in 2..Len(order) } = DOMAIN results \ {order[1]}
      BY <3>2, <3>3 DEF IndexesAgree
    <3>6. \A i, j \in 1..Len(o) : o[i] = o[j] => i = j
      BY <3>2 DEF IndexesAgree
    <3>7. Len(o) \in Nat /\ Len(o) + 1 <= MaxResults
      BY <1>0, <3>2
    <3> HIDE DEF o
    <3>8. { o[i] : i \in 1..Len(o) } = DOMAIN results \ Evicted
      BY <3>2, <3>4, <3>5
    <3>. QED  BY <3>2, <3>6, <3>7, <3>8
  <2>2. CASE ~Full
    <3>1. o = order /\ Evicted = {}
      BY <2>2 DEF OrderAfterEviction, Evicted
    <3>2. Len(order) + 1 <= MaxResults
      BY <2>2, <1>0, MaxResultsAssumption DEF Full
    <3>. QED  BY <1>0, <3>1, <3>2 DEF IndexesAgree
  <2>. QED  BY <2>1, <2>2
<1>2. o \in Seq(issued \cup {id}) /\ id \in issued \cup {id}
  BY <1>1, SeqMonotonic
<1>3. /\ n \in Seq(issued \cup {id})
      /\ Len(n) = Len(o) + 1
      /\ n[Len(o) + 1] = id
      /\ \A i \in 1..Len(o) : n[i] = o[i]
  BY <1>2, PushBack
<1>4. \A i \in 1..Len(o) : o[i] \in issued
  BY <1>1, ElementOfSeq
<1>. QED  BY <1>1, <1>3, <1>4

-----------------------------------------------------------------------------
LEMMA InitIInv == Init => IInv
<1>. SUFFICES ASSUME Init PROVE IInv
  OBVIOUS
<1>1. order \in Seq(issued) /\ Len(order) = 0
  BY EmptySeq DEF Init, InitStore
<1>2. TypeOK
  BY <1>1, MaxResultsAssumption DEF Init, InitStore, TypeOK
<1>3. IndexesAgree /\ LastIsNewest
  BY <1>1 DEF Init, InitStore, IndexesAgree, LastIsNewest
<1>. QED  BY <1>2, <1>3 DEF IInv

(* store() keeps the invariant.                                            *)
LEMMA StoreIInv ==
    ASSUME IInv, NEW id \in Ids, NEW rs \in ResultSets,
           Store(id, rs), UNCHANGED <<asked, reply>>
    PROVE  IInv'
<1> USE DEF IInv
<1>0. id \in Ids \ issued
  BY DEF Store, NewId
<1> DEFINE o == OrderAfterEviction
<1>1. /\ order' \in Seq(issued')
      /\ Len(order') = Len(o) + 1
      /\ Len(o) \in Nat
      /\ Len(order') <= MaxResults
      /\ order'[Len(order')] = id
      /\ \A i \in 1..Len(o) : order'[i] = o[i]
      /\ \A i \in 1..Len(o) : o[i] \in issued
      /\ { o[i] : i \in 1..Len(o) } = DOMAIN results \ Evicted
      /\ \A i, j \in 1..Len(o) : o[i] = o[j] => i = j
  BY <1>0, OrderShape DEF Store
<1>2. DOMAIN results' = (DOMAIN results \ Evicted) \cup {id}
  BY DEF Store
<1>3. \A i \in 1..Len(order') : i \in 1..Len(o) \/ i = Len(order')
  BY <1>1
<1>4. IndexesAgree'
  <2>1. { order'[i] : i \in 1..Len(order') } = { o[i] : i \in 1..Len(o) } \cup {id}
    <3>1. \A i \in 1..Len(o) : i \in 1..Len(order')
      BY <1>1
    <3>2. Len(order') \in 1..Len(order')
      BY <1>1
    <3>. QED  BY <1>1, <1>3, <3>1, <3>2
  <2>2. \A i, j \in 1..Len(order') : order'[i] = order'[j] => i = j
    BY <1>0, <1>1, <1>3
  <2>. QED  BY <1>1, <1>2, <2>1, <2>2 DEF IndexesAgree
<1>5. TypeOK'
  <2>1. DOMAIN results' \subseteq issued'
    BY <1>2 DEF TypeOK, Store
  <2>2. \A i \in DOMAIN results' : results'[i] \in ResultSets
    BY <1>2 DEF TypeOK, Store
  <2>3. issued' \subseteq Ids /\ last' \in issued'
    BY DEF TypeOK, Store, LastAfter
  <2>. QED  BY <1>1, <2>1, <2>2, <2>3 DEF TypeOK
<1>6. LastIsNewest'
  <2>1. order' # <<>>
    BY <1>1, EmptySeq
  <2>. QED  BY <1>1, <1>2, <2>1 DEF LastIsNewest, Store, LastAfter
<1>. QED  BY <1>4, <1>5, <1>6

(* A read changes nothing but the answer, and the answer is well typed.    *)
LEMMA ReadIInv ==
    ASSUME IInv, (\E id \in Ids \cup {"last"} : Get(id)) \/ ListIds
    PROVE  IInv'
<1> USE DEF IInv
<1>1. UNCHANGED storeVars
  BY DEF Get, ListIds
<1>2. reply' \in ResultSets \cup {NotFound} \cup Seq(Ids)
  <2>1. ASSUME NEW id \in Ids \cup {"last"}, Get(id)
        PROVE  reply' \in ResultSets \cup {NotFound}
    BY <2>1 DEF Get, GetValue, LastOf, Lookup, TypeOK
  <2>2. CASE ListIds
    BY <2>2, SeqMonotonic DEF ListIds, TypeOK
  <2>. QED  BY <2>1, <2>2
<1>3. asked' \in Ids \cup {"last", NotFound}
  BY DEF Get, ListIds
<1>. QED  BY <1>1, <1>2, <1>3 DEF TypeOK, IndexesAgree, LastIsNewest, storeVars

LEMMA NextIInv == IInv /\ [Next]_vars => IInv'
<1>. SUFFICES ASSUME IInv, [Next]_vars PROVE IInv'
  OBVIOUS
<1>1. CASE \E id \in Ids, rs \in ResultSets : Store(id, rs) /\ UNCHANGED <<asked, reply>>
  BY <1>1, StoreIInv
<1>2. CASE (\E id \in Ids \cup {"last"} : Get(id)) \/ ListIds
  BY <1>2, ReadIInv
<1>3. CASE UNCHANGED vars
  BY <1>3 DEF IInv, TypeOK, IndexesAgree, LastIsNewest, vars
<1>. QED  BY <1>1, <1>2, <1>3 DEF Next

-----------------------------------------------------------------------------
(* Refinement of ResultWindow.  Listing(o, m) is the window the deque o    *)
(* and the map m stand for.                                                *)
Listing(o, m) == [i \in 1..Len(o) |-> [id |-> o[i], rs |-> m[o[i]]]]

LEMMA ListingShape ==
    ASSUME NEW o \in Seq(Ids), NEW m,
           \A i \in 1..Len(o) : m[o[i]] \in ResultSets
    PROVE  /\ Listing(o, m) \in Seq(Window!Entry)
           /\ Len(Listing(o, m)) = Len(o)
           /\ Len(o) \in Nat
           /\ \A i \in 1..Len(o) :
                /\ Listing(o, m)[i] = [id |-> o[i], rs |-> m[o[i]]]
                /\ Listing(o, m)[i].id = o[i]
                /\ Listing(o, m)[i].rs = m[o[i]]
<1>1. Len(o) \in Nat /\ \A i \in 1..Len(o) : o[i] \in Ids
  BY LenProperties, ElementOfSeq
<1>2. Listing(o, m) \in [1..Len(o) -> Window!Entry]
  BY <1>1 DEF Listing, Window!Entry
<1>3. Listing(o, m) \in Seq(Window!Entry)
  BY <1>1, <1>2, SeqDef
<1>4. Len(Listing(o, m)) = Len(o)
  BY <1>1, <1>2, <1>3, LenProperties
<1>. QED  BY <1>1, <1>3, <1>4 DEF Listing

(* In a state of the invariant every listed id has its result.             *)
LEMMA ListedFound ==
    ASSUME TypeOK, IndexesAgree
    PROVE  /\ order \in Seq(Ids)
           /\ \A i \in 1..Len(order) : /\ order[i] \in DOMAIN results
                                       /\ results[order[i]] \in ResultSets
BY SeqMonotonic DEF TypeOK, IndexesAgree

LEMMA InitRefines == Init => Window!Init
<1>. SUFFICES ASSUME Init PROVE Window!Init
  OBVIOUS
<1>1. Len(order) = 0
  BY EmptySeq DEF Init, InitStore
<1>2. order \in Seq(Ids) /\ \A i \in 1..Len(order) : results[order[i]] \in ResultSets
  BY <1>1, EmptySeq DEF Init, InitStore
<1>3. /\ Listing(order, results) \in Seq(Window!Entry)
      /\ Len(Listing(order, results)) = 0
  BY <1>1, <1>2, ListingShape
<1>4. Listing(order, results) = <<>>
  BY <1>3, EmptySeq
<1>. QED  BY <1>4 DEF Init, Window!Init, Listing

(* store() is a Push: eviction from the deque and the map is the trimming  *)
(* of the window, and survivors keep their results.                        *)
LEMMA StoreRefines ==
    ASSUME IInv, NEW id \in Ids, NEW rs \in ResultSets,
           Store(id, rs), UNCHANGED <<asked, reply>>
    PROVE  Window!Push(id, rs)
<1> USE DEF IInv
<1> DEFINE e == [id |-> id, rs |-> rs]
           w == Listing(order, results)
           v == Listing(order', results')
           o == OrderAfterEviction
<1>0. id \in Ids \ issued
  BY DEF Store, NewId
<1>1. /\ w \in Seq(Window!Entry)
      /\ Len(w) = Len(order) /\ Len(order) \in Nat
      /\ \A i \in 1..Len(order) : /\ w[i] = [id |-> order[i], rs |-> results[order[i]]]
                                  /\ w[i].id = order[i]
                                  /\ w[i].rs = results[order[i]]
  BY ListedFound, ListingShape
<1>2. IInv'
  BY StoreIInv
<1>3. /\ v \in Seq(Window!Entry)
      /\ Len(v) = Len(order') /\ Len(order') \in Nat
      /\ \A i \in 1..Len(order') : v[i] = [id |-> order'[i], rs |-> results'[order'[i]]]
  <2>1. order' \in Seq(Ids)
    BY <1>2, SeqMonotonic DEF TypeOK
  <2>2. \A i \in 1..Len(order') : results'[order'[i]] \in ResultSets
    BY <1>2 DEF TypeOK, IndexesAgree
  <2>. QED  BY <2>1, <2>2, ListingShape
<1>4. /\ Len(order') = Len(o) + 1
      /\ Len(o) \in Nat
      /\ order'[Len(order')] = id
      /\ \A i \in 1..Len(o) : order'[i] = o[i]
      /\ \A i \in 1..Len(o) : o[i] \in DOMAIN results \ Evicted
      /\ \A i \in 1..Len(o) : o[i] # id
  <2>1. /\ Len(order') = Len(o) + 1
        /\ Len(o) \in Nat
        /\ order'[Len(order')] = id
        /\ \A i \in 1..Len(o) : order'[i] = o[i]
        /\ \A i \in 1..Len(o) : o[i] \in issued
        /\ { o[i] : i \in 1..Len(o) } = DOMAIN results \ Evicted
    BY <1>0, OrderShape DEF Store
  <2> HIDE DEF o
  <2>2. \A i \in 1..Len(o) : o[i] \in DOMAIN results \ Evicted
    BY <2>1
  <2>. QED  BY <1>0, <2>1, <2>2
<1>5. /\ \A i \in 1..Len(o) : results'[o[i]] = results[o[i]]
      /\ results'[id] = rs
  BY <1>4 DEF Store
<1>6. e \in Window!Entry
  BY DEF Window!Entry
<1>7. /\ Append(w, e) \in Seq(Window!Entry)
      /\ Len(Append(w, e)) = Len(order) + 1
      /\ \A i \in 1..Len(order) : Append(w, e)[i] = w[i]
      /\ Append(w, e)[Len(order) + 1] = e
  BY <1>1, <1>6, PushBack
<1>8. \A i \in 1..Len(order') : v[i] = IF i = Len(order') THEN e
                                       ELSE [id |-> o[i], rs |-> results[o[i]]]
  BY <1>3, <1>4, <1>5
<1>9. \A i \in 1..Len(w) : w[i].id # id
  <2>1. \A i \in 1..Len(order) : order[i] \in issued
    BY ListedFound DEF TypeOK
  <2>2. ASSUME NEW i \in 1..Len(w) PROVE w[i].id # id
    <3> HIDE DEF w
    <3>1. i \in 1..Len(order) /\ w[i].id = order[i]
      BY <1>1
    <3>. QED  BY <1>0, <2>1, <3>1
  <2>. QED  BY <2>2
<1>10. v = Window!Trim(Append(w, e))
  <2>1. CASE Full
    <3>1. order # <<>> /\ Len(order) = MaxResults
      BY <2>1, EmptySeq, MaxResultsAssumption, <1>1 DEF Full, TypeOK
    <3>2. /\ Len(o) = Len(order) - 1
          /\ \A i \in 1..Len(o) : o[i] = order[i+1]
      BY <2>1, <3>1, PopFront DEF OrderAfterEviction, TypeOK
    <3>3. Append(w, e) # <<>>
      <4>1. Len(<<>>) = 0
        BY EmptySeq
      <4>2. Len(Append(w, e)) # 0
        BY <1>1, <1>7
      <4>. QED  BY <4>1, <4>2
    <3> DEFINE t == Tail(Append(w, e))
    <3>4. /\ t \in Seq(Window!Entry)
          /\ Len(t) = Len(order)
          /\ \A i \in 1..Len(t) : t[i] = Append(w, e)[i+1]
      BY <1>1, <1>7, <3>3, PopFront
    <3>5. Window!Trim(Append(w, e)) = t
      BY <1>1, <1>7, <3>1, MaxResultsAssumption DEF Window!Trim
    <3>6. Len(v) = Len(t)
      BY <1>3, <1>4, <3>2, <3>4
    <3>7. \A i \in 1..Len(v) : v[i] = t[i]
      <4>1. SUFFICES ASSUME NEW i \in 1..Len(v) PROVE v[i] = t[i]
        OBVIOUS
      <4> HIDE DEF t, v, w, o, e
      <4>2. Len(order') = Len(order) /\ i \in 1..Len(order)
        BY <1>1, <1>3, <1>4, <3>2
      <4>3. t[i] = Append(w, e)[i+1]
        BY <3>4, <4>2
      <4>4. CASE i = Len(order')
        BY <1>7, <1>8, <4>2, <4>3, <4>4
      <4>5. CASE i # Len(order')
        <5>1. i \in 1..Len(o) /\ i + 1 \in 1..Len(order)
          BY <1>1, <1>4, <3>2, <4>2, <4>5
        <5>2. t[i] = [id |-> order[i+1], rs |-> results[order[i+1]]]
          BY <1>1, <1>7, <4>3, <5>1
        <5>. QED  BY <1>8, <3>2, <4>2, <4>5, <5>1, <5>2
      <4>. QED  BY <4>4, <4>5
    <3> HIDE DEF t, v
    <3>. QED  BY <1>3, <3>4, <3>5, <3>6, <3>7, SeqEqual
  <2>2. CASE ~Full
    <3>1. o = order
      BY <2>2 DEF OrderAfterEviction
    <3>2. Len(order) + 1 <= MaxResults
      BY <2>2, <1>1, MaxResultsAssumption DEF Full
    <3>3. Window!Trim(Append(w, e)) = Append(w, e)
      BY <1>1, <1>7, <3>2, MaxResultsAssumption DEF Window!Trim
    <3>4. Len(v) = Len(Append(w, e))
      BY <1>3, <1>4, <1>7, <3>1
    <3>5. \A i \in 1..Len(v) : v[i] = Append(w, e)[i]
      BY <1>1, <1>3, <1>4, <1>7, <1>8, <3>1
    <3> HIDE DEF v, w, e
    <3>. QED  BY <1>3, <1>7, <3>3, <3>4, <3>5, SeqEqual
  <2>. QED  BY <2>1, <2>2
<1>. QED  BY <1>9, <1>10 DEF Window!Push, Listing


(* The type invariant of ResultStore, MAX_RESULTS bound included, holds    *)
(* whatever the number of results stored.                                  *)
THEOREM StoreTypeCorrect == Spec => []TypeOK
<1>1. IInv => TypeOK
  BY DEF IInv
<1>. QED  BY <1>1, InitIInv, NextIInv, PTL DEF Spec

(* The hash map and the deque always index the same results.               *)
THEOREM StoreIndexesAgree == Spec => []IndexesAgree
<1>1. IInv => IndexesAgree
  BY DEF IInv
<1>. QED  BY <1>1, InitIInv, NextIInv, PTL DEF Spec

(* /results/last always resolves, to the newest stored result.             *)
THEOREM StoreLastIsNewest == Spec => []LastIsNewest
<1>1. IInv => LastIsNewest
  BY DEF IInv
<1>. QED  BY <1>1, InitIInv, NextIInv, PTL DEF Spec

(* get() and last() are a Read of the window: an id found in the map is at *)
(* exactly one place of the deque, and `last` is its last place.           *)
LEMMA ReadRefines ==
    ASSUME IInv, NEW id \in Ids \cup {"last"}, Get(id)
    PROVE  Window!Read(id)
<1> USE DEF IInv
<1> DEFINE w == Listing(order, results)
<1>1. /\ Len(w) = Len(order) /\ Len(order) \in Nat
      /\ \A i \in 1..Len(order) : /\ w[i].id = order[i]
                                  /\ w[i].rs = results[order[i]]
  <2>1. order \in Seq(Ids) /\ \A i \in 1..Len(order) : results[order[i]] \in ResultSets
    BY ListedFound
  <2>2. \A i \in 1..Len(order) : w[i] = [id |-> order[i], rs |-> results[order[i]]]
    BY DEF Listing
  <2>. HIDE DEF w
  <2>3. Len(w) = Len(order) /\ Len(order) \in Nat
    BY <2>1, ListingShape DEF w
  <2>4. ASSUME NEW i \in 1..Len(order)
        PROVE  w[i].id = order[i] /\ w[i].rs = results[order[i]]
    <3>1. w[i] = [id |-> order[i], rs |-> results[order[i]]]
      BY <2>2
    <3>. QED  BY <3>1
  <2>. QED  BY <2>3, <2>4
<1>2. \A i \in 1..Len(order) : order[i] \in Ids /\ order[i] \in DOMAIN results
  BY ListedFound, ElementOfSeq
<1>3. Window!Named(id) = { w[i].rs : i \in { j \in 1..Len(w) :
                              IF id = "last" THEN j = Len(w) ELSE w[j].id = id } }
  BY DEF Window!Named, Listing
<1>4. Window!Named(id) = {} => GetValue(id) = NotFound
  <2>1. CASE id = "last"
    <3>1. ASSUME order # <<>> PROVE Window!Named(id) # {}
      <4>1. Len(order) \in 1..Len(order)
        BY <3>1, EmptySeq DEF TypeOK
      <4> HIDE DEF w
      <4>. QED  BY <1>1, <1>3, <2>1, <4>1
    <3>. QED  BY <2>1, <3>1 DEF GetValue, LastOf, LastIsNewest
  <2>2. CASE id # "last"
    <3>1. ASSUME id \in DOMAIN results PROVE Window!Named(id) # {}
      <4>1. PICK i \in 1..Len(order) : order[i] = id
        BY <3>1 DEF IndexesAgree
      <4> HIDE DEF w
      <4>2. i \in 1..Len(w) /\ w[i].id = id
        BY <1>1, <4>1
      <4>. QED  BY <1>3, <2>2, <4>2
    <3>. QED  BY <2>2, <3>1 DEF GetValue, Lookup
  <2>. QED  BY <2>1, <2>2
<1>5. Window!Named(id) # {} => GetValue(id) \in Window!Named(id)
  <2>1. SUFFICES ASSUME NEW i \in 1..Len(order),
                        IF id = "last" THEN i = Len(order) ELSE order[i] = id
                 PROVE  GetValue(id) = w[i].rs
    <3>1. ASSUME Window!Named(id) # {} PROVE GetValue(id) \in Window!Named(id)
      <4> HIDE DEF w
      <4>1. PICK i \in 1..Len(w) : IF id = "last" THEN i = Len(w) ELSE w[i].id = id
        BY <1>3, <3>1
      <4>2. /\ i \in 1..Len(order)
            /\ IF id = "last" THEN i = Len(order) ELSE order[i] = id
        BY <1>1, <4>1
      <4>3. GetValue(id) = w[i].rs
        BY <2>1, <4>2
      <4>. QED  BY <1>3, <4>1, <4>3
    <3>. QED  BY <3>1
  <2>2. w[i].rs = results[order[i]] /\ order[i] \in DOMAIN results
    <3> HIDE DEF w
    <3>. QED  BY <1>1, <1>2
  <2>3. CASE id = "last"
    <3>1. order # <<>>
      BY EmptySeq
    <3>2. last = order[i] /\ last # NotFound
      BY <1>2, <2>1, <2>3, <3>1, IdsAssumption DEF LastIsNewest
    <3> HIDE DEF w
    <3>. QED  BY <2>2, <2>3, <3>2 DEF GetValue, LastOf, Lookup
  <2>4. CASE id # "last"
    <3> HIDE DEF w
    <3>. QED  BY <2>1, <2>2, <2>4 DEF GetValue, Lookup
  <2>. QED  BY <2>3, <2>4
<1>6. asked' = id /\ reply' = GetValue(id) /\ UNCHANGED <<order, results>>
  BY DEF Get, storeVars
<1> HIDE DEF w
<1>. QED  BY <1>4, <1>5, <1>6 DEF Window!Read

LEMMA NextRefines == IInv /\ [Next]_vars => [Window!Next]_(Window!vars)
<1>. SUFFICES ASSUME IInv, [Next]_vars PROVE [Window!Next]_(Window!vars)
  OBVIOUS
<1>1. CASE \E id \in Ids, rs \in ResultSets : Store(id, rs) /\ UNCHANGED <<asked, reply>>
  BY <1>1, StoreRefines DEF Window!Next
<1>2. CASE \E id \in Ids \cup {"last"} : Get(id)
  BY <1>2, ReadRefines DEF Window!Next
<1>3. CASE ListIds
  <2>1. asked' = NotFound /\ reply' = order /\ UNCHANGED <<order, results>>
    BY <1>3 DEF ListIds, storeVars
  <2>2. /\ Len(Listing(order, results)) = Len(order)
        /\ \A i \in 1..Len(order) : Listing(order, results)[i].id = order[i]
    BY ListedFound, ListingShape DEF IInv
  <2>3. order = [i \in 1..Len(order) |-> order[i]]
    BY ListedFound, LenProperties DEF IInv
  <2>4. order = [i \in 1..Len(Listing(order, results)) |-> Listing(order, results)[i].id]
    BY <2>2, <2>3
  <2>. QED  BY <2>1, <2>4 DEF Window!Next, Window!List, Listing
<1>4. CASE UNCHANGED vars
  BY <1>4 DEF vars, Window!vars
<1>. QED  BY <1>1, <1>2, <1>3, <1>4 DEF Next

(* ResultStore implements ResultWindow: a client of the store cannot tell  *)
(* it from the window of the MaxResults newest results.                    *)
THEOREM StoreImplementsWindow == Spec => ImplementsWindow
<1>. QED  BY InitIInv, NextIInv, InitRefines, NextRefines, PTL
          DEF Spec, ImplementsWindow, Window!Spec
=============================================================================
