------------------------- MODULE MemoryDriverProofs -------------------------
(***************************************************************************)
(* Proofs about MemoryDriver, in three parts.                              *)
(*   Collections (MemoryCollections), for any records, batches and         *)
(* searches: each id is listed once, and the lists implement the map from  *)
(* ids of KeyedCollections, whose searches look at all scores at once.     *)
(*   Keys (MemoryTables), for any rows, batches and keys: tables keep      *)
(* their type, and upserts replace by key.                                 *)
(*   Order (MemoryTables), for any rows and queries: sorting column after  *)
(* column is lexicographic, the pages of an answer make the answer, and    *)
(* range filters cut the order they sort by.                               *)
(* What the folds over a batch, over rows and over columns compute is      *)
(* followed one element at a time by the lemmas named ...Steps, along the  *)
(* lines of FoldLemmas.                                                    *)
(***************************************************************************)
EXTENDS MemoryCollections, MemoryTables, FoldLemmas, SequenceTheorems

-----------------------------------------------------------------------------
(* Collections: what the lists of records are.                             *)

\* The identifiers of a list of records.
Ids(records) == { records[i].id : i \in DOMAIN records }
\* No two records share one.
OneEach(records) ==
    \A i, j \in DOMAIN records : records[i].id = records[j].id => i = j

\* The lists of records a collection may be.
Lists == { records \in Seq(Records) : OneEach(records) }

-----------------------------------------------------------------------------
(* One record.                                                             *)

\* iter_mut().find() finds the record of an id that is there, and no other.
LEMMA FindRecordFinds ==
    ASSUME NEW records \in Seq(Records), NEW id
    PROVE  IF id \in Ids(records)
           THEN FindRecord(records, id) \in DOMAIN records
                    /\ records[FindRecord(records, id)].id = id
           ELSE FindRecord(records, id) = 0
<1>. DEFINE At == { i \in 1..Len(records) : records[i].id = id }
<1>1. FindRecord(records, id) = IF At # {} THEN Min(At) ELSE 0
  BY DEF FindRecord, SelectInSeq
<1>2. Len(records) \in Nat /\ DOMAIN records = 1..Len(records)
  OBVIOUS
<1>3. At # {} <=> id \in Ids(records)
  BY <1>2 DEF Ids
<1>4. At # {} => Min(At) \in At
  <2>1. At \subseteq Nat
    BY <1>2
  <2>. HIDE DEF At
  <2>. QED  BY <2>1, MinOf
<1>. QED  BY <1>1, <1>2, <1>3, <1>4

\* Looked up by its id, a record of such a list is the one at its place.
LEMMA ByIdAt ==
    ASSUME NEW records \in Lists
    PROVE  /\ DOMAIN ById(records) = Ids(records)
           /\ \A i \in DOMAIN records : ById(records)[records[i].id] = records[i]
<1>1. DOMAIN ById(records) = Ids(records)
  BY DEF ById, Ids
<1>2. ASSUME NEW i \in DOMAIN records PROVE ById(records)[records[i].id] = records[i]
  <2>1. records[i].id \in Ids(records)
    BY DEF Ids
  <2>2. ById(records)[records[i].id] = records[FindRecord(records, records[i].id)]
    BY <2>1 DEF ById, FindRecord, Ids
  <2>3. FindRecord(records, records[i].id) = i
    BY <2>1, FindRecordFinds DEF Lists, OneEach
  <2>. QED  BY <2>2, <2>3
<1>. QED  BY <1>1, <1>2

\* One record of a batch replaces that of its id or comes last, and leaves the
\* others alone.
LEMMA PutRecordPuts ==
    ASSUME NEW records \in Lists, NEW record \in Records
    PROVE  /\ PutRecord(records, record) \in Lists
           /\ Ids(PutRecord(records, record)) = Ids(records) \cup {record.id}
           /\ ById(PutRecord(records, record))[record.id] = record
           /\ \A id \in Ids(records) \ {record.id} :
                ById(PutRecord(records, record))[id] = ById(records)[id]
<1>. DEFINE new == PutRecord(records, record)
            at == FindRecord(records, record.id)
<1>1. records \in Seq(Records) /\ Len(records) \in Nat /\ DOMAIN records = 1..Len(records)
  BY DEF Lists
<1>2. CASE record.id \in Ids(records)
  <2>1. at \in DOMAIN records /\ records[at].id = record.id /\ at # 0
    BY <1>1, <1>2, FindRecordFinds
  <2>2. new = [records EXCEPT ![at] = record]
    BY <2>1 DEF PutRecord
  <2>3. new \in Seq(Records) /\ DOMAIN new = DOMAIN records
        /\ \A i \in DOMAIN records : new[i] = IF i = at THEN record ELSE records[i]
    BY <1>1, <2>1, <2>2
  <2>. HIDE DEF new, at
  <2>4. \A i \in DOMAIN records : new[i].id = records[i].id
    BY <2>1, <2>3
  <2>5. new \in Lists /\ Ids(new) = Ids(records)
    BY <2>3, <2>4 DEF Lists, OneEach, Ids
  <2>6. ById(new)[record.id] = record
    BY <2>1, <2>3, <2>5, ByIdAt
  <2>7. ASSUME NEW id \in Ids(records) \ {record.id} PROVE ById(new)[id] = ById(records)[id]
    <3>1. PICK i \in DOMAIN records : records[i].id = id
      BY DEF Ids
    <3>2. i # at
      BY <2>1, <3>1
    <3>. QED  BY <2>3, <2>5, <3>1, <3>2, ByIdAt
  <2>. QED  BY <1>2, <2>5, <2>6, <2>7 DEF new
<1>3. CASE record.id \notin Ids(records)
  <2>1. new = Append(records, record)
    BY <1>1, <1>3, FindRecordFinds DEF PutRecord
  <2>2. /\ new \in Seq(Records) /\ DOMAIN new = 1..(Len(records) + 1)
        /\ \A i \in 1..Len(records) : new[i] = records[i]
        /\ new[Len(records) + 1] = record
    BY <1>1, <2>1
  <2>. HIDE DEF new, at
  <2>3. \A i \in DOMAIN records : new[i] = records[i] /\ records[i].id # record.id
    BY <1>1, <1>3, <2>2 DEF Ids
  <2>4. DOMAIN new = DOMAIN records \cup {Len(records) + 1}
    BY <1>1, <2>2
  <2>5. new \in Lists
    BY <2>2, <2>3, <2>4 DEF Lists, OneEach
  <2>6. Ids(new) = Ids(records) \cup {record.id}
    BY <2>2, <2>3, <2>4 DEF Ids
  <2>7. ById(new)[record.id] = record
    BY <2>2, <2>4, <2>5, ByIdAt
  <2>8. ASSUME NEW id \in Ids(records) PROVE ById(new)[id] = ById(records)[id]
    <3>1. PICK i \in DOMAIN records : records[i].id = id
      BY DEF Ids
    <3>. QED  BY <2>3, <2>4, <2>5, <3>1, ByIdAt
  <2>. QED  BY <2>5, <2>6, <2>7, <2>8 DEF new
<1>. QED  BY <1>2, <1>3

-----------------------------------------------------------------------------
(* A batch of them.                                                        *)

\* upsert() goes through the batch record by record.
LEMMA UpsertSteps ==
    ASSUME NEW records \in Lists, NEW batch \in Seq(Records)
    PROVE  \E f \in [0..Len(batch) -> Lists] :
               /\ f[0] = records
               /\ f[Len(batch)] = FoldLeft(PutRecord, records, batch)
               /\ \A n \in 1..Len(batch) : f[n] = PutRecord(f[n - 1], batch[n])
<1>. DEFINE step == [p \in Lists \X Records |-> PutRecord(p[1], p[2])]
            Rec(it) == [t \in SUBSET (DOMAIN batch) |->
                          IF t = {} THEN records
                          ELSE PutRecord(it[t \ {Max(t)}], batch[Max(t)])]
            iter == CHOOSE it : it = Rec(it)
<1>1. step \in [Lists \X Records -> Lists]
  BY PutRecordPuts
<1>2. \A old \in Lists, r \in Records : step[<<old, r>>] = PutRecord(old, r)
  OBVIOUS
<1>. HIDE DEF step
<1>3. iter = Rec(iter)
  <2>1. Iterators(Lists, records, batch, step) # {}
    BY <1>1, FoldIterates
  <2>2. PICK it \in Iterators(Lists, records, batch, step) : TRUE
    BY <2>1
  <2>3. it = Rec(it)
    <3>. SUFFICES ASSUME NEW t \in SUBSET (DOMAIN batch), t # {}
                  PROVE  it[t] = PutRecord(it[t \ {Max(t)}], batch[Max(t)])
      BY <2>2 DEF Iterators, Unfolds
    <3>1. batch[Max(t)] \in Records
      BY MaxInDomain
    <3>. QED  BY <1>2, <2>2, <3>1 DEF Iterators, Unfolds
  <2>. HIDE DEF Rec
  <2>. QED  BY <2>3
<1>4. FoldLeft(PutRecord, records, batch) = iter[DOMAIN batch]
  BY DEF FoldLeft, MapThenFoldSet
<1>. HIDE DEF iter
<1>5. Unfolds(iter, Lists, records, batch, step)
  <2>1. ASSUME NEW t \in SUBSET (DOMAIN batch), t # {}, iter[t \ {Max(t)}] \in Lists
        PROVE  iter[t] = step[<<iter[t \ {Max(t)}], batch[Max(t)]>>]
    <3>1. batch[Max(t)] \in Records
      BY <2>1, MaxInDomain
    <3>2. iter[t] = PutRecord(iter[t \ {Max(t)}], batch[Max(t)])
      BY <1>3, <2>1
    <3>. QED  BY <1>2, <2>1, <3>1, <3>2
  <2>. QED  BY <1>3, <2>1 DEF Unfolds
<1>6. PICK f \in Runs(Lists, records, batch, step) : f[Len(batch)] = iter[DOMAIN batch]
  <2>. HIDE DEF Rec
  <2>1. iter[DOMAIN batch] \in Outcomes(Lists, records, batch, step)
    BY <1>1, <1>5, FoldAlong
  <2>. QED  BY <2>1 DEF Outcomes
<1>7. ASSUME NEW n \in 1..Len(batch) PROVE f[n] = PutRecord(f[n - 1], batch[n])
  <2>1. f[n - 1] \in Lists /\ batch[n] \in Records
    BY DEF Runs
  <2>. QED  BY <1>2, <1>6, <2>1 DEF Runs
<1>. QED  BY <1>4, <1>6, <1>7 DEF Runs

\* After a batch an id has the last of its records in it, or is as it was.
LEMMA UpsertedById ==
    ASSUME NEW records \in Lists, NEW batch \in Seq(Records)
    PROVE  LET new == FoldLeft(PutRecord, records, batch)
           IN  /\ new \in Lists
               /\ Ids(new) = Ids(records) \cup Ids(batch)
               /\ \A id \in Ids(records) \ Ids(batch) : ById(new)[id] = ById(records)[id]
               /\ \A i \in DOMAIN batch :
                    (\A j \in DOMAIN batch : j > i => batch[j].id # batch[i].id) =>
                        ById(new)[batch[i].id] = batch[i]
<1>1. PICK f \in [0..Len(batch) -> Lists] :
          /\ f[0] = records
          /\ f[Len(batch)] = FoldLeft(PutRecord, records, batch)
          /\ \A n \in 1..Len(batch) : f[n] = PutRecord(f[n - 1], batch[n])
  BY UpsertSteps
<1>2. Len(batch) \in Nat /\ DOMAIN batch = 1..Len(batch)
      /\ \A n \in 1..Len(batch) : batch[n] \in Records
  OBVIOUS
<1>. DEFINE Seen(n) == { batch[i].id : i \in 1..n }
            Good(n) ==
                /\ Ids(f[n]) = Ids(records) \cup Seen(n)
                /\ \A id \in Ids(records) \ Seen(n) : ById(f[n])[id] = ById(records)[id]
                /\ \A i \in 1..n :
                    (\A j \in 1..n : j > i => batch[j].id # batch[i].id) =>
                        ById(f[n])[batch[i].id] = batch[i]
            Goods == { n \in 0..Len(batch) : Good(n) }
<1>3. Good(0)
  BY <1>1
<1>4. ASSUME NEW n \in 0..(Len(batch) - 1), Good(n) PROVE Good(n + 1)
  <2>. DEFINE r == batch[n + 1]
              old == f[n]
              new == f[n + 1]
  <2>1. n + 1 \in 1..Len(batch) /\ (n + 1) - 1 = n /\ n \in 0..Len(batch)
    BY <1>2
  <2>2. old \in Lists /\ new = PutRecord(old, r) /\ r \in Records
    BY <1>1, <1>2, <2>1
  <2>3. Seen(n + 1) = Seen(n) \cup {r.id}
    BY <2>1
  <2>4. /\ Ids(new) = Ids(old) \cup {r.id}
        /\ ById(new)[r.id] = r
        /\ \A id \in Ids(old) \ {r.id} : ById(new)[id] = ById(old)[id]
    <3>. HIDE DEF old, new, r, Goods, Good
    <3>. QED  BY <2>2, PutRecordPuts
  <2>. HIDE DEF Seen, new, old
  <2>5. Ids(new) = Ids(records) \cup Seen(n + 1)
    BY <1>4, <2>3, <2>4 DEF old
  <2>6. \A id \in Ids(records) \ Seen(n + 1) : ById(new)[id] = ById(records)[id]
    BY <1>4, <2>3, <2>4 DEF old
  <2>7. ASSUME NEW i \in 1..(n + 1),
               \A j \in 1..(n + 1) : j > i => batch[j].id # batch[i].id
        PROVE  ById(new)[batch[i].id] = batch[i]
    <3>1. CASE i = n + 1
      BY <2>4, <3>1
    <3>2. CASE i # n + 1
      <4>1. i \in 1..n /\ r.id # batch[i].id
        BY <2>1, <2>7, <3>2
      <4>2. batch[i].id \in Ids(old)
        BY <1>4, <4>1 DEF Seen, old
      <4>3. \A j \in 1..n : j > i => batch[j].id # batch[i].id
        BY <2>1, <2>7
      <4>. QED  BY <1>4, <2>4, <4>1, <4>2, <4>3 DEF old
    <3>. QED  BY <3>1, <3>2
  <2>. QED  BY <2>5, <2>6, <2>7 DEF new
<1>. HIDE DEF Good
<1>5. \A n \in 0..Len(batch) : n \in Goods
  <2>1. 0 \in Goods /\ \A n \in 0..(Len(batch) - 1) : n \in Goods => n + 1 \in Goods
    BY <1>2, <1>3, <1>4
  <2>. HIDE DEF Goods
  <2>. QED  BY <1>2, <2>1, StepsUpTo
<1>6. Good(Len(batch)) /\ f[Len(batch)] \in Lists
  BY <1>2, <1>5
<1>7. Seen(Len(batch)) = Ids(batch)
  BY <1>2 DEF Ids
<1>. QED  BY <1>1, <1>2, <1>6, <1>7 DEF Good

-----------------------------------------------------------------------------
(* What delete() leaves.                                                   *)

\* delete() leaves the records that it does not match as they were.
LEMMA KeptById ==
    ASSUME NEW records \in Lists, NEW S
    PROVE  LET kept == Kept(records, S)
           IN  /\ kept \in Lists
               /\ Ids(kept) = { id \in Ids(records) : ById(records)[id] \in S }
               /\ \A id \in Ids(kept) : ById(kept)[id] = ById(records)[id]
<1>. DEFINE kept == Kept(records, S)
<1>1. records \in Seq(Records) /\ OneEach(records)
  BY DEF Lists
<1>2. kept \in Seq(Records) /\ Selections(kept, records, S) # {}
  BY <1>1, KeptSelects
<1>3. PICK at \in Selections(kept, records, S) : TRUE
  BY <1>2
<1>. HIDE DEF kept
<1>4. /\ \A i \in DOMAIN kept : at[i] \in DOMAIN records /\ kept[i] = records[at[i]]
                                /\ records[at[i]] \in S
      /\ \A p \in DOMAIN records : records[p] \in S => \E i \in DOMAIN kept : at[i] = p
      /\ \A i, j \in DOMAIN kept : at[i] = at[j] => i = j
  <2>1. \A i, j \in DOMAIN kept : i < j \/ j < i \/ i = j
    BY <1>2
  <2>2. \A i \in DOMAIN kept : at[i] \in Nat
    BY <1>1, <1>3 DEF Selections
  <2>. QED  BY <1>3, <2>1, <2>2 DEF Selections
<1>5. kept \in Lists
  <2>1. ASSUME NEW i \in DOMAIN kept, NEW j \in DOMAIN kept, kept[i].id = kept[j].id
        PROVE  i = j
    <3>1. records[at[i]].id = records[at[j]].id
      BY <1>4, <2>1
    <3>2. at[i] = at[j]
      BY <1>1, <1>4, <3>1 DEF OneEach
    <3>. QED  BY <1>4, <3>2
  <2>2. OneEach(kept)
    BY <2>1 DEF OneEach
  <2>. QED  BY <1>2, <2>2 DEF Lists
<1>6. ASSUME NEW id \in Ids(kept)
      PROVE  id \in Ids(records) /\ ById(records)[id] \in S /\ ById(kept)[id] = ById(records)[id]
  <2>1. PICK i \in DOMAIN kept : kept[i].id = id
    BY DEF Ids
  <2>2. ById(kept)[id] = kept[i] /\ ById(records)[id] = records[at[i]]
    BY <1>4, <1>5, <2>1, ByIdAt
  <2>. QED  BY <1>4, <2>1, <2>2 DEF Ids
<1>7. ASSUME NEW id \in Ids(records), ById(records)[id] \in S
      PROVE  id \in Ids(kept)
  <2>1. PICK p \in DOMAIN records : records[p].id = id
    BY DEF Ids
  <2>2. records[p] \in S
    BY <1>7, <2>1, ByIdAt
  <2>. QED  BY <1>4, <2>1, <2>2 DEF Ids
<1>. QED  BY <1>5, <1>6, <1>7 DEF kept

\* A list has as many ids as records, which is what delete() counts.
LEMMA IdsCounted ==
    ASSUME NEW records \in Lists
    PROVE  IsFiniteSet(Ids(records)) /\ Cardinality(Ids(records)) = Len(records)
<1>. DEFINE idAt == [i \in 1..Len(records) |-> records[i].id]
<1>1. Len(records) \in Nat /\ DOMAIN records = 1..Len(records) /\ OneEach(records)
  BY DEF Lists
<1>2. idAt \in Bijection(1..Len(records), Ids(records))
  BY <1>1 DEF Bijection, Injection, IsInjective, Surjection, Ids, OneEach
<1>3. ExistsBijection(1..Len(records), Ids(records))
  BY <1>2 DEF ExistsBijection
<1>4. Cardinality(Ids(records)) = Len(records)
  BY <1>1, <1>3, FS_CountingElements
<1>5. IsFiniteSet(Ids(records))
  BY <1>1, <1>3, FS_NatBijection
<1>. QED  BY <1>4, <1>5

-----------------------------------------------------------------------------
(* The running top.                                                        *)

\* The records vector_search() considers.
Eligible(records, req) ==
    { i \in DOMAIN records : records[i].vector # None /\ Passes(records[i], req.filter) }

\* Top is the best there are of some, as many as may be.
Best(top, some, records, limit) ==
    /\ top \subseteq some
    /\ Cardinality(top) = IF Cardinality(some) < limit THEN Cardinality(some) ELSE limit
    /\ \A i \in top, j \in some \ top : records[i].vector >= records[j].vector

\* The k best of some and one more are k best of them all: if one must go, one
\* of the worst of the top is one of the worst of all.
LEMMA BestGrows ==
    ASSUME NEW records, NEW limit \in Nat, NEW some, IsFiniteSet(some), NEW i, i \notin some,
           \A j \in some \cup {i} : records[j].vector \in Int,
           NEW top, Best(top, some, records, limit),
           NEW new \in Truncated(records, top \cup {i}, limit)
    PROVE  Best(new, some \cup {i}, records, limit)
<1>1. Cardinality(some) \in Nat /\ Cardinality(some \cup {i}) = Cardinality(some) + 1
  BY FS_AddElement, FS_CardinalityType
<1>2. top \subseteq some /\ IsFiniteSet(top) /\ Cardinality(top) \in Nat
      /\ Cardinality(top) <= Cardinality(some)
      /\ (Cardinality(some) = Cardinality(top) => some = top)
  <2>1. top \in SUBSET some
    BY DEF Best
  <2>. QED  BY <2>1, FS_Subset, FS_CardinalityType
<1>3. IsFiniteSet(top \cup {i}) /\ Cardinality(top \cup {i}) = Cardinality(top) + 1
  BY <1>2, FS_AddElement
<1>4. Cardinality(top) = IF Cardinality(some) < limit THEN Cardinality(some) ELSE limit
  BY DEF Best
<1>5. CASE Cardinality(top \cup {i}) <= limit
  <2>1. new = top \cup {i}
    BY <1>5 DEF Truncated
  <2>2. some = top
    BY <1>1, <1>2, <1>3, <1>4, <1>5
  <2>. QED  BY <1>1, <1>3, <1>5, <2>1, <2>2 DEF Best
<1>6. CASE ~(Cardinality(top \cup {i}) <= limit)
  <2>1. PICK worst \in Worst(records, top \cup {i}) : new = (top \cup {i}) \ {worst}
    BY <1>6 DEF Truncated
  <2>2. worst \in top \cup {i}
        /\ \A j \in top \cup {i} : records[worst].vector <= records[j].vector
    BY <2>1 DEF Worst
  <2>3. Cardinality(new) = limit /\ ~(Cardinality(some \cup {i}) < limit)
    <3>1. Cardinality(new) = Cardinality(top)
      <4>1. Cardinality((top \cup {i}) \ {worst}) = Cardinality(top \cup {i}) - 1
        BY <1>3, <2>2, FS_RemoveElement
      <4>. QED  BY <1>2, <1>3, <2>1, <4>1
    <3>. QED  BY <1>1, <1>2, <1>3, <1>4, <1>6, <3>1
  <2>4. ASSUME NEW in \in new, NEW out \in (some \cup {i}) \ new
        PROVE  records[in].vector >= records[out].vector
    <3>1. in \in top \cup {i} /\ in # worst /\ records[worst].vector <= records[in].vector
      BY <2>1, <2>2
    <3>2. CASE out = worst
      BY <1>2, <2>2, <3>1, <3>2
    <3>3. CASE out # worst
      <4>1. out \in some \ top
        BY <2>1, <3>3
      <4>2. CASE in \in top
        BY <4>1, <4>2 DEF Best
      <4>3. CASE in = i
        <5>1. worst \in top
          BY <2>2, <3>1, <4>3
        <5>2. records[worst].vector >= records[out].vector
          BY <4>1, <5>1 DEF Best
        <5>. QED  BY <1>2, <3>1, <4>1, <5>1, <5>2
      <4>. QED  BY <3>1, <4>2, <4>3
    <3>. QED  BY <3>2, <3>3
  <2>. QED  BY <1>2, <2>1, <2>3, <2>4 DEF Best
<1>. QED  BY <1>5, <1>6

\* TopIndices, a record at a time.
Considered(records, req, tops, i) ==
    IF records[i].vector # None /\ Passes(records[i], req.filter)
    THEN UNION { Truncated(records, top \cup {i}, req.limit) : top \in tops }
    ELSE tops

\* The tops there may be after each record.
TopRuns(records, req) ==
    { f \in [0..Len(records) -> SUBSET SUBSET (DOMAIN records)] :
        /\ f[0] = {{}}
        /\ f[Len(records)] = TopIndices(records, req)
        /\ \A n \in 1..Len(records) : f[n] = Considered(records, req, f[n - 1], n) }

\* vector_search() goes through the records one by one.
LEMMA TopSteps ==
    ASSUME NEW records \in Seq(Records), NEW req
    PROVE  TopRuns(records, req) # {}
<1>. DEFINE I == DOMAIN records
            D == SUBSET SUBSET I
            at == [i \in I |-> i]
            step == [p \in D \X I |-> Considered(records, req, p[1], p[2])]
            Rec(it) == [t \in SUBSET (DOMAIN at) |->
                          IF t = {} THEN {{}}
                          ELSE Considered(records, req, it[t \ {Max(t)}], at[Max(t)])]
            iter == CHOOSE it : it = Rec(it)
<1>1. at \in Seq(I) /\ DOMAIN at = I /\ Len(at) = Len(records) /\ I = 1..Len(records)
  OBVIOUS
<1>2. \A tops \in D, i \in I : Considered(records, req, tops, i) \in D
  <2>. SUFFICES ASSUME NEW tops \in D, NEW i \in I, NEW t \in Considered(records, req, tops, i)
                PROVE  t \subseteq I
    OBVIOUS
  <2>1. CASE t \in tops
    BY <2>1
  <2>2. CASE t \notin tops
    <3>1. PICK top \in tops : t \in Truncated(records, top \cup {i}, req.limit)
      BY <2>2 DEF Considered
    <3>2. t \subseteq top \cup {i}
      BY <3>1 DEF Truncated
    <3>. QED  BY <3>2
  <2>. QED  BY <2>1, <2>2
<1>3. step \in [D \X I -> D] /\ {{}} \in D
  BY <1>2
<1>4. \A tops \in D, i \in I : step[<<tops, i>>] = Considered(records, req, tops, i)
  OBVIOUS
<1>5. TopIndices(records, req) = iter[DOMAIN at]
  BY DEF TopIndices, FoldLeft, MapThenFoldSet, Considered
<1>6. \A i \in I : at[i] = i
  OBVIOUS
<1>. HIDE DEF D, I, at, step
<1>7. iter = Rec(iter)
  <2>1. Iterators(D, {{}}, at, step) # {}
    BY <1>1, <1>3, FoldIterates
  <2>2. PICK it \in Iterators(D, {{}}, at, step) : TRUE
    BY <2>1
  <2>3. it = Rec(it)
    <3>. SUFFICES ASSUME NEW t \in SUBSET (DOMAIN at), t # {}
                  PROVE  it[t] = Considered(records, req, it[t \ {Max(t)}], at[Max(t)])
      BY <2>2 DEF Iterators, Unfolds
    <3>1. at[Max(t)] \in I
      BY <1>1, MaxInDomain
    <3>. QED  BY <1>4, <2>2, <3>1 DEF Iterators, Unfolds
  <2>. HIDE DEF Rec
  <2>. QED  BY <2>3
<1>. HIDE DEF iter
<1>8. Unfolds(iter, D, {{}}, at, step)
  <2>1. ASSUME NEW t \in SUBSET (DOMAIN at), t # {}, iter[t \ {Max(t)}] \in D
        PROVE  iter[t] = step[<<iter[t \ {Max(t)}], at[Max(t)]>>]
    <3>1. at[Max(t)] \in I
      BY <1>1, <2>1, MaxInDomain
    <3>2. iter[t] = Considered(records, req, iter[t \ {Max(t)}], at[Max(t)])
      BY <1>7, <2>1
    <3>. QED  BY <1>4, <2>1, <3>1, <3>2
  <2>. QED  BY <1>7, <2>1 DEF Unfolds
<1>9. PICK f \in Runs(D, {{}}, at, step) : f[Len(at)] = iter[DOMAIN at]
  <2>. HIDE DEF Rec
  <2>1. iter[DOMAIN at] \in Outcomes(D, {{}}, at, step)
    BY <1>1, <1>3, <1>8, FoldAlong
  <2>. QED  BY <2>1 DEF Outcomes
<1>10. ASSUME NEW n \in 1..Len(records) PROVE f[n] = Considered(records, req, f[n - 1], n)
  <2>1. f[n - 1] \in D /\ n \in I
    <3>1. n \in I /\ n - 1 \in 0..Len(at)
      BY <1>1
    <3>2. f \in [0..Len(at) -> D]
      BY DEF Runs
    <3>. QED  BY <3>1, <3>2
  <2>2. f[n] = step[<<f[n - 1], at[n]>>]
    BY <1>1, <1>9 DEF Runs
  <2>. QED  BY <1>4, <1>6, <2>1, <2>2
<1>11. f \in TopRuns(records, req)
  BY <1>1, <1>5, <1>9, <1>10 DEF TopRuns, Runs, D, I
<1>. QED  BY <1>11

\* Whatever the ties made it keep on the way, the top is the best k there are.
LEMMA TopsAreBest ==
    ASSUME NEW records \in Seq(Records), NEW req \in Searches,
           NEW top \in TopIndices(records, req)
    PROVE  Best(top, Eligible(records, req), records, req.limit)
<1>1. PICK f \in TopRuns(records, req) : TRUE
  BY TopSteps
<1>2. Len(records) \in Nat /\ DOMAIN records = 1..Len(records) /\ req.limit \in Nat
      /\ \A i \in 1..Len(records) : records[i] \in Records
  BY InputsAssumption
<1>. DEFINE Seen(n) == Eligible(records, req) \cap (1..n)
            Good(n) == \A t \in f[n] : Best(t, Seen(n), records, req.limit)
            Goods == { n \in 0..Len(records) : Good(n) }
<1>3. Good(0)
  <2>1. f[0] = {{}} /\ Seen(0) = {} /\ Cardinality({}) = 0
    BY <1>1, FS_EmptySet DEF TopRuns
  <2>2. Best({}, {}, records, req.limit)
    BY <1>2, <2>1 DEF Best
  <2>. QED  BY <2>1, <2>2
<1>4. ASSUME NEW n \in 0..(Len(records) - 1), Good(n) PROVE Good(n + 1)
  <2>1. n + 1 \in 1..Len(records) /\ (n + 1) - 1 = n /\ 1..(n + 1) = 1..n \cup {n + 1}
        /\ n + 1 \notin 1..n
    BY <1>2
  <2>2. f[n + 1] = Considered(records, req, f[n], n + 1)
    BY <1>1, <2>1 DEF TopRuns
  <2>3. CASE n + 1 \in Eligible(records, req)
    <3>. SUFFICES ASSUME NEW t \in f[n + 1]
                  PROVE  Best(t, Seen(n + 1), records, req.limit)
      OBVIOUS
    <3>1. PICK old \in f[n] : t \in Truncated(records, old \cup {n + 1}, req.limit)
      <4>1. records[n + 1].vector # None /\ Passes(records[n + 1], req.filter)
        BY <2>3 DEF Eligible
      <4>2. t \in UNION { Truncated(records, old \cup {n + 1}, req.limit) : old \in f[n] }
        BY <2>2, <4>1 DEF Considered
      <4>. QED  BY <4>2
    <3>2. Seen(n + 1) = Seen(n) \cup {n + 1} /\ n + 1 \notin Seen(n)
      BY <2>1, <2>3
    <3>3. IsFiniteSet(Seen(n))
      <4>1. Seen(n) \in SUBSET (1..n)
        OBVIOUS
      <4>2. IsFiniteSet(1..n)
        <5>1. n \in Int /\ 1 \in Int
          BY <1>2
        <5>. QED  BY <5>1, FS_Interval
      <4>. HIDE DEF Seen
      <4>. QED  BY <4>1, <4>2, FS_Subset
    <3>4. \A i \in Seen(n) \cup {n + 1} : records[i].vector \in Int
      BY <1>2, <2>3, RecordsAssumption DEF Eligible
    <3>5. Best(old, Seen(n), records, req.limit)
      BY <1>4, <3>1
    <3>. HIDE DEF Seen
    <3>6. Best(t, Seen(n) \cup {n + 1}, records, req.limit)
      BY <1>2, <3>1, <3>2, <3>3, <3>4, <3>5, BestGrows
    <3>. QED  BY <3>2, <3>6
  <2>4. CASE n + 1 \notin Eligible(records, req)
    <3>1. f[n + 1] = f[n]
      BY <1>2, <2>1, <2>2, <2>4 DEF Considered, Eligible
    <3>2. Seen(n + 1) = Seen(n)
      BY <2>1, <2>4
    <3>. HIDE DEF Seen
    <3>. QED  BY <1>4, <3>1, <3>2
  <2>. QED  BY <2>3, <2>4
<1>. HIDE DEF Good
<1>5. \A n \in 0..Len(records) : n \in Goods
  <2>1. 0 \in Goods /\ \A n \in 0..(Len(records) - 1) : n \in Goods => n + 1 \in Goods
    BY <1>2, <1>3, <1>4
  <2>. HIDE DEF Goods
  <2>. QED  BY <1>2, <2>1, StepsUpTo
<1>6. Good(Len(records)) /\ f[Len(records)] = TopIndices(records, req)
  BY <1>1, <1>2, <1>5 DEF TopRuns
<1>7. Seen(Len(records)) = Eligible(records, req)
  BY <1>2 DEF Eligible
<1>. QED  BY <1>6, <1>7 DEF Good

-----------------------------------------------------------------------------
(* The type invariant.                                                     *)

\* TypeOK in terms of Lists.
LEMMA TypedLists ==
    TypeOK <=> /\ DOMAIN collections \subseteq Names
               /\ \A c \in DOMAIN collections : collections[c] \in Lists
  BY DEF TypeOK, Lists, OneEach

\* MemoryDriver::new() has no collections.
LEMMA InitTyped == Init => TypeOK
  BY DEF Init, TypeOK

\* Each method leaves lists with one record for an id; only upsert() and delete()
\* change one.
LEMMA NextTyped == TypeOK /\ [Next]_vars => TypeOK'
<1>. SUFFICES ASSUME TypeOK, [Next]_vars
              PROVE  /\ DOMAIN collections' \subseteq Names
                     /\ \A c \in DOMAIN collections' : collections'[c] \in Lists
  BY TypedLists DEF TypeOK, Lists, OneEach
<1>0. /\ DOMAIN collections \subseteq Names
      /\ \A c \in DOMAIN collections : collections[c] \in Lists
  BY TypedLists
<1>1. ASSUME NEW c \in Names, CreateCollection(c)
      PROVE  /\ DOMAIN collections' \subseteq Names
             /\ \A d \in DOMAIN collections' : collections'[d] \in Lists
  <2>1. <<>> \in Lists
    BY DEF Lists, OneEach
  <2>. QED  BY <1>0, <1>1, <2>1 DEF CreateCollection
<1>2. ASSUME NEW c \in Names, DropCollection(c)
      PROVE  /\ DOMAIN collections' \subseteq Names
             /\ \A d \in DOMAIN collections' : collections'[d] \in Lists
  BY <1>0, <1>2 DEF DropCollection
<1>3. ASSUME NEW c \in Names, NEW batch \in Batches, Upsert(c, batch)
      PROVE  /\ DOMAIN collections' \subseteq Names
             /\ \A d \in DOMAIN collections' : collections'[d] \in Lists
  <2>1. FoldLeft(PutRecord, collections[c], batch) \in Lists
    BY <1>0, <1>3, UpsertedById, InputsAssumption DEF Upsert
  <2>. QED  BY <1>0, <1>3, <2>1 DEF Upsert
<1>4. ASSUME NEW c \in Names, NEW filter \in Filters, Delete(c, filter)
      PROVE  /\ DOMAIN collections' \subseteq Names
             /\ \A d \in DOMAIN collections' : collections'[d] \in Lists
  <2>. DEFINE S == { r \in Range(collections[c]) : ~MatchesFilter(r.payload, filter) }
  <2>1. c \in DOMAIN collections /\ collections' = [collections EXCEPT ![c] = Kept(collections[c], S)]
    BY <1>4 DEF Delete
  <2>. HIDE DEF S
  <2>2. Kept(collections[c], S) \in Lists
    BY <1>0, <2>1, KeptById
  <2>. QED  BY <1>0, <2>1, <2>2
<1>5. CASE UNCHANGED collections
  BY <1>0, <1>5
<1>. QED
  BY <1>1, <1>2, <1>3, <1>4, <1>5
  DEF Next, vars, NoCollection, VectorSearch, ListCollections

(* Whatever collections are made, dropped, written and cut, and whatever   *)
(* ids a batch repeats, a collection lists every id once.                  *)
THEOREM CollectionsTypeCorrect == Spec => []TypeOK
  BY InitTyped, NextTyped, PTL DEF Spec

-----------------------------------------------------------------------------
(* The map from ids.  What it takes from the libraries is the same.        *)

\* KeyedCollections has its own instances of the library's operators.
LEMMA SameOperators ==
    /\ \A r, f : Keyed!MatchesFilter(r, f) = MatchesFilter(r, f)
    /\ \A S : Keyed!Cardinality(S) = Cardinality(S)
    /\ \A S : Keyed!SetToSeqs(S) = SetToSeqs(S)
<1>1. \A r, f : Keyed!MatchesFilter(r, f) = MatchesFilter(r, f)
  BY DEF Keyed!MatchesFilter, MatchesFilter, Keyed!CmpField, CmpField, Keyed!Has, Has,
         Keyed!CmpJsonValues, CmpJsonValues, Keyed!IsNumber, IsNumber,
         Keyed!AsF64, AsF64, Keyed!Sign, Sign, Keyed!Accepted, Accepted
<1>2. \A S : Keyed!Cardinality(S) = Cardinality(S)
  BY DEF Keyed!Cardinality, Cardinality
<1>3. \A S : Keyed!SetToSeqs(S) = SetToSeqs(S)
  BY <1>2 DEF Keyed!SetToSeqs, SetToSeqs
<1>. QED  BY <1>1, <1>2, <1>3

\* The record an upsert leaves for an id is the last the batch has for it.
LEMMA LastOfIsLast ==
    ASSUME NEW batch \in Seq(Records), NEW id \in Ids(batch)
    PROVE  \E i \in DOMAIN batch :
               /\ batch[i].id = id
               /\ Keyed!LastOf(batch, id) = batch[i]
               /\ \A j \in DOMAIN batch : j > i => batch[j].id # id
<1>. DEFINE At == { i \in 1..Len(batch) : batch[i].id = id }
<1>1. Len(batch) \in Nat /\ DOMAIN batch = 1..Len(batch)
  OBVIOUS
<1>2. At # {}
  BY <1>1 DEF Ids
<1>3. Keyed!LastOf(batch, id) = batch[Max(At)]
  BY <1>2 DEF Keyed!LastOf, Keyed!SelectLastInSeq, Keyed!Max, Max
<1>4. Max(At) \in At /\ \A i \in At : Max(At) >= i
  <2>1. At \subseteq 0..Len(batch)
    BY <1>1
  <2>. HIDE DEF At
  <2>. QED  BY <1>1, <1>2, <2>1, MaxOf
<1>5. \A j \in DOMAIN batch : j > Max(At) => batch[j].id # id
  BY <1>1, <1>4
<1>. QED  BY <1>1, <1>3, <1>4, <1>5

\* No collections is an empty map.
LEMMA InitMaps == Init => Keyed!Init
  BY DEF Init, Keyed!Init, Content

\* The abstract map has the same names.
LEMMA ContentOf ==
    /\ DOMAIN Content = DOMAIN collections
    /\ \A c \in DOMAIN collections : Content[c] = ById(collections[c])
  BY DEF Content

\* create_collection() adds an empty map, or refuses.
LEMMA CreateMaps ==
    ASSUME NEW c \in Names, CreateCollection(c)
    PROVE  Keyed!Create(c)
<1>1. CASE c \in DOMAIN collections
  BY <1>1, ContentOf DEF CreateCollection, Keyed!Create, Keyed!Refused, Content
<1>2. CASE c \notin DOMAIN collections
  <2>1. collections' = [d \in DOMAIN collections \cup {c} |-> IF d = c THEN <<>> ELSE collections[d]]
        /\ reply' = [ok |-> TRUE]
    BY <1>2 DEF CreateCollection
  <2>2. ById(<<>>) = [id \in {} |-> None]
    BY DEF ById
  <2>3. Content' = [d \in DOMAIN Content \cup {c} |->
                      IF d = c THEN [id \in {} |-> None] ELSE Content[d]]
    BY <2>1, <2>2 DEF Content
  <2>. QED  BY <1>2, <2>1, <2>3, ContentOf DEF Keyed!Create, Keyed!Done
<1>. QED  BY <1>1, <1>2

\* drop_collection() removes one.
LEMMA DropMaps ==
    ASSUME NEW c \in Names, DropCollection(c)
    PROVE  Keyed!Drop(c)
<1>1. Content' = [d \in DOMAIN Content \ {c} |-> Content[d]]
  BY DEF DropCollection, Content
<1>. QED  BY <1>1, ContentOf DEF DropCollection, Keyed!Drop, Keyed!Done

\* The other methods refuse a name that is not there.
LEMMA MissingMaps ==
    ASSUME NEW c \in Names, NoCollection(c)
    PROVE  Keyed!Missing(c)
  BY ContentOf DEF NoCollection, Keyed!Missing, Keyed!Refused, Content

\* upsert() is an update of the map, with the last record the batch has for an id.
LEMMA UpsertMaps ==
    ASSUME TypeOK, NEW c \in Names, NEW batch \in Batches, Upsert(c, batch)
    PROVE  Keyed!Upsert(c, batch)
<1>. DEFINE old == collections[c]
            new == FoldLeft(PutRecord, old, batch)
            ids == { batch[i].id : i \in DOMAIN batch }
<1>1. /\ c \in DOMAIN collections
      /\ collections' = [collections EXCEPT ![c] = new]
      /\ reply' = [count |-> Len(batch)]
      /\ old \in Lists
      /\ batch \in Seq(Records)
  BY TypedLists, InputsAssumption DEF Upsert
<1>2. /\ new \in Lists
      /\ Ids(new) = Ids(old) \cup Ids(batch)
      /\ \A id \in Ids(old) \ Ids(batch) : ById(new)[id] = ById(old)[id]
      /\ \A i \in DOMAIN batch :
            (\A j \in DOMAIN batch : j > i => batch[j].id # batch[i].id) =>
                ById(new)[batch[i].id] = batch[i]
  <2>. HIDE DEF old
  <2>. QED  BY <1>1, UpsertedById
<1>. HIDE DEF new, old
<1>3. ids = Ids(batch)
  BY DEF Ids
<1>4. \A id \in Ids(batch) : ById(new)[id] = Keyed!LastOf(batch, id)
  BY <1>1, <1>2, LastOfIsLast
<1>5. DOMAIN ById(new) = Ids(new) /\ DOMAIN ById(old) = Ids(old)
  BY DEF ById, Ids
<1>6. ById(new) = [id \in DOMAIN ById(old) \cup ids |->
                      IF id \in ids THEN Keyed!LastOf(batch, id) ELSE ById(old)[id]]
  <2>1. ById(new) = [id \in Ids(new) |-> ById(new)[id]]
    BY DEF ById, Ids
  <2>. HIDE DEF ids
  <2>2. \A id \in Ids(new) :
            ById(new)[id] = IF id \in ids THEN Keyed!LastOf(batch, id) ELSE ById(old)[id]
    BY <1>2, <1>3, <1>4
  <2>3. Ids(new) = DOMAIN ById(old) \cup ids
    BY <1>2, <1>3, <1>5
  <2>. QED  BY <2>1, <2>2, <2>3
<1>7. Content' = [Content EXCEPT ![c] = ById(new)]
  BY <1>1 DEF Content
<1>8. Content[c] = ById(old) /\ c \in DOMAIN Content
  BY <1>1, ContentOf DEF old
<1>9. Content' = [Content EXCEPT ![c] =
                    [id \in DOMAIN @ \cup ids |->
                        IF id \in ids THEN Keyed!LastOf(batch, id) ELSE @[id]]]
  <2>. HIDE DEF ids
  <2>. QED  BY <1>6, <1>7, <1>8
<1>. QED  BY <1>1, <1>8, <1>9 DEF Keyed!Upsert, Keyed!Counted

\* delete() removes the ids whose records match, and counts them.
LEMMA DeleteMaps ==
    ASSUME TypeOK, NEW c \in Names, NEW filter \in Filters, Delete(c, filter)
    PROVE  Keyed!Delete(c, filter)
<1>. DEFINE old == collections[c]
            S == { r \in Range(old) : ~MatchesFilter(r.payload, filter) }
            new == Kept(old, S)
            gone == { id \in DOMAIN ById(old) : Keyed!Passes(ById(old)[id], filter) }
<1>1. /\ c \in DOMAIN collections
      /\ collections' = [collections EXCEPT ![c] = new]
      /\ reply' = [count |-> Len(old) - Len(new)]
      /\ old \in Lists
  BY TypedLists DEF Delete
<1>2. /\ new \in Lists
      /\ Ids(new) = { id \in Ids(old) : ById(old)[id] \in S }
      /\ \A id \in Ids(new) : ById(new)[id] = ById(old)[id]
  <2>. HIDE DEF old, S
  <2>. QED  BY <1>1, KeptById
<1>3. DOMAIN ById(old) = Ids(old) /\ DOMAIN ById(new) = Ids(new)
  BY DEF ById, Ids
<1>4. ASSUME NEW id \in Ids(old)
      PROVE  ById(old)[id] \in S <=> ~Keyed!Passes(ById(old)[id], filter)
  <2>1. PICK i \in DOMAIN old : old[i].id = id
    BY DEF Ids
  <2>2. ById(old)[id] = old[i]
    <3>. HIDE DEF old
    <3>. QED  BY <1>1, <2>1, ByIdAt
  <2>3. ById(old)[id] \in Range(old)
    BY <2>1, <2>2 DEF Range
  <2>4. filter # None
    BY InputsAssumption
  <2>. HIDE DEF old
  <2>. QED  BY <2>3, <2>4, SameOperators DEF Keyed!Passes
<1>. HIDE DEF S, new, old
<1>5. gone = Ids(old) \ Ids(new) /\ Ids(new) \subseteq Ids(old)
  BY <1>2, <1>3, <1>4
<1>. HIDE DEF gone
<1>6. ById(new) = [id \in DOMAIN ById(old) \ gone |-> ById(old)[id]]
  <2>1. ById(new) = [id \in Ids(new) |-> ById(new)[id]]
    BY DEF ById, Ids
  <2>2. Ids(new) = DOMAIN ById(old) \ gone
    BY <1>3, <1>5
  <2>. QED  BY <1>2, <2>1, <2>2
<1>7. Content' = [Content EXCEPT ![c] = ById(new)]
  BY <1>1 DEF Content
<1>8. Content[c] = ById(old) /\ c \in DOMAIN Content
  BY <1>1, ContentOf DEF old
<1>9. Content' = [Content EXCEPT ![c] = [id \in DOMAIN @ \ gone |-> @[id]]]
  BY <1>6, <1>7, <1>8
<1>10. Cardinality(gone) = Len(old) - Len(new)
  <2>1. /\ IsFiniteSet(Ids(old)) /\ Cardinality(Ids(old)) = Len(old)
        /\ Cardinality(Ids(new)) = Len(new) /\ IsFiniteSet(Ids(new))
    BY <1>1, <1>2, IdsCounted
  <2>2. Cardinality(Ids(old) \ Ids(new)) = Cardinality(Ids(old)) - Cardinality(Ids(old) \cap Ids(new))
    BY <2>1, FS_Difference
  <2>3. Ids(old) \cap Ids(new) = Ids(new)
    BY <1>5
  <2>. QED  BY <1>5, <2>1, <2>2, <2>3
<1>11. reply' = Keyed!Counted(Keyed!Cardinality(gone))
  BY <1>1, <1>10, SameOperators DEF Keyed!Counted
<1>12. gone = { id \in DOMAIN Content[c] : Keyed!Passes(Content[c][id], filter) }
  BY <1>8 DEF gone
<1>. QED  BY <1>8, <1>9, <1>11, <1>12 DEF Keyed!Delete

\* list_collections() counts the ids of each map.
LEMMA ListMaps ==
    ASSUME TypeOK, ListCollections
    PROVE  Keyed!List
<1>1. \A c \in DOMAIN Content :
          Keyed!Cardinality(DOMAIN Content[c]) = Len(collections[c])
  <2>. SUFFICES ASSUME NEW c \in DOMAIN collections
                PROVE  Cardinality(DOMAIN ById(collections[c])) = Len(collections[c])
    BY ContentOf, SameOperators
  <2>1. collections[c] \in Lists
    BY TypedLists
  <2>. QED  BY <2>1, IdsCounted, ByIdAt
<1>2. reply' = [listed |-> [c \in DOMAIN Content |-> Keyed!Cardinality(DOMAIN Content[c])]]
  BY <1>1, ContentOf DEF ListCollections
<1>3. Content' = Content
  BY DEF ListCollections, Content
<1>. QED  BY <1>2, <1>3 DEF Keyed!List, Keyed!Listed

\* The ids of the records at some places.
IdsAt(records, at) == { records[i].id : i \in at }

\* There are as many of them as there are places.
LEMMA AsManyIds ==
    ASSUME NEW records \in Lists, NEW at \in SUBSET (DOMAIN records)
    PROVE  Cardinality(IdsAt(records, at)) = Cardinality(at)
<1>. DEFINE idOf == [i \in at |-> records[i].id]
<1>1. Len(records) \in Nat /\ DOMAIN records = 1..Len(records) /\ OneEach(records)
  BY DEF Lists
<1>2. IsFiniteSet(at)
  <2>1. IsFiniteSet(1..Len(records))
    BY <1>1, FS_Interval
  <2>. QED  BY <1>1, <2>1, FS_Subset
<1>3. idOf \in Bijection(at, IdsAt(records, at))
  BY <1>1 DEF Bijection, Injection, IsInjective, Surjection, IdsAt, OneEach
<1>4. ExistsBijection(at, IdsAt(records, at))
  BY <1>3 DEF ExistsBijection
<1>. QED  BY <1>2, <1>4, FS_Bijection

\* vector_search() answers with the k best of the map, in order of score.
LEMMA SearchMaps ==
    ASSUME TypeOK, NEW c \in Names, NEW req \in Searches, VectorSearch(c, req)
    PROVE  Keyed!Search(c, req)
<1>. DEFINE records == collections[c]
            held == Content[c]
            some == Eligible(records, req)
            eligible == { id \in DOMAIN held :
                            held[id].vector # None /\ Keyed!Passes(held[id], req.filter) }
<1>1. c \in DOMAIN collections /\ records \in Lists /\ records \in Seq(Records)
      /\ UNCHANGED collections
  BY TypedLists DEF VectorSearch, Lists
<1>. DEFINE Reply(ranking) ==
                /\ Descending(records, ranking)
                /\ reply' = [found |-> [i \in DOMAIN ranking |-> records[ranking[i]]]]
<1>0. PICK top \in TopIndices(records, req) :
          \E ranking \in SetToSeqs(top) : Reply(ranking)
  BY DEF VectorSearch
<1>2. PICK ranking \in SetToSeqs(top) : Reply(ranking)
  BY <1>0
<1>3. Best(top, some, records, req.limit)
  <2>. HIDE DEF records
  <2>. QED  BY <1>1, <1>0, TopsAreBest
<1>4. c \in DOMAIN Content /\ Content' = Content /\ held = ById(records)
  BY <1>1, ContentOf DEF Content
<1>. HIDE DEF records, held
<1>5. /\ DOMAIN held = Ids(records)
      /\ \A i \in DOMAIN records : held[records[i].id] = records[i]
  BY <1>1, <1>4, ByIdAt
<1>6. /\ some \subseteq DOMAIN records
      /\ top \subseteq some
      /\ \A i, j \in DOMAIN records : records[i].id = records[j].id => i = j
  BY <1>1, <1>3 DEF Eligible, Best, Lists, OneEach
<1>7. eligible = IdsAt(records, some)
  <2>1. \A id \in DOMAIN held : \E i \in DOMAIN records : records[i].id = id
    BY <1>5 DEF Ids
  <2>2. \A i \in DOMAIN records : records[i].id \in DOMAIN held
    BY <1>5 DEF Ids
  <2>3. \A i \in DOMAIN records :
            Keyed!Passes(held[records[i].id], req.filter) = Passes(records[i], req.filter)
    BY <1>5, SameOperators DEF Keyed!Passes, Passes
  <2>. QED  BY <1>5, <2>1, <2>2, <2>3 DEF Eligible, IdsAt
<1>. DEFINE best == IdsAt(records, top)
            ids == [i \in DOMAIN ranking |-> records[ranking[i]].id]
<1>8. best \in SUBSET eligible
  BY <1>6, <1>7 DEF IdsAt
<1>9. Cardinality(best) = Cardinality(top) /\ Cardinality(eligible) = Cardinality(some)
  BY <1>1, <1>6, <1>7, AsManyIds
<1>10. Keyed!Cardinality(best) = IF Keyed!Cardinality(eligible) < req.limit
                                 THEN Keyed!Cardinality(eligible) ELSE req.limit
  <2>. HIDE DEF best, eligible, some
  <2>. QED  BY <1>3, <1>9, SameOperators DEF Best
<1>11. /\ DOMAIN ranking = 1..Cardinality(top)
       /\ \A i \in DOMAIN ranking : ranking[i] \in top
       /\ \A i, j \in DOMAIN ranking : i # j => ranking[i] # ranking[j]
  BY <1>2 DEF SetToSeqs
<1>12. ids \in Keyed!SetToSeqs(best)
  <2>1. ids \in [1..Cardinality(best) -> best]
    BY <1>9, <1>11 DEF IdsAt
  <2>2. \A i, j \in 1..Cardinality(best) : i # j => ids[i] # ids[j]
    BY <1>6, <1>9, <1>11
  <2>3. ids \in SetToSeqs(best)
    <3>. HIDE DEF ids, best
    <3>. QED  BY <2>1, <2>2 DEF SetToSeqs
  <2>. QED  BY <2>3, SameOperators
<1>13. \A i \in DOMAIN ids : held[ids[i]] = records[ranking[i]]
  BY <1>5, <1>6, <1>11
<1>14. \A i, j \in DOMAIN ids : i < j => held[ids[i]].vector >= held[ids[j]].vector
  <2>. HIDE DEF ids
  <2>1. DOMAIN ids = DOMAIN ranking
    BY DEF ids
  <2>. QED  BY <1>2, <1>13, <2>1 DEF Descending
<1>15. \A in \in best, out \in eligible \ best : held[in].vector >= held[out].vector
  <2>. SUFFICES ASSUME NEW i \in top, NEW j \in some, records[j].id \notin best
                PROVE  held[records[i].id].vector >= held[records[j].id].vector
    BY <1>7 DEF IdsAt
  <2>1. j \in some \ top
    BY DEF IdsAt
  <2>. QED  BY <1>3, <1>5, <1>6, <2>1 DEF Best
<1>16. reply' = [found |-> [i \in DOMAIN ids |-> held[ids[i]]]]
  <2>1. DOMAIN ids = DOMAIN ranking
    OBVIOUS
  <2>. HIDE DEF ids
  <2>. QED  BY <1>2, <1>13, <2>1
<1>. HIDE DEF best, ids, some
<1>. QED
  BY <1>4, <1>8, <1>10, <1>12, <1>14, <1>15, <1>16 DEF Keyed!Search, Keyed!Found, held

\* Every step of the collections is one of the map, or none.
LEMMA NextMaps == TypeOK /\ [Next]_vars => [Keyed!Next]_(Keyed!vars)
<1>. SUFFICES ASSUME TypeOK, [Next]_vars PROVE [Keyed!Next]_(Keyed!vars)
  OBVIOUS
<1>1. CASE UNCHANGED vars
  BY <1>1 DEF vars, Keyed!vars, Content
<1>2. CASE Next
  <2>1. ASSUME NEW c \in Names, CreateCollection(c) PROVE Keyed!Next
    BY <2>1, CreateMaps DEF Keyed!Next
  <2>2. ASSUME NEW c \in Names, NoCollection(c) PROVE Keyed!Next
    BY <2>2, MissingMaps DEF Keyed!Next
  <2>3. ASSUME NEW c \in Names, DropCollection(c) PROVE Keyed!Next
    BY <2>3, DropMaps DEF Keyed!Next
  <2>4. ASSUME NEW c \in Names, NEW batch \in Batches, Upsert(c, batch) PROVE Keyed!Next
    BY <2>4, UpsertMaps DEF Keyed!Next
  <2>5. ASSUME NEW c \in Names, NEW filter \in Filters, Delete(c, filter) PROVE Keyed!Next
    BY <2>5, DeleteMaps DEF Keyed!Next
  <2>6. ASSUME NEW c \in Names, NEW req \in Searches, VectorSearch(c, req) PROVE Keyed!Next
    BY <2>6, SearchMaps DEF Keyed!Next
  <2>7. CASE ListCollections
    BY <2>7, ListMaps DEF Keyed!Next
  <2>. QED  BY <1>2, <2>1, <2>2, <2>3, <2>4, <2>5, <2>6, <2>7 DEF Next
<1>. QED  BY <1>1, <1>2

(* The lists of records of MemoryDriver, searched from their start, and a  *)
(* top of k kept record by record are a map from ids whose best k are      *)
(* taken at once.                                                          *)
THEOREM CollectionsImplementKeyed == Spec => ImplementsKeyed
<1>1. TypeOK /\ [Next]_vars => [Keyed!Next]_(Keyed!vars)
  BY NextMaps
<1>. QED
  BY <1>1, InitMaps, CollectionsTypeCorrect, PTL DEF Spec, ImplementsKeyed, Keyed!Spec

-----------------------------------------------------------------------------
(* Rows by their key.                                                      *)

\* The rows that upsert_rows() takes for the same as row.
Like(key, rows, row) == { i \in DOMAIN rows : SameKey(key, rows[i], row) }

\* Having all columns of the key equal is as good as being the same.
LEMMA KeyEquates ==
    ASSUME NEW key, NEW a, NEW b, NEW c
    PROVE  /\ SameKey(key, a, b) => SameKey(key, b, a) /\ SameKey(key, a, a) /\ SameKey(key, b, b)
           /\ SameKey(key, a, b) /\ SameKey(key, b, c) => SameKey(key, a, c)
  BY DEF SameKey

\* What comes of the rows when one is put among them.
PutAmong(key, rows, row, new) ==
    LET places == Like(key, rows, row)
    IN  IF places = {} THEN new = Append(rows, row)
        ELSE /\ Min(places) \in places
             /\ \A i \in places : Min(places) <= i
             /\ new = [rows EXCEPT ![Min(places)] = row]

\* iter_mut().find() finds the first of a key.
LEMMA PutRowPuts ==
    ASSUME NEW key, NEW rows \in Seq(Rows), NEW row \in Rows
    PROVE  /\ PutAmong(key, rows, row, PutRow(key, rows, row))
           /\ PutRow(key, rows, row) \in Seq(Rows)
<1>. DEFINE places == Like(key, rows, row)
            i == SelectInSeq(rows, LAMBDA old : SameKey(key, old, row))
<1>1. Len(rows) \in Nat /\ DOMAIN rows = 1..Len(rows)
  OBVIOUS
<1>2. places \subseteq Nat
  BY <1>1 DEF Like
<1>3. i = IF places # {} THEN Min(places) ELSE 0
  BY <1>1 DEF SelectInSeq, Like
<1>4. PutRow(key, rows, row) = IF i = 0 THEN Append(rows, row) ELSE [rows EXCEPT ![i] = row]
  BY DEF PutRow
<1>. HIDE DEF i
<1>5. CASE places = {}
  <2>1. PutRow(key, rows, row) = Append(rows, row)
    BY <1>3, <1>4, <1>5
  <2>2. PutRow(key, rows, row) \in Seq(Rows)
    BY <2>1
  <2>. QED  BY <1>5, <2>1, <2>2 DEF PutAmong
<1>6. CASE places # {}
  <2>. DEFINE at == Min(places)
  <2>. HIDE DEF places
  <2>1. at \in places /\ \A j \in places : at <= j
    BY <1>2, <1>6, MinOf
  <2>2. at \in DOMAIN rows
    BY <2>1 DEF places, Like
  <2>3. i = at /\ i # 0
    BY <1>1, <1>3, <1>6, <2>2
  <2>. HIDE DEF at
  <2>4. PutRow(key, rows, row) = [rows EXCEPT ![at] = row]
    BY <1>4, <2>3
  <2>5. [rows EXCEPT ![at] = row] \in Seq(Rows)
    BY <1>1, <2>2
  <2>. QED  BY <1>6, <2>1, <2>4, <2>5 DEF PutAmong, places, at
<1>. QED  BY <1>5, <1>6

\* What has become of the rows that have another key than row, and of those
\* that have its key.
OthersStay(key, rows, row, new) ==
    /\ Len(new) \in {Len(rows), Len(rows) + 1}
    /\ \A i \in DOMAIN rows : ~SameKey(key, rows[i], row) => new[i] = rows[i]
    /\ \A r \in Rows : ~SameKey(key, row, r) =>
        /\ Like(key, new, r) = Like(key, rows, r)
        /\ \A i \in Like(key, rows, r) : new[i] = rows[i]
FirstOfKey(key, rows, row, new) ==
    \A r \in Rows : SameKey(key, row, r) =>
        IF Like(key, rows, r) = {}
        THEN Like(key, new, r) = {Len(rows) + 1} /\ new[Len(rows) + 1] = row
        ELSE /\ Like(key, new, r) = Like(key, rows, r)
             /\ new[Min(Like(key, rows, r))] = row
             /\ \A i \in DOMAIN rows : i # Min(Like(key, rows, r)) => new[i] = rows[i]

\* A row put among others changes nothing for rows with another key, and is
\* the first of its own.
LEMMA PutAmongOthers ==
    ASSUME NEW key, NEW rows \in Seq(Rows), NEW row \in Rows, NEW new \in Seq(Rows),
           PutAmong(key, rows, row, new)
    PROVE  OthersStay(key, rows, row, new) /\ FirstOfKey(key, rows, row, new)
<1>. DEFINE places == Like(key, rows, row)
            at == Min(places)
<1>1. /\ Len(rows) \in Nat /\ DOMAIN rows = 1..Len(rows) /\ DOMAIN new = 1..Len(new)
      /\ \A i \in DOMAIN rows : i \in places <=> SameKey(key, rows[i], row)
  BY DEF Like
<1>2. CASE places = {}
  <2>1. new = Append(rows, row)
    BY <1>2 DEF PutAmong
  <2>2. Len(new) = Len(rows) + 1 /\ new[Len(rows) + 1] = row
        /\ \A i \in DOMAIN rows : new[i] = rows[i]
    BY <1>1, <2>1
  <2>3. DOMAIN new = DOMAIN rows \cup {Len(rows) + 1}
    BY <1>1, <2>2
  <2>4. ASSUME NEW r \in Rows, ~SameKey(key, row, r)
        PROVE  Like(key, new, r) = Like(key, rows, r)
    BY <2>2, <2>3, <2>4 DEF Like
  <2>5. ASSUME NEW r \in Rows, SameKey(key, row, r)
        PROVE  Like(key, rows, r) = {} /\ Like(key, new, r) = {Len(rows) + 1}
    <3>1. \A i \in DOMAIN rows : ~SameKey(key, rows[i], r)
      BY <1>1, <1>2, <2>5, KeyEquates
    <3>. QED  BY <2>2, <2>3, <2>5, <3>1 DEF Like
  <2>6. \A r \in Rows : Like(key, rows, r) \subseteq DOMAIN rows
    BY DEF Like
  <2>. QED  BY <2>2, <2>4, <2>5, <2>6 DEF OthersStay, FirstOfKey
<1>3. CASE places # {}
  <2>1. at \in places /\ new = [rows EXCEPT ![at] = row]
    BY <1>3 DEF PutAmong
  <2>2. at \in DOMAIN rows /\ SameKey(key, rows[at], row)
    BY <2>1 DEF Like
  <2>. HIDE DEF at
  <2>3. /\ Len(new) = Len(rows) /\ DOMAIN new = DOMAIN rows /\ new[at] = row
        /\ \A i \in DOMAIN rows : i # at => new[i] = rows[i]
    BY <1>1, <2>1, <2>2
  <2>. HIDE DEF places
  <2>4. ASSUME NEW r \in Rows
        PROVE  SameKey(key, rows[at], r) <=> SameKey(key, row, r)
    BY <2>2, KeyEquates
  <2>5. ASSUME NEW r \in Rows
        PROVE  Like(key, new, r) = Like(key, rows, r)
    BY <2>3, <2>4 DEF Like
  <2>6. ASSUME NEW r \in Rows, SameKey(key, row, r)
        PROVE  Like(key, rows, r) = places
    BY <2>6, KeyEquates DEF places, Like
  <2>7. ASSUME NEW r \in Rows, ~SameKey(key, row, r), NEW i \in Like(key, rows, r)
        PROVE  new[i] = rows[i]
    <3>1. i # at
      BY <2>4, <2>7 DEF Like
    <3>. QED  BY <2>3, <3>1 DEF Like
  <2>8. \A i \in DOMAIN rows : ~SameKey(key, rows[i], row) => new[i] = rows[i]
    BY <2>2, <2>3
  <2>9. \A r \in Rows : SameKey(key, row, r) => Like(key, rows, r) # {}
    BY <1>3, <2>6
  <2>10. OthersStay(key, rows, row, new)
    BY <2>3, <2>5, <2>7, <2>8 DEF OthersStay
  <2>11. FirstOfKey(key, rows, row, new)
    BY <2>3, <2>5, <2>6, <2>9 DEF at, FirstOfKey
  <2>. QED  BY <2>10, <2>11
<1>. QED  BY <1>2, <1>3

-----------------------------------------------------------------------------
(* A batch of them.                                                        *)

\* The rows after each row of the batch.
UpsertRuns(key, rows, batch) ==
    { f \in [0..Len(batch) -> Seq(Rows)] :
        /\ f[0] = rows
        /\ f[Len(batch)] = Upserted(key, rows, batch)
        /\ \A n \in 1..Len(batch) : f[n] = PutRow(key, f[n - 1], batch[n]) }

\* upsert_rows() goes through the batch row by row.
LEMMA RowUpsertSteps ==
    ASSUME NEW key, NEW rows \in Seq(Rows), NEW batch \in Seq(Rows)
    PROVE  UpsertRuns(key, rows, batch) # {}
<1>. DEFINE D == Seq(Rows)
            step == [p \in D \X Rows |-> PutRow(key, p[1], p[2])]
            Rec(it) == [t \in SUBSET (DOMAIN batch) |->
                          IF t = {} THEN rows
                          ELSE PutRow(key, it[t \ {Max(t)}], batch[Max(t)])]
            iter == CHOOSE it : it = Rec(it)
<1>1. step \in [D \X Rows -> D] /\ rows \in D
  BY PutRowPuts
<1>2. \A old \in D, row \in Rows : step[<<old, row>>] = PutRow(key, old, row)
  OBVIOUS
<1>. HIDE DEF D, step
<1>3. iter = Rec(iter)
  <2>1. Iterators(D, rows, batch, step) # {}
    BY <1>1, FoldIterates
  <2>2. PICK it \in Iterators(D, rows, batch, step) : TRUE
    BY <2>1
  <2>3. it = Rec(it)
    <3>. SUFFICES ASSUME NEW t \in SUBSET (DOMAIN batch), t # {}
                  PROVE  it[t] = PutRow(key, it[t \ {Max(t)}], batch[Max(t)])
      BY <2>2 DEF Iterators, Unfolds
    <3>1. batch[Max(t)] \in Rows
      BY MaxInDomain
    <3>. QED  BY <1>2, <2>2, <3>1 DEF Iterators, Unfolds
  <2>. HIDE DEF Rec
  <2>. QED  BY <2>3
<1>4. Upserted(key, rows, batch) = iter[DOMAIN batch]
  BY DEF Upserted, FoldLeft, MapThenFoldSet
<1>. HIDE DEF iter
<1>5. Unfolds(iter, D, rows, batch, step)
  <2>1. ASSUME NEW t \in SUBSET (DOMAIN batch), t # {}, iter[t \ {Max(t)}] \in D
        PROVE  iter[t] = step[<<iter[t \ {Max(t)}], batch[Max(t)]>>]
    <3>1. batch[Max(t)] \in Rows
      BY <2>1, MaxInDomain
    <3>2. iter[t] = PutRow(key, iter[t \ {Max(t)}], batch[Max(t)])
      BY <1>3, <2>1
    <3>. QED  BY <1>2, <2>1, <3>1, <3>2
  <2>. QED  BY <1>3, <2>1 DEF Unfolds
<1>6. PICK f \in Runs(D, rows, batch, step) : f[Len(batch)] = iter[DOMAIN batch]
  <2>. HIDE DEF Rec
  <2>1. iter[DOMAIN batch] \in Outcomes(D, rows, batch, step)
    BY <1>1, <1>5, FoldAlong
  <2>. QED  BY <2>1 DEF Outcomes
<1>7. ASSUME NEW n \in 1..Len(batch) PROVE f[n] = PutRow(key, f[n - 1], batch[n])
  <2>1. f[n - 1] \in D /\ batch[n] \in Rows
    BY DEF Runs
  <2>. QED  BY <1>2, <1>6, <2>1 DEF Runs
<1>8. f \in UpsertRuns(key, rows, batch)
  BY <1>4, <1>6, <1>7 DEF D, Runs, UpsertRuns
<1>. QED  BY <1>8

\* Row j is the last of the first n of the batch that is the same as row.
Latest(key, batch, n, j, row) ==
    /\ j \in 1..n
    /\ SameKey(key, batch[j], row)
    /\ \A l \in 1..n : l > j => ~SameKey(key, batch[l], row)

Touched(key, batch, n, row) == \E j \in 1..n : SameKey(key, batch[j], row)

\* What upserting n rows of the batch has made of the old rows.
UpsertedBy(key, old, batch, n, new) ==
    /\ Len(new) >= Len(old)
    /\ \A i \in DOMAIN old :
        (\A j \in 1..n : ~SameKey(key, old[i], batch[j])) => new[i] = old[i]
    /\ \A r \in Rows :
        IF Touched(key, batch, n, r) /\ Like(key, old, r) = {}
        THEN \E p \in DOMAIN new : Like(key, new, r) = {p}
        ELSE Like(key, new, r) = Like(key, old, r)
    /\ \A r \in Rows, j \in 1..n :
        Latest(key, batch, n, j, r) =>
            /\ Like(key, new, r) # {}
            /\ new[Min(Like(key, new, r))] = batch[j]
    /\ \A i \in DOMAIN old :
        SameKey(key, old[i], old[i]) /\ i # Min(Like(key, old, old[i])) => new[i] = old[i]

\* The least of one number.
LEMMA MinOfOne ==
    ASSUME NEW n \in Nat
    PROVE  Min({n}) = n
<1>1. Min({n}) \in {n}
  BY MinOf
<1>. QED  BY <1>1

\* One row more.
LEMMA UpsertedByOneMore ==
    ASSUME NEW key, NEW old \in Seq(Rows), NEW batch \in Seq(Rows),
           NEW n \in 0..(Len(batch) - 1), NEW mid \in Seq(Rows), NEW new \in Seq(Rows),
           NEW b \in Rows, b = batch[n + 1],
           UpsertedBy(key, old, batch, n, mid), PutAmong(key, mid, b, new)
    PROVE  UpsertedBy(key, old, batch, n + 1, new)
<1>1. /\ n \in Nat /\ n + 1 \in Nat
      /\ 1..(n + 1) = 1..n \cup {n + 1} /\ n + 1 \notin 1..n
      /\ \A j \in 1..n : n + 1 > j
  OBVIOUS
<1>2. OthersStay(key, mid, b, new) /\ FirstOfKey(key, mid, b, new)
  BY PutAmongOthers
<1>3. Len(mid) >= Len(old) /\ Len(new) >= Len(mid) /\ Len(new) >= Len(old)
  <2>1. Len(mid) >= Len(old)
    BY DEF UpsertedBy
  <2>2. Len(new) = Len(mid) \/ Len(new) = Len(mid) + 1
    BY <1>2 DEF OthersStay
  <2>3. Len(new) >= Len(mid)
    BY <2>2
  <2>. QED  BY <2>1, <2>3
<1>4. ASSUME NEW i \in DOMAIN old, \A j \in 1..(n + 1) : ~SameKey(key, old[i], batch[j])
      PROVE  new[i] = old[i]
  <2>1. mid[i] = old[i] /\ ~SameKey(key, old[i], b)
    BY <1>1, <1>4 DEF UpsertedBy
  <2>2. i \in DOMAIN mid
    BY <1>3
  <2>. QED  BY <1>2, <2>1, <2>2 DEF OthersStay
<1>5. ASSUME NEW r \in Rows
      PROVE  IF Touched(key, batch, n + 1, r) /\ Like(key, old, r) = {}
             THEN \E p \in DOMAIN new : Like(key, new, r) = {p}
             ELSE Like(key, new, r) = Like(key, old, r)
  <2>1. Touched(key, batch, n + 1, r) <=> Touched(key, batch, n, r) \/ SameKey(key, b, r)
    BY <1>1 DEF Touched
  <2>2. IF Touched(key, batch, n, r) /\ Like(key, old, r) = {}
        THEN \E p \in DOMAIN mid : Like(key, mid, r) = {p}
        ELSE Like(key, mid, r) = Like(key, old, r)
    BY DEF UpsertedBy
  <2>3. DOMAIN mid \subseteq DOMAIN new
    BY <1>3
  <2>4. CASE ~SameKey(key, b, r)
    BY <1>2, <2>1, <2>2, <2>3, <2>4 DEF OthersStay
  <2>5. CASE SameKey(key, b, r) /\ Like(key, mid, r) # {}
    BY <1>2, <2>1, <2>2, <2>3, <2>5 DEF FirstOfKey
  <2>6. CASE SameKey(key, b, r) /\ Like(key, mid, r) = {}
    <3>1. Like(key, old, r) = {} /\ Like(key, new, r) = {Len(mid) + 1}
      BY <1>2, <2>2, <2>6 DEF FirstOfKey
    <3>2. Len(mid) + 1 \in DOMAIN new
      BY <3>1 DEF Like
    <3>. QED  BY <2>1, <2>6, <3>1, <3>2
  <2>. QED  BY <2>4, <2>5, <2>6
<1>6. ASSUME NEW r \in Rows, NEW j \in 1..(n + 1), Latest(key, batch, n + 1, j, r)
      PROVE  Like(key, new, r) # {} /\ new[Min(Like(key, new, r))] = batch[j]
  <2>1. CASE SameKey(key, b, r)
    <3>1. batch[j] = b
      BY <1>1, <1>6, <2>1 DEF Latest
    <3>2. CASE Like(key, mid, r) = {}
      <4>1. Like(key, new, r) = {Len(mid) + 1} /\ new[Len(mid) + 1] = b
        BY <1>2, <2>1, <3>2 DEF FirstOfKey
      <4>2. Min({Len(mid) + 1}) = Len(mid) + 1
        BY MinOfOne
      <4>. QED  BY <3>1, <4>1, <4>2
    <3>3. CASE Like(key, mid, r) # {}
      BY <1>2, <2>1, <3>1, <3>3 DEF FirstOfKey
    <3>. QED  BY <3>2, <3>3
  <2>2. CASE ~SameKey(key, b, r)
    <3>1. j \in 1..n /\ Latest(key, batch, n, j, r)
      BY <1>1, <1>6, <2>2 DEF Latest
    <3>2. Like(key, mid, r) # {} /\ mid[Min(Like(key, mid, r))] = batch[j]
      BY <3>1 DEF UpsertedBy
    <3>3. Min(Like(key, mid, r)) \in Like(key, mid, r)
      <4>1. Like(key, mid, r) \subseteq Nat
        BY DEF Like
      <4>. QED  BY <3>2, <4>1, MinOf
    <3>. QED  BY <1>2, <2>2, <3>2, <3>3 DEF OthersStay
  <2>. QED  BY <2>1, <2>2
<1>7. ASSUME NEW i \in DOMAIN old, SameKey(key, old[i], old[i]), i # Min(Like(key, old, old[i]))
      PROVE  new[i] = old[i]
  <2>. DEFINE r == old[i]
  <2>1. r \in Rows /\ i \in Like(key, old, r)
    BY <1>7 DEF Like
  <2>. HIDE DEF r
  <2>2. mid[i] = r /\ Like(key, mid, r) = Like(key, old, r)
    BY <1>7, <2>1 DEF UpsertedBy, r
  <2>3. i \in DOMAIN mid /\ i # Min(Like(key, mid, r))
    BY <1>3, <1>7, <2>2 DEF r
  <2>4. CASE SameKey(key, b, r)
    BY <1>2, <2>1, <2>2, <2>3, <2>4 DEF FirstOfKey, r
  <2>5. CASE ~SameKey(key, b, r)
    BY <1>2, <2>1, <2>2, <2>5 DEF OthersStay, r
  <2>. QED  BY <2>4, <2>5
<1>. QED  BY <1>3, <1>4, <1>5, <1>6, <1>7 DEF UpsertedBy

\* A batch does to the rows what its rows do one by one.
LEMMA UpsertedByAll ==
    ASSUME NEW key, NEW old \in Seq(Rows), NEW batch \in Seq(Rows),
           NEW f \in UpsertRuns(key, old, batch)
    PROVE  \A n \in 0..Len(batch) : UpsertedBy(key, old, batch, n, f[n])
<1>1. f \in UpsertRuns(key, old, batch)
  OBVIOUS
<1>2. Len(batch) \in Nat /\ DOMAIN batch = 1..Len(batch)
  OBVIOUS
<1>. DEFINE Good == { n \in 0..Len(batch) : UpsertedBy(key, old, batch, n, f[n]) }
<1>3. 0 \in Good
  <2>1. UpsertedBy(key, old, batch, 0, old)
    BY DEF UpsertedBy, Touched
  <2>. QED  BY <1>1, <1>2, <2>1 DEF UpsertRuns
<1>4. \A n \in 0..(Len(batch) - 1) : n \in Good => n + 1 \in Good
  <2>. SUFFICES ASSUME NEW n \in 0..(Len(batch) - 1), UpsertedBy(key, old, batch, n, f[n])
                PROVE  UpsertedBy(key, old, batch, n + 1, f[n + 1])
    BY <1>2
  <2>. DEFINE mid == f[n]
              new == f[n + 1]
              b == batch[n + 1]
  <2>1. n + 1 \in 1..Len(batch) /\ (n + 1) - 1 = n /\ n \in 0..Len(batch)
    BY <1>2
  <2>2. /\ mid \in Seq(Rows) /\ new \in Seq(Rows) /\ b \in Rows /\ b = batch[n + 1]
        /\ new = PutRow(key, mid, b)
    BY <1>1, <1>2, <2>1 DEF UpsertRuns
  <2>. HIDE DEF mid, new, b
  <2>3. PutAmong(key, mid, b, new)
    BY <2>2, PutRowPuts
  <2>4. UpsertedBy(key, old, batch, n, mid)
    BY DEF mid
  <2>5. UpsertedBy(key, old, batch, n + 1, new)
    BY <2>2, <2>3, <2>4, UpsertedByOneMore
  <2>. QED  BY <2>5 DEF new
<1>5. \A n \in 0..Len(batch) : n \in Good
  <2>. HIDE DEF Good
  <2>. QED  BY <1>2, <1>3, <1>4, StepsUpTo
<1>. QED  BY <1>5

\* Of the rows of a batch that are the same, one is the last.
LEMMA LatestOfKey ==
    ASSUME NEW key, NEW batch \in Seq(Rows), NEW row, Like(key, batch, row) # {}
    PROVE  Latest(key, batch, Len(batch), Max(Like(key, batch, row)), row)
<1>. DEFINE T == Like(key, batch, row)
<1>1. T \subseteq 0..Len(batch) /\ T # {} /\ Len(batch) \in Nat
  BY DEF Like
<1>2. \A j \in 1..Len(batch) : j \in T <=> SameKey(key, batch[j], row)
  BY DEF Like
<1>. HIDE DEF T
<1>3. Max(T) \in T /\ \A j \in T : Max(T) >= j
  BY <1>1, MaxOf
<1>4. Max(T) \in 1..Len(batch)
  BY <1>3 DEF T, Like
<1>5. \A j \in 1..Len(batch) : j > Max(T) => j \notin T
  BY <1>3, <1>4
<1>6. Latest(key, batch, Len(batch), Max(T), row)
  BY <1>2, <1>3, <1>4, <1>5 DEF Latest
<1>. QED  BY <1>6 DEF T

\* Rows of a key that are in the batch are found.
LEMMA TouchedIsThere ==
    ASSUME NEW key, NEW old \in Seq(Rows), NEW batch \in Seq(Rows), NEW new,
           UpsertedBy(key, old, batch, Len(batch), new),
           NEW row \in Rows, Touched(key, batch, Len(batch), row)
    PROVE  Like(key, new, row) # {}
<1>1. CASE Like(key, old, row) = {}
  <2>1. PICK p \in DOMAIN new : Like(key, new, row) = {p}
    BY <1>1 DEF UpsertedBy
  <2>. QED  BY <2>1
<1>2. CASE Like(key, old, row) # {}
  BY <1>2 DEF UpsertedBy
<1>. QED  BY <1>1, <1>2

\* Once more, and no row of a key is added; the others are at the end.
LEMMA UpsertTwice ==
    ASSUME NEW key, NEW old \in Seq(Rows), NEW batch \in Seq(Rows), NEW new \in Seq(Rows),
           UpsertedBy(key, old, batch, Len(batch), new)
    PROVE  Upserted(key, new, batch)
              = new \o Kept(batch, { row \in Range(batch) : ~SameKey(key, row, row) })
<1>. DEFINE S == { row \in Range(batch) : ~SameKey(key, row, row) }
            again == Upserted(key, new, batch)
            kept == Kept(batch, S)
            N == Len(batch)
<1>1. PICK f \in UpsertRuns(key, new, batch) : TRUE
  BY RowUpsertSteps
<1>2. PICK h \in KeptRuns(Rows, batch, S) : TRUE
  BY KeptSteps
<1>3. N \in Nat /\ DOMAIN batch = 1..N /\ Len(new) \in Nat
  OBVIOUS
<1>4. \A n \in 0..N : UpsertedBy(key, new, batch, n, f[n])
  BY UpsertedByAll
<1>5. \A j \in 1..N : batch[j] \in Rows /\ (batch[j] \in S <=> ~SameKey(key, batch[j], batch[j]))
  BY DEF Range
<1>6. \A j \in 1..N : SameKey(key, batch[j], batch[j]) => Like(key, new, batch[j]) # {}
  <2>. SUFFICES ASSUME NEW j \in 1..N, SameKey(key, batch[j], batch[j])
                PROVE  Like(key, new, batch[j]) # {}
    OBVIOUS
  <2>1. Touched(key, batch, N, batch[j])
    BY DEF Touched
  <2>. QED  BY <1>5, <2>1, TouchedIsThere
<1>. HIDE DEF S
<1>. DEFINE AtEnd(n) == /\ Len(f[n]) = Len(new) + Len(h[n])
                       /\ \A i \in DOMAIN h[n] : f[n][Len(new) + i] = h[n][i]
            Ends == { n \in 0..N : AtEnd(n) }
<1>7. 0 \in Ends
  <2>1. f[0] = new /\ h[0] = <<>>
    BY <1>1, <1>2 DEF UpsertRuns, KeptRuns
  <2>2. Len(<<>>) = 0 /\ DOMAIN <<>> = {}
    OBVIOUS
  <2>3. Len(f[0]) = Len(new) + Len(h[0])
    BY <1>3, <2>1, <2>2
  <2>4. \A i \in DOMAIN h[0] : f[0][Len(new) + i] = h[0][i]
    BY <2>1, <2>2
  <2>. QED  BY <1>3, <2>3, <2>4
<1>8. \A n \in 0..(N - 1) : n \in Ends => n + 1 \in Ends
  <2>. SUFFICES ASSUME NEW n \in 0..(N - 1), AtEnd(n) PROVE AtEnd(n + 1)
    BY <1>3
  <2>. DEFINE b == batch[n + 1]
              mid == f[n]
              next == f[n + 1]
              some == h[n]
              more == h[n + 1]
  <2>1. n + 1 \in 1..N /\ (n + 1) - 1 = n /\ n \in 0..N
    BY <1>3
  <2>2. mid \in Seq(Rows) /\ next = PutRow(key, mid, b) /\ b \in Rows
    <3>1. f \in [0..N -> Seq(Rows)]
      BY <1>1 DEF UpsertRuns
    <3>2. \A k \in 1..N : f[k] = PutRow(key, f[k - 1], batch[k])
      BY <1>1 DEF UpsertRuns
    <3>. QED  BY <1>5, <2>1, <3>1, <3>2
  <2>3. some \in Seq(Rows) /\ more = IF b \in S THEN Append(some, b) ELSE some
    <3>1. h \in [0..N -> Seq(Rows)]
      BY <1>2 DEF KeptRuns
    <3>2. \A k \in 1..N : h[k] = IF batch[k] \in S THEN Append(h[k - 1], batch[k]) ELSE h[k - 1]
      BY <1>2 DEF KeptRuns
    <3>. QED  BY <2>1, <3>1, <3>2
  <2>4. UpsertedBy(key, new, batch, n, mid)
    BY <1>4, <2>1
  <2>5. (b \in S <=> ~SameKey(key, b, b)) /\ (SameKey(key, b, b) => Like(key, new, b) # {})
    BY <1>5, <1>6, <2>1
  <2>6. /\ Len(mid) = Len(new) + Len(some)
        /\ \A i \in DOMAIN some : mid[Len(new) + i] = some[i]
    OBVIOUS
  <2>. HIDE DEF b, mid, next, some, more
  <2>7. PutAmong(key, mid, b, next)
    BY <2>2, PutRowPuts
  <2>8. CASE SameKey(key, b, b)
    <3>1. Like(key, mid, b) = Like(key, new, b) /\ Like(key, mid, b) # {}
      BY <2>2, <2>4, <2>5, <2>8 DEF UpsertedBy
    <3>. DEFINE at == Min(Like(key, mid, b))
    <3>2. at \in Like(key, mid, b) /\ next = [mid EXCEPT ![at] = b]
      BY <2>7, <3>1 DEF PutAmong
    <3>. HIDE DEF at
    <3>3. at \in 1..Len(new)
      BY <3>1, <3>2 DEF Like
    <3>4. more = some
      BY <2>3, <2>5, <2>8
    <3>5. Len(next) = Len(mid)
      BY <2>2, <3>2
    <3>6. \A i \in DOMAIN some : Len(new) + i # at /\ Len(new) + i \in DOMAIN mid
      BY <1>3, <2>2, <2>3, <2>6, <3>3
    <3>7. \A i \in DOMAIN some : next[Len(new) + i] = some[i]
      BY <2>2, <2>6, <3>2, <3>6
    <3>. QED  BY <2>6, <3>4, <3>5, <3>7 DEF next, more
  <2>9. CASE ~SameKey(key, b, b)
    <3>1. Like(key, mid, b) = {}
      BY <2>9, KeyEquates DEF Like
    <3>2. next = Append(mid, b) /\ more = Append(some, b)
      BY <2>3, <2>5, <2>7, <2>9, <3>1 DEF PutAmong
    <3>. DEFINE k == Len(some)
    <3>0. k \in Nat /\ Len(mid) = Len(new) + k
      BY <2>3, <2>6
    <3>3. /\ Len(next) = Len(new) + Len(more)
          /\ DOMAIN more = DOMAIN some \cup {Len(some) + 1}
      <4>1. Len(next) = Len(mid) + 1
        BY <2>2, <3>2
      <4>2. Len(more) = k + 1
        BY <2>3, <3>2
      <4>3. DOMAIN some = 1..k /\ DOMAIN more = 1..(k + 1)
        BY <2>3, <3>2
      <4>. HIDE DEF k
      <4>4. 1..(k + 1) = 1..k \cup {k + 1}
        BY <3>0
      <4>5. Len(next) = Len(new) + Len(more)
        BY <1>3, <3>0, <4>1, <4>2
      <4>. QED  BY <4>3, <4>4, <4>5 DEF k
    <3>4. \A i \in DOMAIN some : next[Len(new) + i] = more[i]
      BY <1>3, <2>2, <2>3, <2>6, <3>2
    <3>5. next[Len(new) + (Len(some) + 1)] = more[Len(some) + 1]
      BY <1>3, <2>2, <2>3, <2>6, <3>2
    <3>. QED  BY <3>3, <3>4, <3>5 DEF next, more
  <2>. QED  BY <2>8, <2>9
<1>9. \A n \in 0..N : n \in Ends
  <2>. HIDE DEF Ends
  <2>. QED  BY <1>3, <1>7, <1>8, StepsUpTo
<1>10. /\ again = f[N] /\ kept = h[N] /\ again \in Seq(Rows) /\ kept \in Seq(Rows)
       /\ UpsertedBy(key, new, batch, N, again)
  BY <1>1, <1>2, <1>3, <1>4 DEF UpsertRuns, KeptRuns
<1>11. Len(again) = Len(new) + Len(kept) /\ \A i \in DOMAIN kept : again[Len(new) + i] = kept[i]
  BY <1>3, <1>9, <1>10
<1>. HIDE DEF again, kept
<1>12. ASSUME NEW i \in DOMAIN new PROVE again[i] = new[i]
  <2>. DEFINE r == new[i]
  <2>0. r \in Rows
    OBVIOUS
  <2>. HIDE DEF r
  <2>1. CASE \A j \in 1..N : ~SameKey(key, r, batch[j])
    BY <1>10, <2>1 DEF UpsertedBy, r
  <2>2. CASE \E j \in 1..N : SameKey(key, r, batch[j])
    <3>1. PICK j \in 1..N : SameKey(key, batch[j], r) /\ SameKey(key, r, r)
      BY <2>2, KeyEquates
    <3>2. Like(key, batch, r) # {} /\ Touched(key, batch, N, r) /\ i \in Like(key, new, r)
      BY <3>1 DEF Like, Touched, r
    <3>. DEFINE last == Max(Like(key, batch, r))
    <3>3. Latest(key, batch, N, last, r) /\ last \in 1..N
      BY <3>2, LatestOfKey DEF Latest
    <3>. HIDE DEF last
    <3>4. CASE i # Min(Like(key, new, r))
      BY <1>10, <3>1, <3>4 DEF UpsertedBy, r
    <3>5. CASE i = Min(Like(key, new, r))
      <4>1. new[Min(Like(key, new, r))] = batch[last]
        BY <2>0, <3>3 DEF UpsertedBy
      <4>2. again[Min(Like(key, again, r))] = batch[last]
        BY <1>10, <2>0, <3>3 DEF UpsertedBy
      <4>3. Like(key, again, r) = Like(key, new, r)
        BY <1>10, <2>0, <3>2 DEF UpsertedBy
      <4>. QED  BY <3>5, <4>1, <4>2, <4>3
    <3>. QED  BY <3>4, <3>5
  <2>. QED  BY <2>1, <2>2, KeyEquates
<1>13. again = new \o kept
  <2>. DEFINE all == new \o kept
  <2>1. /\ all \in Seq(Rows) /\ Len(all) = Len(new) + Len(kept)
        /\ \A i \in 1..Len(new) : all[i] = new[i]
        /\ \A i \in 1..Len(kept) : all[Len(new) + i] = kept[i]
    BY <1>10
  <2>. HIDE DEF all
  <2>2. Len(all) = Len(again) /\ Len(kept) \in Nat
    BY <1>10, <1>11, <2>1
  <2>3. \A i \in 1..Len(again) : all[i] = again[i]
    <3>0. Len(again) \in Nat
      BY <1>10
    <3>. SUFFICES ASSUME NEW i \in 1..Len(again) PROVE all[i] = again[i]
      OBVIOUS
    <3>1. CASE i <= Len(new)
      <4>1. i \in 1..Len(new) /\ i \in DOMAIN new
        BY <3>1
      <4>. QED  BY <1>12, <2>1, <4>1
    <3>2. CASE i > Len(new)
      <4>. DEFINE k == i - Len(new)
      <4>1. k \in 1..Len(kept) /\ i = Len(new) + k /\ k \in DOMAIN kept
        BY <1>3, <1>10, <1>11, <2>2, <3>2
      <4>. HIDE DEF k
      <4>. QED  BY <1>11, <2>1, <4>1
    <3>3. i <= Len(new) \/ i > Len(new)
      BY <1>3, <3>0
    <3>. QED  BY <3>1, <3>2, <3>3
  <2>4. again \in Seq(Rows)
    BY <1>10
  <2>5. again = all
    <3>1. all \in Seq(Rows) /\ Len(all) = Len(again)
      BY <2>1, <2>2
    <3>. QED  BY <2>3, <2>4, <3>1
  <2>. QED  BY <2>5 DEF all
<1>. QED  BY <1>13 DEF again, kept, S

\* The greater of one and a count.
LEMMA MaxWithOne ==
    ASSUME NEW c \in Nat
    PROVE  Max({1, c}) = IF c = 0 THEN 1 ELSE c
<1>. DEFINE T == {1, c}
<1>1. T \subseteq 0..(c + 1) /\ T # {} /\ c + 1 \in Nat
  OBVIOUS
<1>2. \A n \in T : n = 1 \/ n = c
  OBVIOUS
<1>3. 1 \in T /\ c \in T
  OBVIOUS
<1>. HIDE DEF T
<1>4. Max(T) \in T /\ \A n \in T : Max(T) >= n
  BY <1>1, MaxOf
<1>5. (Max(T) = 1 \/ Max(T) = c) /\ Max(T) >= 1 /\ Max(T) >= c
  BY <1>2, <1>3, <1>4
<1>. QED  BY <1>5 DEF T

\* There are as many rows of a key as before, and at least one.
LEMMA RowsOfKeyCounted ==
    ASSUME NEW key, NEW old \in Seq(Rows), NEW batch \in Seq(Rows), NEW new,
           UpsertedBy(key, old, batch, Len(batch), new),
           NEW row \in Rows, Touched(key, batch, Len(batch), row)
    PROVE  Cardinality(Like(key, new, row)) = Max({1, Cardinality(Like(key, old, row))})
<1>1. IsFiniteSet(Like(key, old, row))
  <2>1. Like(key, old, row) \subseteq 1..Len(old) /\ Len(old) \in Nat
    BY DEF Like
  <2>2. IsFiniteSet(1..Len(old))
    BY <2>1, FS_Interval
  <2>. QED  BY <2>1, <2>2, FS_Subset
<1>2. Cardinality(Like(key, old, row)) \in Nat
  BY <1>1, FS_CardinalityType
<1>3. Cardinality(Like(key, old, row)) = 0 <=> Like(key, old, row) = {}
  BY <1>1, FS_EmptySet
<1>4. CASE Like(key, old, row) = {}
  <2>1. PICK p \in DOMAIN new : Like(key, new, row) = {p}
    BY <1>4 DEF UpsertedBy
  <2>2. Cardinality(Like(key, new, row)) = 1
    BY <2>1, FS_Singleton
  <2>. QED  BY <1>2, <1>3, <1>4, <2>2, MaxWithOne
<1>5. CASE Like(key, old, row) # {}
  <2>1. Like(key, new, row) = Like(key, old, row)
    BY <1>5 DEF UpsertedBy
  <2>. QED  BY <1>2, <1>3, <1>5, <2>1, MaxWithOne
<1>. QED  BY <1>4, <1>5

-----------------------------------------------------------------------------
(* Every write keeps the tables in their type.                             *)

\* The rows a call writes to a table that is there.
LEMMA WriteTyped ==
    ASSUME TablesTypeOK, NEW t, NEW rows \in Seq(Rows), NEW count, Write(t, rows, count)
    PROVE  TablesTypeOK'
  BY DEF TablesTypeOK, Write

\* update_rows() sets columns of rows, and rows they remain.
LEMMA UpdatedTyped ==
    ASSUME TablesTypeOK, NEW t, NEW filter, NEW set \in Updates, UpdateRows(t, filter, set)
    PROVE  TablesTypeOK'
<1>. DEFINE hits == { row \in Range(tables[t]) : MatchesFilter(row, filter) }
            now(row) == IF row \in hits THEN Updated(row, set) ELSE row
            rows == [i \in DOMAIN tables[t] |-> now(tables[t][i])]
            count == Len(Kept(tables[t], hits))
<1>1. Write(t, rows, count)
  BY DEF UpdateRows
<1>2. tables[t] \in Seq(Rows)
  BY <1>1 DEF Write, TablesTypeOK
<1>3. \A row \in Rows : now(row) \in Rows
  BY RowsAssumption DEF Updated
<1>. HIDE DEF now
<1>4. rows \in Seq(Rows)
  BY <1>2, <1>3
<1>. HIDE DEF rows, count
<1>. QED  BY <1>1, <1>4, WriteTyped

\* Every call keeps to the type.
LEMMA TablesStepTyped ==
    ASSUME TablesTypeOK, [NextTables]_tableVars
    PROVE  TablesTypeOK'
<1>1. CASE UNCHANGED tables
  BY <1>1 DEF TablesTypeOK
<1>2. ASSUME NEW t, NEW batch \in RowBatches, InsertRows(t, batch)
      PROVE  TablesTypeOK'
  <2>1. batch \in Seq(Rows) /\ tables[t] \in Seq(Rows)
    BY <1>2, RowsAssumption DEF InsertRows, Write, TablesTypeOK
  <2>. DEFINE rows == tables[t] \o batch
              count == Len(batch)
  <2>2. rows \in Seq(Rows) /\ Write(t, rows, count)
    BY <1>2, <2>1 DEF InsertRows
  <2>. HIDE DEF rows, count
  <2>. QED  BY <2>2, WriteTyped
<1>3. ASSUME NEW t, NEW batch \in RowBatches, UpsertRows(t, batch)
      PROVE  TablesTypeOK'
  <2>. DEFINE old == tables[t]
              key == PrimaryKey[t]
              rows == Upserted(key, old, batch)
              count == Len(batch)
  <2>1. batch \in Seq(Rows) /\ old \in Seq(Rows)
    BY <1>3, RowsAssumption DEF UpsertRows, Write, TablesTypeOK
  <2>2. Write(t, rows, count)
    BY <1>3 DEF UpsertRows
  <2>. HIDE DEF old, key, count
  <2>3. PICK f \in UpsertRuns(key, old, batch) : TRUE
    BY <2>1, RowUpsertSteps
  <2>4. rows \in Seq(Rows)
    BY <2>1, <2>3 DEF UpsertRuns
  <2>. HIDE DEF rows
  <2>. QED  BY <2>2, <2>4, WriteTyped
<1>4. ASSUME NEW t, NEW filter, DeleteRows(t, filter)
      PROVE  TablesTypeOK'
  <2>. DEFINE old == tables[t]
              S == { row \in Range(tables[t]) : ~MatchesFilter(row, filter) }
              rows == Kept(old, S)
              count == Len(tables[t]) - Len(rows)
  <2>1. Write(t, rows, count)
    BY <1>4 DEF DeleteRows
  <2>2. old \in Seq(Rows)
    BY <1>4 DEF DeleteRows, Write, TablesTypeOK
  <2>. HIDE DEF old, S
  <2>3. rows \in Seq(Rows)
    BY <2>2, KeptShorter
  <2>. HIDE DEF rows, count
  <2>. QED  BY <2>1, <2>3, WriteTyped
<1>5. CASE NextTables
  <2>1. CASE ListTables
    BY <1>1, <2>1 DEF ListTables
  <2>2. ASSUME NEW t \in TableNames, NoTable(t) \/ DescribeTable(t) PROVE TablesTypeOK'
    BY <1>1, <2>2 DEF NoTable, DescribeTable
  <2>3. ASSUME NEW t \in TableNames, NEW q \in Queries, QueryTable(t, q) PROVE TablesTypeOK'
    BY <1>1, <2>3 DEF QueryTable
  <2>. QED  BY <1>2, <1>3, <1>4, <1>5, <2>1, <2>2, <2>3, UpdatedTyped DEF NextTables
<1>. QED  BY <1>1, <1>5 DEF tableVars

\* No call adds or removes a table, whatever the filters and the updates, and
\* what it leaves in one are rows (MemoryDriver, memory.rs).
THEOREM TablesTypeCorrect == TablesSpec => []TablesTypeOK
<1>1. InitTables => TablesTypeOK
  BY MaxRowsAssumption DEF InitTables, TablesTypeOK
<1>2. TablesTypeOK /\ [NextTables]_tableVars => TablesTypeOK'
  BY TablesStepTyped
<1>. QED  BY <1>1, <1>2, PTL DEF TablesSpec

-----------------------------------------------------------------------------
\* What upsert_rows() makes of a table of rows, for any key.
LEMMA UpsertsByKey ==
    ASSUME NEW key, NEW old \in Seq(Rows), NEW batch \in Seq(Rows), NEW new,
           new = Upserted(key, old, batch)
    PROVE  /\ new \in Seq(Rows)
           /\ UpsertedBy(key, old, batch, Len(batch), new)
<1>1. PICK f \in UpsertRuns(key, old, batch) : TRUE
  BY RowUpsertSteps
<1>2. \A n \in 0..Len(batch) : UpsertedBy(key, old, batch, n, f[n])
  BY UpsertedByAll
<1>3. Len(batch) \in Nat
  OBVIOUS
<1>4. f[Len(batch)] = new /\ f \in [0..Len(batch) -> Seq(Rows)]
  BY <1>1 DEF UpsertRuns
<1>. QED  BY <1>2, <1>3, <1>4

\* UpsertByKey, for one table, batch and key.
ByKey(key, old, batch, new) ==
    LET complete == { i \in DOMAIN batch : SameKey(key, batch[i], batch[i]) }
    IN  /\ \A i \in complete :
            /\ new[Min(Like(key, new, batch[i]))] = batch[Max(Like(key, batch, batch[i]))]
            /\ Cardinality(Like(key, new, batch[i]))
                  = Max({1, Cardinality(Like(key, old, batch[i]))})
        /\ \A i \in DOMAIN old :
            (\A j \in complete : ~SameKey(key, old[i], batch[j])) => new[i] = old[i]
        /\ Upserted(key, new, batch)
              = new \o Kept(batch, { row \in Range(batch) : ~SameKey(key, row, row) })

\* UpsertByKey, for one key, table and batch: what upsert_rows() leaves holds
\* each row of the batch under its key, the last of those with the same key.
LEMMA HoldsByKey ==
    ASSUME NEW key, NEW old \in Seq(Rows), NEW batch \in Seq(Rows)
    PROVE  ByKey(key, old, batch, Upserted(key, old, batch))
<1>. DEFINE new == Upserted(key, old, batch)
            complete == { i \in DOMAIN batch : SameKey(key, batch[i], batch[i]) }
            N == Len(batch)
<1>1. new \in Seq(Rows) /\ UpsertedBy(key, old, batch, N, new)
  BY UpsertsByKey
<1>. HIDE DEF new
<1>2. ASSUME NEW i \in complete
      PROVE  /\ new[Min(Like(key, new, batch[i]))] = batch[Max(Like(key, batch, batch[i]))]
             /\ Cardinality(Like(key, new, batch[i]))
                  = Max({1, Cardinality(Like(key, old, batch[i]))})
  <2>. DEFINE b == batch[i]
              last == Max(Like(key, batch, b))
  <2>1. b \in Rows /\ Like(key, batch, b) # {} /\ Touched(key, batch, N, b)
    BY DEF Like, Touched
  <2>. HIDE DEF b
  <2>2. Latest(key, batch, N, last, b) /\ last \in 1..N
    BY <2>1, LatestOfKey DEF Latest
  <2>. HIDE DEF last
  <2>3. new[Min(Like(key, new, b))] = batch[last]
    BY <1>1, <2>1, <2>2 DEF UpsertedBy
  <2>4. Cardinality(Like(key, new, b)) = Max({1, Cardinality(Like(key, old, b))})
    BY <1>1, <2>1, RowsOfKeyCounted
  <2>. QED  BY <2>3, <2>4 DEF last, b
<1>3. ASSUME NEW i \in DOMAIN old, \A j \in complete : ~SameKey(key, old[i], batch[j])
      PROVE  new[i] = old[i]
  <2>1. \A j \in 1..N : ~SameKey(key, old[i], batch[j])
    BY <1>3, KeyEquates
  <2>. QED  BY <1>1, <2>1 DEF UpsertedBy
<1>4. Upserted(key, new, batch)
         = new \o Kept(batch, { row \in Range(batch) : ~SameKey(key, row, row) })
  BY <1>1, UpsertTwice
<1>5. ByKey(key, old, batch, new)
  BY <1>2, <1>3, <1>4 DEF ByKey
<1>. QED  BY <1>5 DEF new

\* "Match on primary key, full row replace" (DESIGN.md:1727): upsert_rows() of
\* any batch into any table, whatever columns are the key and whatever
\* duplicates the table and the batch have.
THEOREM UpsertsMatchOnKey == TablesSpec => []UpsertByKey
<1>1. TablesTypeOK => UpsertByKey
  <2>. SUFFICES ASSUME TablesTypeOK, NEW t \in DOMAIN tables, NEW batch \in RowBatches,
                       NEW key \in SUBSET UNION { DOMAIN tables[t][i] : i \in DOMAIN tables[t] }
                PROVE  ByKey(key, tables[t], batch, Upserted(key, tables[t], batch))
    BY DEF UpsertByKey, ByKey, Like
  <2>. DEFINE old == tables[t]
  <2>1. old \in Seq(Rows) /\ batch \in Seq(Rows)
    BY RowsAssumption DEF TablesTypeOK
  <2>. HIDE DEF old
  <2>2. ByKey(key, old, batch, Upserted(key, old, batch))
    BY <2>1, HoldsByKey
  <2>. QED  BY <2>2 DEF old
<1>. QED  BY <1>1, TablesTypeCorrect, PTL

-----------------------------------------------------------------------------
(* Sorting by one column.                                                  *)

\* Where rows with comparable values stand in the order.
Rank(row, ob) ==
    LET value == row[ob.column]
        place == IF IsNumber(value) THEN AsF64(value) ELSE value.n
    IN  IF ob.descending THEN -place ELSE place

\* The values of the column are of one kind.
Alike(rows, column) ==
    /\ \A row \in rows : Has(row, column)
    /\ \/ \A row \in rows : IsNumber(row[column])
       \/ \A row \in rows : row[column].type = "string"

\* The properties say it of the rows of a table.
LEMMA ComparableAlike ==
    ASSUME NEW rows \in Seq(Rows), NEW column, Comparable(rows, column)
    PROVE  Alike(Range(rows), column)
  BY DEF Comparable, Alike, Range

\* A row with the column has a place, and its value as a 64-bit float is one.
LEMMA RankTyped ==
    ASSUME NEW row \in Rows, NEW ob, Has(row, ob.column)
    PROVE  Rank(row, ob) \in Int
<1>. DEFINE v == row[ob.column]
<1>1. v.n \in Int
  BY RowsAssumption DEF Has
<1>. HIDE DEF v
<1>2. AsF64(v) \in Int
  <2>1. (v.n + 2) \div 4 \in Int
    BY <1>1
  <2>. QED  BY <1>1, <2>1 DEF AsF64
<1>3. Rank(row, ob) = LET place == IF IsNumber(v) THEN AsF64(v) ELSE v.n
                      IN  IF ob.descending THEN -place ELSE place
  BY DEF Rank, v
<1>. QED  BY <1>1, <1>2, <1>3

\* The comparison is that of the places.
LEMMA CmpByRank ==
    ASSUME NEW S \in SUBSET Rows, NEW ob, Alike(S, ob.column), NEW a \in S, NEW b \in S
    PROVE  CmpRows(a, b, ob) = Sign(Rank(a, ob) - Rank(b, ob))
<1>. DEFINE column == ob.column
            v == a[column]
            w == b[column]
            i == IF IsNumber(v) THEN AsF64(v) ELSE v.n
            j == IF IsNumber(w) THEN AsF64(w) ELSE w.n
<1>0. a \in Rows /\ b \in Rows
  OBVIOUS
<1>1. Has(a, column) /\ Has(b, column)
  BY DEF Alike
<1>2. (IsNumber(v) /\ IsNumber(w)) \/ (v.type = "string" /\ w.type = "string")
  BY DEF Alike
<1>3. CmpValues(a, b, column) = CmpJsonValues(v, w)
  BY <1>1 DEF CmpValues
<1>4. v.n \in Int /\ w.n \in Int
  BY <1>0, <1>1, RowsAssumption DEF Has
<1>5. /\ Rank(a, ob) = IF ob.descending THEN -i ELSE i
      /\ Rank(b, ob) = IF ob.descending THEN -j ELSE j
  BY DEF Rank
<1>6. CmpRows(a, b, ob) = IF ob.descending THEN -CmpJsonValues(v, w) ELSE CmpJsonValues(v, w)
  BY <1>3 DEF CmpRows
<1>. HIDE DEF v, w
<1>7. CmpJsonValues(v, w) = Sign(i - j)
  BY <1>2 DEF CmpJsonValues, IsNumber
<1>8. i \in Int /\ j \in Int
  <2>1. (v.n + 2) \div 4 \in Int /\ (w.n + 2) \div 4 \in Int
    BY <1>4
  <2>. QED  BY <1>4, <2>1 DEF AsF64
<1>. HIDE DEF i, j
<1>9. -Sign(i - j) = Sign((-i) - (-j))
  BY <1>8 DEF Sign
<1>. QED  BY <1>5, <1>6, <1>7, <1>9

\* That is all a sort needs to know of it.
LEMMA CmpOrders ==
    ASSUME NEW S \in SUBSET Rows, NEW ob, Alike(S, ob.column), NEW a \in S, NEW b \in S
    PROVE  /\ Rank(a, ob) \in Int /\ Rank(b, ob) \in Int
           /\ CmpRows(a, b, ob) <= 0 <=> Rank(a, ob) <= Rank(b, ob)
           /\ CmpRows(a, b, ob) = 0 <=> Rank(a, ob) = Rank(b, ob)
<1>1. CmpRows(a, b, ob) = Sign(Rank(a, ob) - Rank(b, ob))
  BY CmpByRank
<1>2. Rank(a, ob) \in Int /\ Rank(b, ob) \in Int
  <2>1. a \in Rows /\ b \in Rows /\ Has(a, ob.column) /\ Has(b, ob.column)
    BY DEF Alike
  <2>. QED  BY <2>1, RankTyped
<1>. QED  BY <1>1, <1>2 DEF Sign

\* So the sort is specified.
LEMMA AlikeIsOrder ==
    ASSUME NEW rows \in Seq(Rows), NEW ob, Alike(Range(rows), ob.column)
    PROVE  SortBy(rows, ob) = {StablySorted(rows, ob)}
<1>. DEFINE S == Range(rows)
<1>1. S \in SUBSET Rows /\ \A i \in DOMAIN rows : rows[i] \in S
  BY DEF Range
<1>. HIDE DEF S
<1>2. \A a, b \in S : /\ Rank(a, ob) \in Int /\ Rank(b, ob) \in Int
                      /\ CmpRows(a, b, ob) <= 0 <=> Rank(a, ob) <= Rank(b, ob)
  BY <1>1, CmpOrders DEF S
<1>3. \A a, b, c \in S : CmpRows(a, b, ob) <= 0 /\ CmpRows(b, c, ob) <= 0 => CmpRows(a, c, ob) <= 0
  BY <1>2
<1>4. IsOrder(rows, ob)
  BY <1>1, <1>3 DEF IsOrder
<1>. QED  BY <1>4 DEF SortBy

\* A row put behind the first c.
Inserted(rows, c, row) == SubSeq(rows, 1, c) \o <<row>> \o SubSeq(rows, c + 1, Len(rows))

\* What comes before it stays where it is, what comes after it moves up by one.
LEMMA InsertedAt ==
    ASSUME NEW rows \in Seq(Rows), NEW c \in 0..Len(rows), NEW row \in Rows
    PROVE  /\ Inserted(rows, c, row) \in Seq(Rows)
           /\ Len(Inserted(rows, c, row)) = Len(rows) + 1
           /\ \A i \in 1..c : Inserted(rows, c, row)[i] = rows[i]
           /\ Inserted(rows, c, row)[c + 1] = row
           /\ \A i \in (c + 1)..Len(rows) : Inserted(rows, c, row)[i + 1] = rows[i]
<1>. DEFINE low == SubSeq(rows, 1, c)
            high == SubSeq(rows, c + 1, Len(rows))
            part == low \o <<row>>
            all == part \o high
<1>1. /\ low \in Seq(Rows) /\ Len(low) = c
      /\ \A i \in 1..c : low[i] = rows[i]
  OBVIOUS
<1>2. /\ high \in Seq(Rows) /\ Len(high) = Len(rows) - c
      /\ \A i \in 1..(Len(rows) - c) : high[i] = rows[c + i]
  OBVIOUS
<1>3. c \in Nat /\ Len(rows) \in Nat
  OBVIOUS
<1>4. Inserted(rows, c, row) = all
  BY DEF Inserted
<1>. HIDE DEF low, high
<1>5. /\ part \in Seq(Rows) /\ Len(part) = c + 1 /\ part[c + 1] = row
      /\ \A i \in 1..c : part[i] = rows[i]
  BY <1>1, <1>3
<1>. HIDE DEF part
<1>6. /\ all \in Seq(Rows) /\ Len(all) = Len(rows) + 1 /\ all[c + 1] = row
      /\ \A i \in 1..c : all[i] = rows[i]
  <2>1. all \in Seq(Rows) /\ Len(all) = Len(part) + Len(high)
    <3>1. part \in Seq(Rows) /\ high \in Seq(Rows)
      BY <1>2, <1>5
    <3>. QED  BY <3>1, ConcatProperties
  <2>2. \A i \in 1..(c + 1) : all[i] = part[i]
    BY <1>2, <1>3, <1>5
  <2>. HIDE DEF all
  <2>3. Len(all) = Len(rows) + 1
    BY <1>2, <1>3, <1>5, <2>1
  <2>4. \A i \in 1..c : all[i] = rows[i]
    BY <1>3, <1>5, <2>2
  <2>. QED  BY <1>3, <1>5, <2>1, <2>2, <2>3, <2>4
<1>7. ASSUME NEW i \in (c + 1)..Len(rows) PROVE all[i + 1] = rows[i]
  <2>. DEFINE k == i - c
  <2>1. k \in 1..(Len(rows) - c) /\ i = c + k /\ i + 1 = (c + 1) + k
    BY <1>3
  <2>. HIDE DEF k
  <2>2. all[(c + 1) + k] = high[k]
    BY <1>2, <1>3, <1>5, <2>1
  <2>. QED  BY <1>2, <2>1, <2>2
<1>. HIDE DEF all
<1>. QED  BY <1>4, <1>6, <1>7

\* With every number a set of numbers has all smaller ones.
LEMMA InitialSegment ==
    ASSUME NEW N \in Nat, NEW T, T \subseteq 1..N, \A n \in T, m \in 1..N : m < n => m \in T
    PROVE  Cardinality(T) \in 0..N /\ T = 1..Cardinality(T)
<1>1. CASE T = {}
  <2>1. Cardinality(T) = 0
    BY <1>1, FS_EmptySet
  <2>. QED  BY <1>1, <2>1
<1>2. CASE T # {}
  <2>. DEFINE top == Max(T)
  <2>1. T \subseteq 0..N
    OBVIOUS
  <2>2. top \in T /\ \A n \in T : top >= n
    BY <1>2, <2>1, MaxOf
  <2>. HIDE DEF top
  <2>3. top \in 1..N
    BY <2>2
  <2>4. T = 1..top
    <3>1. \A n \in T : n \in 1..top
      BY <2>2
    <3>2. \A n \in 1..top : n \in T
      BY <2>2, <2>3
    <3>. QED  BY <3>1, <3>2
  <2>5. Cardinality(1..top) = top
    BY <2>3, FS_Interval
  <2>. QED  BY <2>3, <2>4, <2>5
<1>. QED  BY <1>1, <1>2

\* Rows sorted by the column.
InOrder(rows, ob) == \A i, j \in DOMAIN rows : i < j => Rank(rows[i], ob) <= Rank(rows[j], ob)

\* The rows that a new one is put behind.
NotAfter(rows, row, ob) == { i \in DOMAIN rows : CmpRows(rows[i], row, ob) <= 0 }

\* A row is put behind the rows it is not before.
LEMMA PlacePuts ==
    ASSUME NEW ob, NEW S \in SUBSET Rows, Alike(S, ob.column),
           NEW sorted \in Seq(S), InOrder(sorted, ob), NEW row \in S,
           NEW c, c = Cardinality(NotAfter(sorted, row, ob))
    PROVE  /\ c \in 0..Len(sorted)
           /\ Place(sorted, row, ob) = Inserted(sorted, c, row)
           /\ \A i \in 1..Len(sorted) : i <= c <=> Rank(sorted[i], ob) <= Rank(row, ob)
<1>. DEFINE T == NotAfter(sorted, row, ob)
            N == Len(sorted)
<1>1. N \in Nat /\ DOMAIN sorted = 1..N /\ \A i \in 1..N : sorted[i] \in S
  OBVIOUS
<1>2. \A i \in 1..N : /\ Rank(sorted[i], ob) \in Int /\ Rank(row, ob) \in Int
                      /\ CmpRows(sorted[i], row, ob) <= 0 <=> Rank(sorted[i], ob) <= Rank(row, ob)
  BY <1>1, CmpOrders
<1>3. \A i \in 1..N : i \in T <=> Rank(sorted[i], ob) <= Rank(row, ob)
  BY <1>1, <1>2 DEF NotAfter
<1>4. T \subseteq 1..N
  BY <1>1 DEF NotAfter
<1>5. \A n \in T, m \in 1..N : m < n => m \in T
  <2>. SUFFICES ASSUME NEW n \in T, NEW m \in 1..N, m < n PROVE m \in T
    OBVIOUS
  <2>. HIDE DEF T
  <2>1. n \in 1..N
    BY <1>4
  <2>2. Rank(sorted[m], ob) <= Rank(sorted[n], ob)
    BY <1>1, <2>1 DEF InOrder
  <2>. QED  BY <1>2, <1>3, <2>1, <2>2
<1>. HIDE DEF T
<1>6. Cardinality(T) \in 0..N /\ T = 1..Cardinality(T)
  BY <1>1, <1>4, <1>5, InitialSegment
<1>7. c = Cardinality(T)
  BY DEF T
<1>8. \A i \in 1..N : i <= c <=> i \in T
  BY <1>1, <1>6, <1>7
<1>9. Place(sorted, row, ob) = Inserted(sorted, c, row)
  BY DEF Place, Inserted, NotAfter
<1>. QED  BY <1>3, <1>6, <1>7, <1>8, <1>9

\* The rows sorted after each of them.
SortRuns(rows, ob) ==
    { f \in [0..Len(rows) -> Seq(Rows)] :
        /\ f[0] = <<>>
        /\ f[Len(rows)] = StablySorted(rows, ob)
        /\ \A n \in 1..Len(rows) : f[n] = Place(f[n - 1], rows[n], ob) }

\* A row placed among rows leaves rows.
LEMMA PlaceTyped ==
    ASSUME NEW sorted \in Seq(Rows), NEW row \in Rows, NEW ob
    PROVE  Place(sorted, row, ob) \in Seq(Rows)
<1>. DEFINE T == NotAfter(sorted, row, ob)
            c == Cardinality(T)
<1>1. T \in SUBSET (1..Len(sorted)) /\ Len(sorted) \in Nat
  BY DEF NotAfter
<1>2. Place(sorted, row, ob) = Inserted(sorted, c, row)
  BY DEF Place, Inserted, NotAfter
<1>. HIDE DEF T
<1>3. IsFiniteSet(1..Len(sorted)) /\ Cardinality(1..Len(sorted)) = Len(sorted)
  <2>. DEFINE N == Len(sorted)
  <2>1. N \in Nat
    OBVIOUS
  <2>. HIDE DEF N
  <2>2. IsFiniteSet(1..N) /\ Cardinality(1..N) = N
    BY <2>1, FS_Interval
  <2>. QED  BY <2>2 DEF N
<1>4. IsFiniteSet(T) /\ Cardinality(T) <= Len(sorted)
  BY <1>1, <1>3, FS_Subset
<1>5. c \in 0..Len(sorted)
  BY <1>1, <1>4, FS_CardinalityType
<1>. HIDE DEF c
<1>. QED  BY <1>2, <1>5, InsertedAt

\* The sort puts one row after the other among those it has.
LEMMA SortSteps ==
    ASSUME NEW rows \in Seq(Rows), NEW ob
    PROVE  SortRuns(rows, ob) # {}
<1>. DEFINE D == Seq(Rows)
            step == [p \in D \X Rows |-> Place(p[1], p[2], ob)]
            Rec(it) == [t \in SUBSET (DOMAIN rows) |->
                          IF t = {} THEN <<>> ELSE Place(it[t \ {Max(t)}], rows[Max(t)], ob)]
            iter == CHOOSE it : it = Rec(it)
<1>1. step \in [D \X Rows -> D] /\ <<>> \in D
  BY PlaceTyped
<1>2. \A sorted \in D, row \in Rows : step[<<sorted, row>>] = Place(sorted, row, ob)
  OBVIOUS
<1>. HIDE DEF D, step
<1>3. iter = Rec(iter)
  <2>1. Iterators(D, <<>>, rows, step) # {}
    BY <1>1, FoldIterates
  <2>2. PICK it \in Iterators(D, <<>>, rows, step) : TRUE
    BY <2>1
  <2>3. it = Rec(it)
    <3>. SUFFICES ASSUME NEW t \in SUBSET (DOMAIN rows), t # {}
                  PROVE  it[t] = Place(it[t \ {Max(t)}], rows[Max(t)], ob)
      BY <2>2 DEF Iterators, Unfolds
    <3>1. rows[Max(t)] \in Rows
      BY MaxInDomain
    <3>. QED  BY <1>2, <2>2, <3>1 DEF Iterators, Unfolds
  <2>. HIDE DEF Rec
  <2>. QED  BY <2>3
<1>4. StablySorted(rows, ob) = iter[DOMAIN rows]
  BY DEF StablySorted, FoldLeft, MapThenFoldSet
<1>. HIDE DEF iter
<1>5. Unfolds(iter, D, <<>>, rows, step)
  <2>1. ASSUME NEW t \in SUBSET (DOMAIN rows), t # {}, iter[t \ {Max(t)}] \in D
        PROVE  iter[t] = step[<<iter[t \ {Max(t)}], rows[Max(t)]>>]
    <3>1. rows[Max(t)] \in Rows
      BY <2>1, MaxInDomain
    <3>2. iter[t] = Place(iter[t \ {Max(t)}], rows[Max(t)], ob)
      BY <1>3, <2>1
    <3>. QED  BY <1>2, <2>1, <3>1, <3>2
  <2>. QED  BY <1>3, <2>1 DEF Unfolds
<1>6. PICK f \in Runs(D, <<>>, rows, step) : f[Len(rows)] = iter[DOMAIN rows]
  <2>. HIDE DEF Rec
  <2>1. iter[DOMAIN rows] \in Outcomes(D, <<>>, rows, step)
    BY <1>1, <1>5, FoldAlong
  <2>. QED  BY <2>1 DEF Outcomes
<1>7. ASSUME NEW n \in 1..Len(rows) PROVE f[n] = Place(f[n - 1], rows[n], ob)
  <2>1. f[n - 1] \in D /\ rows[n] \in Rows
    BY DEF Runs
  <2>. QED  BY <1>2, <1>6, <2>1 DEF Runs
<1>8. f \in SortRuns(rows, ob)
  BY <1>4, <1>6, <1>7 DEF D, Runs, SortRuns
<1>. QED  BY <1>8

\* What a sequence of n values is when x is put behind the first c.
Shifted(f, n, c, x) ==
    [i \in 1..(n + 1) |-> IF i <= c THEN f[i] ELSE IF i = c + 1 THEN x ELSE f[i - 1]]

\* It is of the same kind.
LEMMA ShiftedTyped ==
    ASSUME NEW X, NEW n \in Nat, NEW c \in 0..n, NEW f \in [1..n -> X], NEW x \in X
    PROVE  Shifted(f, n, c, x) \in [1..(n + 1) -> X]
<1>1. \A i \in 1..(n + 1) : /\ i <= c => i \in 1..n
                            /\ ~(i <= c) /\ i # c + 1 => i - 1 \in 1..n
  OBVIOUS
<1>. QED  BY <1>1 DEF Shifted

\* r is in order and, where that does not decide, p is.
Lexed(r, p, n) ==
    \A i, j \in 1..n : i < j => r[i] < r[j] \/ (r[i] = r[j] /\ p[i] < p[j])

\* The last of all, put behind those that are not after it, keeps the order.
LEMMA LexedOneMore ==
    ASSUME NEW n \in Nat, NEW c \in 0..n, NEW r \in [1..n -> Int], NEW p \in [1..n -> 1..n],
           Lexed(r, p, n), NEW x \in Int, \A i \in 1..n : i <= c <=> r[i] <= x
    PROVE  Lexed(Shifted(r, n, c, x), Shifted(p, n, c, n + 1), n + 1)
<1>. DEFINE s == Shifted(r, n, c, x)
            q == Shifted(p, n, c, n + 1)
<1>1. \A i \in 1..(n + 1) :
        /\ i <= c => i \in 1..n /\ s[i] = r[i] /\ q[i] = p[i] /\ p[i] \in 1..n
        /\ i = c + 1 => s[i] = x /\ q[i] = n + 1
        /\ i > c + 1 => i - 1 \in 1..n /\ s[i] = r[i - 1] /\ q[i] = p[i - 1]
  <2>. TAKE i \in 1..(n + 1)
  <2>1. /\ s[i] = IF i <= c THEN r[i] ELSE IF i = c + 1 THEN x ELSE r[i - 1]
        /\ q[i] = IF i <= c THEN p[i] ELSE IF i = c + 1 THEN n + 1 ELSE p[i - 1]
    BY DEF Shifted
  <2>. HIDE DEF s, q
  <2>2. (i <= c => i \in 1..n) /\ (i > c + 1 => i - 1 \in 1..n /\ ~(i <= c) /\ i # c + 1)
    OBVIOUS
  <2>3. i = c + 1 => ~(i <= c)
    OBVIOUS
  <2>4. i <= c => p[i] \in 1..n
    BY <2>2
  <2>. QED  BY <2>1, <2>2, <2>3, <2>4
<1>. HIDE DEF s, q
<1>2. ASSUME NEW i \in 1..(n + 1), NEW j \in 1..(n + 1), i < j
      PROVE  s[i] < s[j] \/ (s[i] = s[j] /\ q[i] < q[j])
  <2>1. CASE j <= c
    <3>1. i <= c
      BY <1>2, <2>1
    <3>. QED  BY <1>1, <1>2, <2>1, <3>1 DEF Lexed
  <2>2. CASE j = c + 1
    <3>1. i <= c
      BY <1>2, <2>2
    <3>2. i \in 1..n /\ s[i] = r[i] /\ q[i] \in 1..n /\ s[j] = x /\ q[j] = n + 1
      BY <1>1, <2>2, <3>1
    <3>3. r[i] <= x /\ r[i] \in Int /\ q[i] < n + 1
      BY <3>1, <3>2
    <3>. QED  BY <3>2, <3>3
  <2>3. CASE j > c + 1 /\ i <= c
    <3>1. i \in 1..n /\ j - 1 \in 1..n /\ i < j - 1
      BY <1>1, <2>3
    <3>. QED  BY <1>1, <2>3, <3>1 DEF Lexed
  <2>4. CASE j > c + 1 /\ i = c + 1
    <3>1. j - 1 \in 1..n /\ ~(j - 1 <= c) /\ s[j] = r[j - 1] /\ s[i] = x
      BY <1>1, <2>4
    <3>. QED  BY <3>1
  <2>5. CASE j > c + 1 /\ i > c + 1
    <3>1. i - 1 \in 1..n /\ j - 1 \in 1..n /\ i - 1 < j - 1
      BY <1>1, <1>2, <2>5
    <3>. QED  BY <1>1, <2>5, <3>1 DEF Lexed
  <2>. QED  BY <2>1, <2>2, <2>3, <2>4, <2>5
<1>. QED  BY <1>2 DEF Lexed, s, q

\* Nothing is lost.
LEMMA OntoOneMore ==
    ASSUME NEW n \in Nat, NEW c \in 0..n, NEW p \in [1..n -> 1..n],
           \A m \in 1..n : \E i \in 1..n : p[i] = m, NEW m \in 1..(n + 1)
    PROVE  \E i \in 1..(n + 1) : Shifted(p, n, c, n + 1)[i] = m
<1>1. CASE m = n + 1
  <2>1. c + 1 \in 1..(n + 1) /\ Shifted(p, n, c, n + 1)[c + 1] = n + 1
    BY DEF Shifted
  <2>. QED  BY <1>1, <2>1
<1>2. CASE m # n + 1
  <2>1. PICK i \in 1..n : p[i] = m
    BY <1>2
  <2>2. CASE i <= c
    <3>1. i \in 1..(n + 1) /\ Shifted(p, n, c, n + 1)[i] = m
      BY <2>1, <2>2 DEF Shifted
    <3>. QED  BY <3>1
  <2>3. CASE i > c
    <3>. DEFINE j == i + 1
    <3>1. j \in 1..(n + 1) /\ j > c + 1 /\ j - 1 = i
      BY <2>3
    <3>. HIDE DEF j
    <3>2. Shifted(p, n, c, n + 1)[j] = p[i]
      BY <3>1 DEF Shifted
    <3>. QED  BY <2>1, <3>1, <3>2
  <2>. QED  BY <2>2, <2>3
<1>. QED  BY <1>1, <1>2

\* The same, of rows.
LEMMA InsertedShifts ==
    ASSUME NEW rows \in Seq(Rows), NEW c \in 0..Len(rows), NEW row \in Rows
    PROVE  Inserted(rows, c, row) = Shifted(rows, Len(rows), c, row)
<1>. DEFINE new == Inserted(rows, c, row)
            n == Len(rows)
<1>1. /\ new \in Seq(Rows) /\ Len(new) = n + 1
      /\ \A i \in 1..c : new[i] = rows[i]
      /\ new[c + 1] = row
      /\ \A i \in (c + 1)..n : new[i + 1] = rows[i]
  <2>1. new \in Seq(Rows) /\ Len(new) = n + 1
    BY InsertedAt
  <2>2. \A i \in 1..c : new[i] = rows[i]
    BY InsertedAt
  <2>3. new[c + 1] = row
    BY InsertedAt
  <2>4. \A i \in (c + 1)..n : new[i + 1] = rows[i]
    BY InsertedAt
  <2>. HIDE DEF new, n
  <2>. QED  BY <2>1, <2>2, <2>3, <2>4
<1>2. n \in Nat /\ c \in 0..n
  OBVIOUS
<1>. HIDE DEF new, n
<1>3. ASSUME NEW i \in 1..(n + 1)
      PROVE  new[i] = IF i <= c THEN rows[i] ELSE IF i = c + 1 THEN row ELSE rows[i - 1]
  <2>1. CASE i <= c
    BY <1>1, <1>2, <2>1
  <2>2. CASE i = c + 1
    BY <1>1, <1>2, <2>2
  <2>3. CASE i > c + 1
    <3>1. i - 1 \in (c + 1)..n /\ (i - 1) + 1 = i
      BY <1>2, <2>3
    <3>. QED  BY <1>1, <1>2, <2>3, <3>1
  <2>. QED  BY <1>2, <2>1, <2>2, <2>3
<1>4. new = [i \in 1..(n + 1) |-> new[i]]
  BY <1>1
<1>5. new = Shifted(rows, n, c, row)
  BY <1>3, <1>4 DEF Shifted
<1>. QED  BY <1>5 DEF new, n

\* The places of the first n rows in the order of the column.
Ranks(rows, n, ob) == [i \in 1..n |-> Rank(rows[i], ob)]

\* sorted is the first n rows, each at one place, in the order of the column
\* and, where that does not decide, in the order they had.
Arranges(p, rows, n, sorted, ob) ==
    /\ Len(sorted) = n
    /\ \A i \in 1..n : sorted[i] = rows[p[i]]
    /\ \A m \in 1..n : \E i \in 1..n : p[i] = m
    /\ Lexed(Ranks(sorted, n, ob), p, n)
Arrangements(rows, n, sorted, ob) ==
    { p \in [1..n -> 1..n] : Arranges(p, rows, n, sorted, ob) }

\* Each of them has a place.
LEMMA RankedAlike ==
    ASSUME NEW ob, NEW S \in SUBSET Rows, Alike(S, ob.column), NEW row \in S
    PROVE  Rank(row, ob) \in Int
<1>1. row \in Rows /\ Has(row, ob.column)
  BY DEF Alike
<1>. QED  BY <1>1, RankTyped

\* One row more put where it belongs.
LEMMA ArrangesOneMore ==
    ASSUME NEW ob, NEW S \in SUBSET Rows, Alike(S, ob.column),
           NEW rows \in Seq(Rows), NEW n \in Nat,
           NEW row \in S, row = rows[n + 1],
           NEW sorted \in Seq(S), Arrangements(rows, n, sorted, ob) # {}
    PROVE  Arrangements(rows, n + 1, Place(sorted, row, ob), ob) # {}
<1>. DEFINE c == Cardinality(NotAfter(sorted, row, ob))
            new == Place(sorted, row, ob)
            r == Ranks(sorted, n, ob)
            x == Rank(row, ob)
<1>1. PICK p \in [1..n -> 1..n] : Arranges(p, rows, n, sorted, ob)
  BY DEF Arrangements
<1>2. Len(sorted) = n /\ Lexed(r, p, n)
  BY <1>1 DEF Arranges
<1>3. row \in Rows /\ sorted \in Seq(Rows)
  OBVIOUS
<1>4. x \in Int
  BY RankedAlike
<1>5. \A i \in 1..n : sorted[i] \in S
  BY <1>2
<1>6. \A i \in 1..n : Rank(sorted[i], ob) \in Int
  BY <1>5, RankedAlike
<1>7. r \in [1..n -> Int] /\ \A i \in 1..n : r[i] = Rank(sorted[i], ob)
  BY <1>6 DEF Ranks
<1>0. new = Place(sorted, row, ob) /\ c = Cardinality(NotAfter(sorted, row, ob))
  OBVIOUS
<1>. HIDE DEF r, x, c, new
<1>8. ASSUME NEW i \in 1..n, NEW j \in 1..n, i < j PROVE r[i] <= r[j]
  <2>. DEFINE a == r[i]
              b == r[j]
  <2>1. a \in Int /\ b \in Int
    BY <1>7
  <2>2. a < b \/ a = b
    BY <1>2, <1>8 DEF Lexed
  <2>. HIDE DEF a, b
  <2>3. a <= b
    BY <2>1, <2>2
  <2>. QED  BY <2>3 DEF a, b
<1>9. InOrder(sorted, ob)
  <2>1. DOMAIN sorted = 1..n
    BY <1>2
  <2>. QED  BY <1>7, <1>8, <2>1 DEF InOrder
<1>10. /\ c \in 0..Len(sorted) /\ new = Inserted(sorted, c, row)
       /\ \A i \in 1..Len(sorted) : i <= c <=> Rank(sorted[i], ob) <= x
  <2>1. /\ c \in 0..Len(sorted) /\ Place(sorted, row, ob) = Inserted(sorted, c, row)
        /\ \A i \in 1..Len(sorted) : i <= c <=> Rank(sorted[i], ob) <= Rank(row, ob)
    BY <1>0, <1>9, PlacePuts
  <2>. QED  BY <1>0, <2>1 DEF x
<1>11. c \in 0..n /\ \A i \in 1..n : i <= c <=> r[i] <= x
  BY <1>2, <1>7, <1>10
<1>12. new = Shifted(sorted, n, c, row)
  BY <1>2, <1>3, <1>10, InsertedShifts
<1>13. Len(new) = n + 1
  BY <1>2, <1>3, <1>10, InsertedAt
<1>. DEFINE q == Shifted(p, n, c, n + 1)
<1>14. Lexed(Shifted(r, n, c, x), q, n + 1)
  BY <1>2, <1>4, <1>7, <1>11, LexedOneMore
<1>15. \A m \in 1..n : \E i \in 1..n : p[i] = m
  BY <1>1 DEF Arranges
<1>16. \A m \in 1..(n + 1) : \E i \in 1..(n + 1) : q[i] = m
  BY <1>11, <1>15, OntoOneMore
<1>17. q \in [1..(n + 1) -> 1..(n + 1)]
  <2>1. p \in [1..n -> 1..(n + 1)] /\ n + 1 \in 1..(n + 1)
    OBVIOUS
  <2>. QED  BY <1>11, <2>1, ShiftedTyped
<1>18. Ranks(new, n + 1, ob) = Shifted(r, n, c, x)
  <2>1. \A i \in 1..(n + 1) : Rank(new[i], ob) = Shifted(r, n, c, x)[i]
    <3>. SUFFICES ASSUME NEW i \in 1..(n + 1)
                  PROVE  Rank(new[i], ob) = Shifted(r, n, c, x)[i]
      OBVIOUS
    <3>1. CASE i <= c
      <4>1. i \in 1..n /\ new[i] = sorted[i] /\ Shifted(r, n, c, x)[i] = r[i]
        BY <1>11, <1>12, <3>1 DEF Shifted
      <4>. QED  BY <1>7, <4>1
    <3>2. CASE i = c + 1
      <4>1. new[i] = row /\ Shifted(r, n, c, x)[i] = x
        BY <1>11, <1>12, <3>2 DEF Shifted
      <4>. QED  BY <4>1 DEF x
    <3>3. CASE i > c + 1
      <4>0. i - 1 \in 1..n /\ ~(i <= c) /\ i # c + 1
        BY <1>11, <3>3
      <4>1. new[i] = sorted[i - 1] /\ Shifted(r, n, c, x)[i] = r[i - 1]
        BY <1>12, <4>0 DEF Shifted
      <4>. QED  BY <1>7, <4>0, <4>1
    <3>. QED  BY <1>11, <3>1, <3>2, <3>3
  <2>. QED  BY <2>1 DEF Ranks, Shifted
<1>19. ASSUME NEW i \in 1..(n + 1) PROVE new[i] = rows[q[i]]
  <2>0. \A j \in 1..n : sorted[j] = rows[p[j]]
    BY <1>1 DEF Arranges
  <2>1. CASE i <= c
    <3>1. i \in 1..n /\ new[i] = sorted[i] /\ q[i] = p[i]
      BY <1>11, <1>12, <2>1 DEF Shifted
    <3>. QED  BY <2>0, <3>1
  <2>2. CASE i = c + 1
    <3>1. new[i] = row /\ q[i] = n + 1
      BY <1>11, <1>12, <2>2 DEF Shifted
    <3>. QED  BY <3>1
  <2>3. CASE i > c + 1
    <3>1. i - 1 \in 1..n /\ ~(i <= c) /\ i # c + 1
      BY <1>11, <2>3
    <3>2. new[i] = sorted[i - 1] /\ q[i] = p[i - 1]
      BY <1>12, <3>1 DEF Shifted
    <3>. QED  BY <2>0, <3>1, <3>2
  <2>. QED  BY <1>11, <2>1, <2>2, <2>3
<1>. HIDE DEF q
<1>20. Arranges(q, rows, n + 1, new, ob)
  BY <1>13, <1>14, <1>16, <1>18, <1>19 DEF Arranges
<1>21. Arrangements(rows, n + 1, new, ob) # {}
  BY <1>17, <1>20 DEF Arrangements
<1>. QED  BY <1>21 DEF new

\* A sort by one column is the rows it was given, stably in order.
LEMMA SortIsStable ==
    ASSUME NEW rows \in Seq(Rows), NEW ob, Alike(Range(rows), ob.column)
    PROVE  /\ StablySorted(rows, ob) \in Seq(Rows)
           /\ Arrangements(rows, Len(rows), StablySorted(rows, ob), ob) # {}
<1>. DEFINE S == Range(rows)
            N == Len(rows)
<1>1. PICK f \in SortRuns(rows, ob) : TRUE
  BY SortSteps
<1>2. N \in Nat /\ S \in SUBSET Rows /\ \A n \in 1..N : rows[n] \in S
  BY DEF Range
<1>3. /\ f \in [0..N -> Seq(Rows)] /\ f[0] = <<>> /\ f[N] = StablySorted(rows, ob)
      /\ \A n \in 1..N : f[n] = Place(f[n - 1], rows[n], ob)
  BY <1>1 DEF SortRuns
<1>4. Alike(S, ob.column)
  OBVIOUS
<1>. HIDE DEF S, N
<1>. DEFINE Good == { n \in 0..N : Arrangements(rows, n, f[n], ob) # {} }
<1>5. 0 \in Good
  <2>. DEFINE p == [i \in 1..0 |-> i]
  <2>1. 1..0 = {} /\ Len(<<>>) = 0
    OBVIOUS
  <2>2. p \in [1..0 -> 1..0] /\ Arranges(p, rows, 0, <<>>, ob)
    BY <2>1 DEF Arranges, Lexed
  <2>. HIDE DEF p
  <2>3. Arrangements(rows, 0, <<>>, ob) # {}
    BY <2>2 DEF Arrangements
  <2>. QED  BY <1>2, <1>3, <2>3
<1>6. \A n \in 0..(N - 1) : n \in Good => n + 1 \in Good
  <2>. SUFFICES ASSUME NEW n \in 0..(N - 1), Arrangements(rows, n, f[n], ob) # {}
                PROVE  Arrangements(rows, n + 1, f[n + 1], ob) # {}
    BY <1>2
  <2>. DEFINE sorted == f[n]
              row == rows[n + 1]
  <2>1. n \in Nat /\ n \in 0..N /\ n + 1 \in 1..N /\ (n + 1) - 1 = n
    BY <1>2
  <2>2. row \in S /\ row = rows[n + 1] /\ sorted \in Seq(Rows) /\ f[n + 1] = Place(sorted, row, ob)
    BY <1>2, <1>3, <2>1
  <2>3. PICK p \in [1..n -> 1..n] : Arranges(p, rows, n, sorted, ob)
    BY DEF Arrangements
  <2>4. Arrangements(rows, n, sorted, ob) # {}
    OBVIOUS
  <2>. HIDE DEF sorted, row
  <2>5. Len(sorted) = n /\ \A i \in 1..n : sorted[i] = rows[p[i]]
    BY <2>3 DEF Arranges
  <2>6. \A i \in 1..n : sorted[i] \in S
    <3>1. \A i \in 1..n : p[i] \in 1..N
      <4>1. 1..n \subseteq 1..N
        BY <1>2, <2>1
      <4>2. \A i \in 1..n : p[i] \in 1..n
        BY <2>3
      <4>. QED  BY <4>1, <4>2
    <3>. QED  BY <1>2, <2>5, <3>1
  <2>7. sorted \in Seq(S)
    BY <2>2, <2>5, <2>6
  <2>. QED  BY <1>2, <1>4, <2>1, <2>2, <2>4, <2>7, ArrangesOneMore
<1>7. \A n \in 0..N : n \in Good
  <2>. HIDE DEF Good
  <2>. QED  BY <1>2, <1>5, <1>6, StepsUpTo
<1>8. N \in 0..N /\ f[N] \in Seq(Rows)
  BY <1>2, <1>3
<1>. QED  BY <1>3, <1>7, <1>8 DEF N

\* No row comes out of a sort that did not go in.
LEMMA SortKeepsRows ==
    ASSUME NEW rows \in Seq(Rows), NEW ob, Alike(Range(rows), ob.column)
    PROVE  /\ Len(StablySorted(rows, ob)) = Len(rows)
           /\ Range(StablySorted(rows, ob)) = Range(rows)
<1>. DEFINE sorted == StablySorted(rows, ob)
            N == Len(rows)
<1>1. PICK p \in [1..N -> 1..N] : Arranges(p, rows, N, sorted, ob)
  BY SortIsStable DEF Arrangements
<1>2. sorted \in Seq(Rows)
  BY SortIsStable
<1>3. DOMAIN rows = 1..N
  OBVIOUS
<1>. HIDE DEF sorted, N
<1>4. /\ Len(sorted) = N /\ \A i \in 1..N : sorted[i] = rows[p[i]]
      /\ \A m \in 1..N : \E i \in 1..N : p[i] = m
  BY <1>1 DEF Arranges
<1>5. DOMAIN sorted = 1..N
  BY <1>2, <1>4
<1>6. Range(sorted) \subseteq Range(rows)
  BY <1>3, <1>4, <1>5 DEF Range
<1>7. ASSUME NEW m \in 1..N PROVE \E i \in 1..N : sorted[i] = rows[m]
  <2>1. PICK i \in 1..N : p[i] = m
    BY <1>4
  <2>2. sorted[i] = rows[m]
    BY <1>4, <2>1
  <2>. QED  BY <2>2
<1>8. Range(rows) \subseteq Range(sorted)
  BY <1>3, <1>5, <1>7 DEF Range
<1>. QED  BY <1>4, <1>6, <1>8 DEF sorted, N

-----------------------------------------------------------------------------
(* Sorting by several columns.                                             *)

\* Whatever a sort does, rows come out of it.
LEMMA SortByTyped ==
    ASSUME NEW rows \in Seq(Rows), NEW ob
    PROVE  SortBy(rows, ob) \subseteq Seq(Rows)
<1>1. CASE IsOrder(rows, ob)
  <2>1. PICK f \in SortRuns(rows, ob) : TRUE
    BY SortSteps
  <2>2. StablySorted(rows, ob) \in Seq(Rows)
    BY <2>1 DEF SortRuns
  <2>. QED  BY <1>1, <2>2 DEF SortBy
<1>2. CASE ~IsOrder(rows, ob)
  <2>1. ASSUME NEW p \in SetToSeqs(DOMAIN rows)
        PROVE  [i \in DOMAIN rows |-> rows[p[i]]] \in Seq(Rows)
    <3>. DEFINE N == Len(rows)
    <3>1. N \in Nat /\ DOMAIN rows = 1..N
      OBVIOUS
    <3>. HIDE DEF N
    <3>2. Cardinality(1..N) = N
      BY <3>1, FS_Interval
    <3>3. p \in [1..N -> 1..N]
      BY <3>1, <3>2 DEF SetToSeqs
    <3>4. \A i \in 1..N : rows[p[i]] \in Rows
      BY <3>1, <3>3
    <3>. QED  BY <3>1, <3>4
  <2>. QED  BY <1>2, <2>1 DEF SortBy
<1>. QED  BY <1>1, <1>2

\* What may have come of the rows after each column, the last first.
OrderRuns(rows, obs) ==
    { f \in [0..Len(obs) -> SUBSET Seq(Rows)] :
        /\ f[0] = {rows}
        /\ f[Len(obs)] = OrderBy(rows, obs)
        /\ \A n \in 1..Len(obs) :
            f[n] = UNION { SortBy(out, obs[Len(obs) - n + 1]) : out \in f[n - 1] } }

\* Reverse(s) is s from its end.
LEMMA ReverseReverses ==
    ASSUME NEW R, NEW s \in Seq(R)
    PROVE  /\ Reverse(s) \in Seq(R) /\ Len(Reverse(s)) = Len(s)
           /\ \A n \in 1..Len(s) : Reverse(s)[n] = s[Len(s) - n + 1]
<1>1. Len(s) \in Nat
  OBVIOUS
<1>2. \A n \in 1..Len(s) : Len(s) - n + 1 \in 1..Len(s)
  BY <1>1
<1>. QED  BY <1>1, <1>2 DEF Reverse

\* query_table() sorts by one column after the other.
LEMMA OrderSteps ==
    ASSUME NEW R, NEW rows \in Seq(Rows), NEW obs \in Seq(R)
    PROVE  OrderRuns(rows, obs) # {}
<1>. DEFINE D == SUBSET Seq(Rows)
            seq == Reverse(obs)
            Op(outs, ob) == UNION { SortBy(out, ob) : out \in outs }
            step == [p \in D \X R |-> Op(p[1], p[2])]
            Rec(it) == [t \in SUBSET (DOMAIN seq) |->
                          IF t = {} THEN {rows} ELSE Op(it[t \ {Max(t)}], seq[Max(t)])]
            iter == CHOOSE it : it = Rec(it)
<1>0. seq \in Seq(R) /\ Len(seq) = Len(obs)
      /\ \A n \in 1..Len(obs) : seq[n] = obs[Len(obs) - n + 1]
  BY ReverseReverses
<1>1. step \in [D \X R -> D] /\ {rows} \in D
  BY SortByTyped
<1>2. \A outs \in D, ob \in R : step[<<outs, ob>>] = Op(outs, ob)
  OBVIOUS
<1>4. OrderBy(rows, obs) = iter[DOMAIN seq]
  BY DEF OrderBy, FoldLeft, MapThenFoldSet
<1>. HIDE DEF D, step, Op, seq
<1>3. iter = Rec(iter)
  <2>1. Iterators(D, {rows}, seq, step) # {}
    BY <1>0, <1>1, FoldIterates
  <2>2. PICK it \in Iterators(D, {rows}, seq, step) : TRUE
    BY <2>1
  <2>3. it = Rec(it)
    <3>. SUFFICES ASSUME NEW t \in SUBSET (DOMAIN seq), t # {}
                  PROVE  it[t] = Op(it[t \ {Max(t)}], seq[Max(t)])
      BY <2>2 DEF Iterators, Unfolds
    <3>1. seq[Max(t)] \in R
      BY <1>0, MaxInDomain
    <3>. QED  BY <1>2, <2>2, <3>1 DEF Iterators, Unfolds
  <2>. HIDE DEF Rec
  <2>. QED  BY <2>3
<1>. HIDE DEF iter
<1>5. Unfolds(iter, D, {rows}, seq, step)
  <2>1. ASSUME NEW t \in SUBSET (DOMAIN seq), t # {}, iter[t \ {Max(t)}] \in D
        PROVE  iter[t] = step[<<iter[t \ {Max(t)}], seq[Max(t)]>>]
    <3>1. seq[Max(t)] \in R
      BY <1>0, <2>1, MaxInDomain
    <3>2. iter[t] = Op(iter[t \ {Max(t)}], seq[Max(t)])
      BY <1>3, <2>1
    <3>. QED  BY <1>2, <2>1, <3>1, <3>2
  <2>. QED  BY <1>3, <2>1 DEF Unfolds
<1>6. PICK f \in Runs(D, {rows}, seq, step) : f[Len(seq)] = iter[DOMAIN seq]
  <2>. HIDE DEF Rec
  <2>1. iter[DOMAIN seq] \in Outcomes(D, {rows}, seq, step)
    BY <1>0, <1>1, <1>5, FoldAlong
  <2>. QED  BY <2>1 DEF Outcomes
<1>7. /\ f \in [0..Len(seq) -> D] /\ f[0] = {rows}
      /\ \A n \in 1..Len(seq) : f[n] = step[<<f[n - 1], seq[n]>>]
  BY <1>6 DEF Runs
<1>8. ASSUME NEW n \in 1..Len(obs) PROVE f[n] = Op(f[n - 1], obs[Len(obs) - n + 1])
  <2>0. Len(seq) \in Nat
    BY <1>0
  <2>1. f[n - 1] \in D /\ seq[n] \in R /\ f[n] = step[<<f[n - 1], seq[n]>>]
    <3>1. n \in 1..Len(seq) /\ n - 1 \in 0..Len(seq)
      BY <1>0, <2>0
    <3>2. seq[n] \in R
      BY <1>0, <3>1
    <3>. QED  BY <1>7, <3>1, <3>2
  <2>. QED  BY <1>0, <1>2, <2>1
<1>9. f \in OrderRuns(rows, obs)
  BY <1>0, <1>4, <1>6, <1>7, <1>8 DEF D, Op, OrderRuns
<1>. QED  BY <1>9

\* Rows in the order of the columns from the k-th on.
OrderedFrom(k, sorted, obs) ==
    \A i, j \in DOMAIN sorted : \A m \in k..Len(obs) :
        i < j /\ (\A l \in k..(m - 1) : CmpRows(sorted[i], sorted[j], obs[l]) = 0)
            => CmpRows(sorted[i], sorted[j], obs[m]) <= 0

\* Sorted by a column, they are in order from it on: those the column does not
\* tell apart stay in the order they had.
LEMMA OrderedFromOneMore ==
    ASSUME NEW rows \in Seq(Rows), NEW obs, NEW k \in Nat, Len(obs) \in Nat,
           NEW ob, ob = obs[k], Alike(Range(rows), ob.column), OrderedFrom(k + 1, rows, obs)
    PROVE  OrderedFrom(k, StablySorted(rows, ob), obs)
<1>. DEFINE sorted == StablySorted(rows, ob)
            N == Len(rows)
            S == Range(rows)
            r == Ranks(sorted, N, ob)
<1>1. PICK p \in [1..N -> 1..N] : Arranges(p, rows, N, sorted, ob)
  BY SortIsStable DEF Arrangements
<1>2. sorted \in Seq(Rows) /\ Range(sorted) = S
  BY SortIsStable, SortKeepsRows
<1>3. N \in Nat /\ DOMAIN rows = 1..N /\ S \in SUBSET Rows
  BY DEF Range
<1>4. Alike(S, ob.column)
  OBVIOUS
<1>5. \A i \in 1..N : r[i] = Rank(sorted[i], ob)
  BY DEF Ranks
<1>. HIDE DEF sorted, N, S, r
<1>6. Len(sorted) = N /\ (\A i \in 1..N : sorted[i] = rows[p[i]]) /\ Lexed(r, p, N)
  BY <1>1 DEF Arranges, r
<1>7. DOMAIN sorted = 1..N
  BY <1>2, <1>6
<1>. SUFFICES ASSUME NEW i \in 1..N, NEW j \in 1..N, i < j, NEW m \in k..Len(obs),
                     \A l \in k..(m - 1) : CmpRows(sorted[i], sorted[j], obs[l]) = 0
              PROVE  CmpRows(sorted[i], sorted[j], obs[m]) <= 0
  <2>. SUFFICES OrderedFrom(k, sorted, obs)
    BY DEF sorted
  <2>. QED  BY <1>7 DEF OrderedFrom
<1>. DEFINE a == sorted[i]
            b == sorted[j]
<1>8. a \in S /\ b \in S
  BY <1>2, <1>7 DEF Range
<1>9. r[i] = Rank(a, ob) /\ r[j] = Rank(b, ob)
  BY <1>5
<1>10. r[i] < r[j] \/ (r[i] = r[j] /\ p[i] < p[j])
  BY <1>6 DEF Lexed
<1>11. a = rows[p[i]] /\ b = rows[p[j]] /\ p[i] \in 1..N /\ p[j] \in 1..N
  BY <1>6
<1>. HIDE DEF a, b
<1>12. /\ Rank(a, ob) \in Int /\ Rank(b, ob) \in Int
       /\ CmpRows(a, b, ob) <= 0 <=> Rank(a, ob) <= Rank(b, ob)
       /\ CmpRows(a, b, ob) = 0 <=> Rank(a, ob) = Rank(b, ob)
  BY <1>3, <1>4, <1>8, CmpOrders
<1>13. CASE m = k
  <2>1. Rank(a, ob) <= Rank(b, ob)
    BY <1>9, <1>10, <1>12
  <2>. QED  BY <1>12, <1>13, <2>1 DEF a, b
<1>14. CASE m # k
  <2>1. m \in (k + 1)..Len(obs) /\ k \in k..(m - 1)
    BY <1>14
  <2>2. CmpRows(a, b, ob) = 0
    BY <2>1 DEF a, b
  <2>3. p[i] < p[j]
    BY <1>9, <1>10, <1>12, <2>2
  <2>4. \A l \in (k + 1)..(m - 1) : CmpRows(rows[p[i]], rows[p[j]], obs[l]) = 0
    BY <1>11 DEF a, b
  <2>5. CmpRows(rows[p[i]], rows[p[j]], obs[m]) <= 0
    BY <1>3, <1>11, <2>1, <2>3, <2>4 DEF OrderedFrom
  <2>. QED  BY <1>11, <2>5 DEF a, b
<1>. QED  BY <1>13, <1>14

\* Rows with comparable values in every column have one order.
Orders(rows, obs, k) ==
    { sorted \in Seq(Rows) : /\ Len(sorted) = Len(rows)
                             /\ Range(sorted) = Range(rows)
                             /\ OrderedFrom(k, sorted, obs) }

\* That order is lexicographic: OrderBy leaves nothing open.
LEMMA OrderlyOrders ==
    ASSUME NEW R, NEW rows \in Seq(Rows), NEW obs \in Seq(R), Orderly(rows, obs)
    PROVE  \E sorted \in Orders(rows, obs, 1) : OrderBy(rows, obs) = {sorted}
<1>. DEFINE K == Len(obs)
<1>1. PICK f \in OrderRuns(rows, obs) : TRUE
  BY OrderSteps
<1>2. K \in Nat
  OBVIOUS
<1>3. /\ f[0] = {rows} /\ f[K] = OrderBy(rows, obs)
      /\ \A n \in 1..K : f[n] = UNION { SortBy(out, obs[K - n + 1]) : out \in f[n - 1] }
  BY <1>1 DEF OrderRuns
<1>4. \A k \in 1..K : Alike(Range(rows), obs[k].column)
  <2>1. DOMAIN obs = 1..K
    OBVIOUS
  <2>. QED  BY <2>1, ComparableAlike DEF Orderly
<1>. HIDE DEF K
<1>. DEFINE Good == { n \in 0..K : \E out \in Orders(rows, obs, K + 1 - n) : f[n] = {out} }
<1>5. 0 \in Good
  <2>1. OrderedFrom(K + 1 - 0, rows, obs)
    BY <1>2 DEF OrderedFrom, K
  <2>2. rows \in Orders(rows, obs, K + 1 - 0)
    BY <2>1 DEF Orders
  <2>. QED  BY <1>2, <1>3, <2>2
<1>6. ASSUME NEW n \in 0..(K - 1), NEW out \in Orders(rows, obs, K + 1 - n), f[n] = {out}
      PROVE  \E new \in Orders(rows, obs, K + 1 - (n + 1)) : f[n + 1] = {new}
  <2>. DEFINE k == K - n
              ob == obs[k]
              new == StablySorted(out, ob)
  <2>1. k \in 1..K /\ k \in Nat /\ k + 1 = K + 1 - n /\ K + 1 - (n + 1) = k
        /\ K - (n + 1) + 1 = k /\ n + 1 \in 1..K /\ (n + 1) - 1 = n
    BY <1>2
  <2>2. f[n + 1] = UNION { SortBy(x, ob) : x \in {out} }
    <3>1. f[n + 1] = UNION { SortBy(x, obs[K - (n + 1) + 1]) : x \in f[(n + 1) - 1] }
      BY <1>3, <2>1
    <3>2. f[n + 1] = UNION { SortBy(x, obs[k]) : x \in f[n] }
      <4>. HIDE DEF k
      <4>. QED  BY <2>1, <3>1
    <3>. QED  BY <1>6, <3>2
  <2>3. ob = obs[k] /\ new = StablySorted(out, ob)
    OBVIOUS
  <2>. HIDE DEF k, ob, new
  <2>4. /\ out \in Seq(Rows) /\ Len(out) = Len(rows) /\ Range(out) = Range(rows)
        /\ OrderedFrom(k + 1, out, obs)
    BY <2>1 DEF Orders
  <2>5. Alike(Range(out), ob.column)
    BY <1>4, <2>1, <2>3, <2>4
  <2>6. f[n + 1] = {new}
    <3>1. SortBy(out, ob) = {new}
      BY <2>3, <2>4, <2>5, AlikeIsOrder
    <3>. QED  BY <2>2, <3>1
  <2>7. new \in Seq(Rows) /\ Len(new) = Len(rows) /\ Range(new) = Range(rows)
    BY <2>3, <2>4, <2>5, SortIsStable, SortKeepsRows
  <2>8. OrderedFrom(k, new, obs)
    BY <1>2, <2>1, <2>3, <2>4, <2>5, OrderedFromOneMore DEF K
  <2>9. new \in Orders(rows, obs, k)
    BY <2>7, <2>8 DEF Orders
  <2>. QED  BY <2>1, <2>6, <2>9
<1>7. \A n \in 0..K : n \in Good
  <2>. HIDE DEF Good
  <2>1. \A n \in 0..(K - 1) : n \in Good => n + 1 \in Good
    <3>1. \A n \in 0..(K - 1) : n + 1 \in 0..K
      BY <1>2
    <3>. QED  BY <1>6, <3>1 DEF Good
  <2>. QED  BY <1>2, <1>5, <2>1, StepsUpTo
<1>8. K \in 0..K /\ K + 1 - K = 1
  BY <1>2
<1>. QED  BY <1>3, <1>7, <1>8

\* Sorting by several columns one after the other sorts by the first, within it
\* by the second, and so on (query_table(), memory.rs).
THEOREM OrderByIsLexicographic == TablesSpec => []SortedByAllColumns
<1>1. TablesTypeOK => SortedByAllColumns
  <2>. SUFFICES ASSUME TablesTypeOK, NEW t \in DOMAIN tables, NEW q \in Queries,
                       Orderly(tables[t], q.order_by)
                PROVE  \A sorted \in OrderBy(tables[t], q.order_by) :
                          OrderedFrom(1, sorted, q.order_by)
    <3>1. \A q \in Queries : q.order_by \in Seq(Range(q.order_by))
      BY QueriesAssumption
    <3>2. \A q \in Queries : DOMAIN q.order_by = 1..Len(q.order_by)
      BY <3>1
    <3>. QED  BY <3>2 DEF SortedByAllColumns, OrderedFrom
  <2>. DEFINE rows == tables[t]
              obs == q.order_by
              R == Range(q.order_by)
  <2>1. rows \in Seq(Rows) /\ obs \in Seq(R) /\ Orderly(rows, obs)
    BY QueriesAssumption DEF TablesTypeOK
  <2>. HIDE DEF rows, obs, R
  <2>2. \E sorted \in Orders(rows, obs, 1) : OrderBy(rows, obs) = {sorted}
    BY <2>1, OrderlyOrders
  <2>3. \A sorted \in OrderBy(rows, obs) : OrderedFrom(1, sorted, obs)
    BY <2>2 DEF Orders
  <2>. QED  BY <2>3 DEF rows, obs
<1>. QED  BY <1>1, TablesTypeCorrect, PTL

-----------------------------------------------------------------------------
(* Pages.                                                                  *)

\* FlattenSeq puts one sequence after the other.
LEMMA FlattenSteps ==
    ASSUME NEW R, NEW seqs \in Seq(Seq(R)), NEW K \in Nat \ {0}, Len(seqs) = K,
           NEW G \in [1..K -> Seq(R)], G[1] = seqs[1],
           \A k \in 2..K : G[k] = G[k - 1] \o seqs[k]
    PROVE  FlattenSeq(seqs) = G[K]
<1>. DEFINE Rec(g) == [i \in 1..K |-> IF i = 1 THEN seqs[i] ELSE g[i - 1] \o seqs[i]]
            flatten == CHOOSE g : g = Rec(g)
<1>1. FlattenSeq(seqs) = flatten[K]
  BY DEF FlattenSeq
<1>2. G = Rec(G)
  <2>1. ASSUME NEW k \in 1..K PROVE G[k] = Rec(G)[k]
    <3>1. CASE k = 1
      BY <3>1
    <3>2. CASE k # 1
      <4>1. k \in 2..K
        BY <3>2
      <4>. QED  BY <3>2, <4>1
    <3>. QED  BY <3>1, <3>2
  <2>. HIDE DEF Rec
  <2>2. Rec(G) = [k \in 1..K |-> Rec(G)[k]]
    BY DEF Rec
  <2>. QED  BY <2>1, <2>2
<1>3. flatten = Rec(flatten)
  <2>. HIDE DEF Rec
  <2>. QED  BY <1>2
<1>4. flatten[1] = seqs[1] /\ \A k \in 2..K : flatten[k] = flatten[k - 1] \o seqs[k]
  <2>. HIDE DEF flatten
  <2>1. \A k \in 1..K : flatten[k] = IF k = 1 THEN seqs[k] ELSE flatten[k - 1] \o seqs[k]
    BY <1>3
  <2>2. flatten[1] = seqs[1]
    <3>1. 1 \in 1..K
      OBVIOUS
    <3>. QED  BY <2>1, <3>1
  <2>3. \A k \in 2..K : k \in 1..K /\ k # 1
    OBVIOUS
  <2>. QED  BY <2>1, <2>2, <2>3
<1>. HIDE DEF flatten
<1>. DEFINE Same == { n \in 0..(K - 1) : flatten[n + 1] = G[n + 1] }
<1>5. 0 \in Same
  <2>1. 0 + 1 = 1 /\ 0 \in 0..(K - 1)
    OBVIOUS
  <2>. QED  BY <1>4, <2>1
<1>6. \A n \in 0..((K - 1) - 1) : n \in Same => n + 1 \in Same
  <2>. SUFFICES ASSUME NEW n \in 0..(K - 2), flatten[n + 1] = G[n + 1]
                PROVE  flatten[(n + 1) + 1] = G[(n + 1) + 1]
    OBVIOUS
  <2>1. (n + 1) + 1 \in 2..K /\ ((n + 1) + 1) - 1 = n + 1
    OBVIOUS
  <2>. QED  BY <1>4, <2>1
<1>7. \A n \in 0..(K - 1) : n \in Same
  <2>. HIDE DEF Same
  <2>1. K - 1 \in Nat
    OBVIOUS
  <2>. QED  BY <1>5, <1>6, <2>1, StepsUpTo
<1>8. K - 1 \in 0..(K - 1) /\ (K - 1) + 1 = K
  OBVIOUS
<1>9. flatten[(K - 1) + 1] = G[(K - 1) + 1]
  BY <1>7, <1>8
<1>. QED  BY <1>1, <1>8, <1>9

\* The last row of the first ones up to n, of L rows.
UpTo(n, L) == IF n <= L THEN n ELSE L

\* A page is the rows after those of the pages before.
LEMMA PageIsPart ==
    ASSUME NEW R, NEW rows \in Seq(R), NEW o \in Nat, NEW n \in Nat \ {0}
    PROVE  Page(rows, o, n) = SubSeq(rows, UpTo(o, Len(rows)) + 1, UpTo(o + n, Len(rows)))
<1>. DEFINE L == Len(rows)
            rest == SubSeq(rows, o + 1, L)
<1>1. L \in Nat
  OBVIOUS
<1>2. Page(rows, o, n) = Cut(rest, n)
  BY QueriesAssumption DEF Page, Skipped
<1>3. Cut(rest, n) = IF Len(rest) <= n THEN rest ELSE SubSeq(rest, 1, n)
  BY QueriesAssumption DEF Cut
<1>4. rows \in Seq(R) /\ L = Len(rows) /\ rest = SubSeq(rows, o + 1, L)
  OBVIOUS
<1>. HIDE DEF L, rest
<1>5. CASE o >= L
  <2>1. rest = <<>>
    BY <1>1, <1>4, <1>5, SubSeqEmpty
  <2>2. Len(rest) = 0
    BY <2>1
  <2>3. UpTo(o, L) = L /\ UpTo(o + n, L) = L
    BY <1>1, <1>5 DEF UpTo
  <2>4. SubSeq(rows, L + 1, L) = <<>>
    BY <1>1, SubSeqEmpty
  <2>. QED  BY <1>2, <1>3, <1>4, <2>1, <2>2, <2>3, <2>4
<1>6. CASE o < L
  <2>1. Len(rest) = L - o
    BY <1>1, <1>4, <1>6
  <2>2. UpTo(o, L) = o
    BY <1>1, <1>6 DEF UpTo
  <2>3. CASE L - o <= n
    <3>1. UpTo(o + n, L) = L
      BY <1>1, <2>3 DEF UpTo
    <3>. QED  BY <1>2, <1>3, <1>4, <2>1, <2>2, <2>3, <3>1
  <2>4. CASE L - o > n
    <3>1. UpTo(o + n, L) = o + n
      BY <1>1, <2>4 DEF UpTo
    <3>2. SubSeq(rest, 1, n) = SubSeq(rows, o + 1, o + n)
      <4>. DEFINE p == SubSeq(rest, 1, n)
                  w == SubSeq(rows, o + 1, o + n)
      <4>1. \A i \in 1..n : rest[i] = rows[o + i]
        BY <1>1, <1>4, <1>6, <2>4
      <4>2. p = [i \in 1..n |-> rest[i]]
        BY <2>1, <2>4
      <4>3. w = [i \in 1..n |-> rows[o + i]]
        BY <1>1, <1>4, <2>4
      <4>. HIDE DEF p, w
      <4>4. p = w
        BY <4>1, <4>2, <4>3
      <4>. QED  BY <4>4 DEF p, w
    <3>. QED  BY <1>2, <1>3, <1>4, <2>1, <2>2, <2>4, <3>1, <3>2
  <2>. QED  BY <1>1, <2>3, <2>4
<1>. QED  BY <1>1, <1>5, <1>6

\* A page more is n rows more.
LEMMA PagesReach ==
    ASSUME NEW n \in Nat \ {0}, NEW K \in Nat
    PROVE  /\ \A k \in 0..K : k * n \in Nat /\ k * n >= k
           /\ \A k \in 1..K : (k - 1) * n \in Nat /\ k * n = (k - 1) * n + n
<1>1. \A k \in Nat : k * n \in Nat
  OBVIOUS
<1>2. \A k \in Nat : (k + 1) * n = k * n + n
  OBVIOUS
<1>3. 0 * n = 0
  OBVIOUS
<1>. DEFINE Far == { k \in 0..K : k * n >= k }
<1>4. 0 \in Far
  BY <1>3
<1>5. \A k \in 0..(K - 1) : k \in Far => k + 1 \in Far
  <2>. SUFFICES ASSUME NEW k \in 0..(K - 1), k * n >= k PROVE (k + 1) * n >= k + 1
    OBVIOUS
  <2>. DEFINE a == k * n
              b == (k + 1) * n
  <2>1. k \in Nat /\ a \in Nat /\ b = a + n /\ a >= k
    BY <1>1, <1>2
  <2>. HIDE DEF a, b
  <2>2. b >= k + 1
    BY <2>1
  <2>. QED  BY <2>2 DEF b
<1>6. \A k \in 0..K : k \in Far
  <2>. HIDE DEF Far
  <2>. QED  BY <1>4, <1>5, StepsUpTo
<1>7. ASSUME NEW k \in 1..K PROVE (k - 1) * n \in Nat /\ k * n = (k - 1) * n + n
  <2>. DEFINE l == k - 1
  <2>1. l \in Nat /\ k = l + 1
    OBVIOUS
  <2>. HIDE DEF l
  <2>2. l * n \in Nat /\ (l + 1) * n = l * n + n
    BY <1>1, <1>2, <2>1
  <2>. QED  BY <2>1, <2>2 DEF l
<1>8. \A k \in 0..K : k * n \in Nat /\ k * n >= k
  BY <1>1, <1>6
<1>. QED  BY <1>7, <1>8

\* Enough pages of n rows, one after the other, are all of them.
LEMMA PagesFlatten ==
    ASSUME NEW R, NEW rows \in Seq(R), NEW n \in Nat \ {0}, NEW K \in Nat \ {0}, Len(rows) <= K,
           NEW pages \in Seq(Seq(R)), Len(pages) = K,
           \A k \in 1..K : pages[k] = Page(rows, (k - 1) * n, n)
    PROVE  FlattenSeq(pages) = rows
<1>. DEFINE L == Len(rows)
            end(k) == UpTo(k * n, L)
            G == [k \in 1..K |-> SubSeq(rows, 1, end(k))]
<1>1. /\ \A k \in 0..K : k * n \in Nat /\ k * n >= k
      /\ \A k \in 1..K : (k - 1) * n \in Nat /\ k * n = (k - 1) * n + n
  BY PagesReach
<1>2. L \in Nat /\ K \in Nat
  OBVIOUS
<1>3. \A k \in 0..K : end(k) \in 0..L
  BY <1>1, <1>2 DEF UpTo
<1>4. \A k \in 1..K : end(k - 1) \in 0..L /\ end(k - 1) <= end(k)
  BY <1>1, <1>2 DEF UpTo
<1>5. end(K) = L
  <2>. DEFINE e == K * n
  <2>1. e \in Nat /\ e >= K /\ L <= K
    BY <1>1, <1>2
  <2>2. end(K) = UpTo(e, L)
    OBVIOUS
  <2>. HIDE DEF e, end, L
  <2>3. UpTo(e, L) = L
    BY <1>2, <2>1 DEF UpTo
  <2>. QED  BY <2>2, <2>3
<1>6. end(0) = 0
  BY <1>2 DEF UpTo
<1>7. ASSUME NEW k \in 1..K PROVE pages[k] = SubSeq(rows, end(k - 1) + 1, end(k))
  <2>. DEFINE o == (k - 1) * n
  <2>1. o \in Nat /\ k * n = o + n /\ pages[k] = Page(rows, o, n)
    BY <1>1
  <2>. HIDE DEF o
  <2>2. Page(rows, o, n) = SubSeq(rows, UpTo(o, Len(rows)) + 1, UpTo(o + n, Len(rows)))
    BY <2>1, PageIsPart
  <2>. QED  BY <2>1, <2>2 DEF o
<1>. HIDE DEF end
<1>8. \A k \in 1..K : k \in 0..K
  OBVIOUS
<1>9. G \in [1..K -> Seq(R)]
  <2>1. ASSUME NEW k \in 1..K PROVE SubSeq(rows, 1, end(k)) \in Seq(R)
    <3>. DEFINE e == end(k)
    <3>1. e \in 0..L
      BY <1>3, <1>8
    <3>. HIDE DEF e
    <3>2. SubSeq(rows, 1, e) \in Seq(R)
      BY <3>1
    <3>. QED  BY <3>2 DEF e
  <2>. QED  BY <2>1
<1>10. \A k \in 1..K : G[k] = SubSeq(rows, 1, end(k))
  OBVIOUS
<1>. HIDE DEF G, L
<1>11. G[1] = pages[1]
  <2>1. 1 \in 1..K /\ 1 - 1 = 0 /\ 0 + 1 = 1
    BY <1>2
  <2>2. pages[1] = SubSeq(rows, end(1 - 1) + 1, end(1))
    BY <1>7, <2>1
  <2>3. pages[1] = SubSeq(rows, 1, end(1))
    BY <1>6, <2>1, <2>2
  <2>. QED  BY <1>10, <2>1, <2>3
<1>12. ASSUME NEW k \in 2..K PROVE G[k] = G[k - 1] \o pages[k]
  <2>. DEFINE a == end(k - 1)
              b == end(k)
  <2>1. k \in 1..K /\ k - 1 \in 1..K
    BY <1>2
  <2>2. a \in 0..L /\ b \in 0..L /\ a <= b
    BY <1>3, <1>4, <1>8, <2>1
  <2>3. G[k] = SubSeq(rows, 1, b) /\ G[k - 1] = SubSeq(rows, 1, a)
    BY <1>10, <2>1
  <2>4. pages[k] = SubSeq(rows, a + 1, b)
    BY <1>7, <2>1
  <2>. HIDE DEF a, b
  <2>5. 1 \in 1..(Len(rows) + 1) /\ a \in (1 - 1)..Len(rows) /\ b \in a..Len(rows)
    BY <1>2, <2>2 DEF L
  <2>6. SubSeq(rows, 1, a) \o SubSeq(rows, a + 1, b) = SubSeq(rows, 1, b)
    BY <2>5, ConcatAdjacentSubSeq
  <2>. QED  BY <2>3, <2>4, <2>6
<1>13. FlattenSeq(pages) = G[K]
  BY <1>9, <1>11, <1>12, FlattenSteps
<1>14. G[K] = SubSeq(rows, 1, L)
  BY <1>5, <1>10
<1>. QED  BY <1>13, <1>14, SubSeqFull DEF L

\* The rows as project_row() shows them.
Shown(rows, columns) == [i \in DOMAIN rows |-> Project(rows[i], columns)]
Showable(columns) == { Project(row, columns) : row \in Rows }

\* Showing a page is taking a page of what is shown.
LEMMA ShownPage ==
    ASSUME NEW rows \in Seq(Rows), NEW columns, NEW o \in Nat, NEW n \in Nat \ {0}
    PROVE  /\ Shown(rows, columns) \in Seq(Showable(columns))
           /\ Len(Shown(rows, columns)) = Len(rows)
           /\ Shown(Page(rows, o, n), columns) = Page(Shown(rows, columns), o, n)
<1>. DEFINE shown == Shown(rows, columns)
            R == Showable(columns)
            L == Len(rows)
            a == UpTo(o, L)
            b == UpTo(o + n, L)
<1>1. L \in Nat /\ DOMAIN rows = 1..L
  OBVIOUS
<1>2. shown = [i \in 1..L |-> Project(rows[i], columns)]
  BY <1>1 DEF Shown
<1>3. \A i \in 1..L : Project(rows[i], columns) \in R
  BY <1>1 DEF Showable
<1>. HIDE DEF R
<1>4. shown \in Seq(R) /\ Len(shown) = L
  BY <1>1, <1>2, <1>3
<1>5. a \in 0..L /\ b \in 0..L /\ a <= b
  BY <1>1 DEF UpTo
<1>6. Page(rows, o, n) = SubSeq(rows, a + 1, b)
  BY PageIsPart
<1>. HIDE DEF shown
<1>7. Page(shown, o, n) = SubSeq(shown, a + 1, b)
  BY <1>4, PageIsPart
<1>. HIDE DEF a, b, L
<1>. DEFINE part == SubSeq(rows, a + 1, b)
            l == b - a
<1>8. l \in Nat /\ \A i \in 1..l : a + i \in 1..L
  BY <1>1, <1>5
<1>9. DOMAIN part = 1..l /\ \A i \in 1..l : part[i] = rows[a + i]
  BY <1>1, <1>5, <1>8 DEF L
<1>10. SubSeq(shown, a + 1, b) = [i \in 1..l |-> shown[a + i]]
  BY <1>4, <1>5, <1>8
<1>11. \A i \in 1..l : shown[a + i] = Project(rows[a + i], columns)
  BY <1>2, <1>8
<1>. HIDE DEF part, l
<1>12. Shown(part, columns) = [i \in 1..l |-> Project(rows[a + i], columns)]
  BY <1>9 DEF Shown
<1>13. Shown(part, columns) = SubSeq(shown, a + 1, b)
  BY <1>10, <1>11, <1>12
<1>. QED  BY <1>4, <1>6, <1>7, <1>13 DEF part, shown, R, L

\* The part of ShownPage that the pages need.
LEMMA ShownPaged ==
    ASSUME NEW rows \in Seq(Rows), NEW columns, NEW o \in Nat, NEW n \in Nat \ {0}
    PROVE  Shown(Page(rows, o, n), columns) = Page(Shown(rows, columns), o, n)
BY ShownPage

\* A query that asks for a part of the answer, and the one answer to it when the
\* rows have one order.
Asking(q, offset, limit) == [q EXCEPT !.offset = offset, !.limit = limit]
HasOne(all, one) == all = {one}
Answer(sorted, columns, offset, limit) ==
    [total |-> Len(sorted), rows |-> Shown(Page(sorted, offset, limit), columns)]

\* A table in one order has one answer to each part asked for.
LEMMA OneResult ==
    ASSUME NEW rows, NEW q \in Queries, NEW offset, NEW limit, NEW sorted,
           HasOne(OrderBy(Selected(rows, q.filter), q.order_by), sorted)
    PROVE  HasOne(Results(rows, Asking(q, offset, limit)), Answer(sorted, q.columns, offset, limit))
<1>. DEFINE r == Asking(q, offset, limit)
<1>1. /\ r.filter = q.filter /\ r.order_by = q.order_by /\ r.columns = q.columns
      /\ r.offset = offset /\ r.limit = limit
  BY QueriesAssumption DEF Asking
<1>. HIDE DEF r
<1>2. Results(rows, r) = { Answer(x, r.columns, r.offset, r.limit)
                           : x \in OrderBy(Selected(rows, r.filter), r.order_by) }
  BY DEF Results, Answer, Shown
<1>3. Results(rows, r) = { Answer(x, q.columns, offset, limit) : x \in {sorted} }
  BY <1>1, <1>2 DEF HasOne
<1>4. Results(rows, r) = { Answer(sorted, q.columns, offset, limit) }
  BY <1>3
<1>. QED  BY <1>4 DEF r, HasOne

\* PagesMakeTheAnswer, for one table, query and size of the pages.
LEMMA OrderlyPagesMake ==
    ASSUME NEW rows \in Seq(Rows), Len(rows) <= MaxRows, NEW q \in Queries,
           NEW n \in 1..MaxRows, Orderly(Selected(rows, q.filter), q.order_by)
    PROVE  LET page(k) == Results(rows, [q EXCEPT !.offset = (k - 1) * n, !.limit = n])
               whole == Results(rows, [q EXCEPT !.offset = None, !.limit = None])
           IN  /\ \A k \in 1..MaxRows : Cardinality(page(k)) = 1
               /\ \E all \in whole :
                    /\ whole = {all}
                    /\ FlattenSeq([k \in 1..MaxRows |-> (CHOOSE p \in page(k) : TRUE).rows])
                          = all.rows
                    /\ \A k \in 1..MaxRows : \A p \in page(k) : p.total = all.total
<1>. DEFINE selected == Selected(rows, q.filter)
            obs == q.order_by
            R == Range(q.order_by)
            K == MaxRows
<1>1. K \in Nat \ {0} /\ n \in Nat \ {0}
  BY MaxRowsAssumption
<1>2. selected \in Seq(Rows) /\ Len(selected) <= K
  <2>. DEFINE S == { row \in Range(rows) : q.filter = None \/ MatchesFilter(row, q.filter) }
  <2>1. selected = Kept(rows, S)
    BY DEF Selected
  <2>. HIDE DEF S, selected
  <2>2. Kept(rows, S) \in Seq(Rows) /\ Len(Kept(rows, S)) <= Len(rows)
    BY KeptShorter
  <2>3. Len(rows) \in Nat /\ Len(selected) \in Nat
    BY <2>1, <2>2
  <2>. QED  BY <1>1, <2>1, <2>2, <2>3
<1>3. obs \in Seq(R) /\ Orderly(selected, obs)
  BY QueriesAssumption
<1>. HIDE DEF selected, obs, R
<1>4. PICK sorted \in Orders(selected, obs, 1) : OrderBy(selected, obs) = {sorted}
  BY <1>2, <1>3, OrderlyOrders
<1>5. sorted \in Seq(Rows) /\ Len(sorted) <= K
  BY <1>2, <1>4 DEF Orders
<1>6. ASSUME NEW offset, NEW limit
      PROVE  Results(rows, [q EXCEPT !.offset = offset, !.limit = limit])
                = { Answer(sorted, q.columns, offset, limit) }
  <2>1. HasOne(OrderBy(Selected(rows, q.filter), q.order_by), sorted)
    BY <1>4 DEF selected, obs, HasOne
  <2>2. HasOne(Results(rows, Asking(q, offset, limit)), Answer(sorted, q.columns, offset, limit))
    BY <2>1, OneResult
  <2>. QED  BY <2>2 DEF Asking, HasOne
<1>. DEFINE shown == Shown(sorted, q.columns)
            C == Showable(q.columns)
            one(k) == Answer(sorted, q.columns, (k - 1) * n, n)
            pages == [k \in 1..K |-> one(k).rows]
            page(k) == Results(rows, [q EXCEPT !.offset = (k - 1) * n, !.limit = n])
            all == Answer(sorted, q.columns, None, None)
            whole == Results(rows, [q EXCEPT !.offset = None, !.limit = None])
<1>7. shown \in Seq(C) /\ Len(shown) = Len(sorted)
  <2>1. 0 \in Nat /\ 1 \in Nat \ {0}
    OBVIOUS
  <2>. QED  BY <1>5, <2>1, ShownPage
<1>8. ASSUME NEW k \in 1..K PROVE pages[k] = Page(shown, (k - 1) * n, n) /\ pages[k] \in Seq(C)
  <2>. DEFINE o == (k - 1) * n
              p == Page(shown, o, n)
  <2>1. o \in Nat
    BY <1>1, PagesReach
  <2>2. pages[k] = Shown(Page(sorted, o, n), q.columns)
    BY DEF Answer
  <2>. HIDE DEF o, shown, pages
  <2>3. pages[k] = p
    <3>1. Shown(Page(sorted, o, n), q.columns) = Page(Shown(sorted, q.columns), o, n)
      <4>. DEFINE columns == q.columns
      <4>. HIDE DEF columns, p, K, C, one, page, all, whole
      <4>1. Shown(Page(sorted, o, n), columns) = Page(Shown(sorted, columns), o, n)
        <5>1. sorted \in Seq(Rows)
          BY <1>5
        <5>2. n \in Nat \ {0}
          BY <1>1
        <5>. QED  BY <2>1, <5>1, <5>2, ShownPaged, Zenon
      <4>. QED  BY <4>1 DEF columns
    <3>. QED  BY <2>2, <3>1 DEF shown
  <2>4. p = SubSeq(shown, UpTo(o, Len(shown)) + 1, UpTo(o + n, Len(shown)))
    BY <1>1, <1>7, <2>1, PageIsPart
  <2>. DEFINE a == UpTo(o, Len(shown))
              b == UpTo(o + n, Len(shown))
  <2>5. a \in 0..Len(shown) /\ b \in 0..Len(shown)
    <3>1. Len(shown) \in Nat
      BY <1>7
    <3>. QED  BY <1>1, <2>1, <3>1 DEF UpTo
  <2>. HIDE DEF a, b
  <2>6. SubSeq(shown, a + 1, b) \in Seq(C)
    BY <1>7, <2>5
  <2>. QED  BY <2>3, <2>4, <2>6 DEF a, b, o
<1>9. pages \in Seq(Seq(C)) /\ Len(pages) = K
  <2>1. \A k \in 1..K : pages[k] \in Seq(C)
    BY <1>8
  <2>2. pages = [k \in 1..K |-> pages[k]]
    OBVIOUS
  <2>. DEFINE D == Seq(C)
  <2>3. \A k \in 1..K : pages[k] \in D
    BY <2>1
  <2>. HIDE DEF pages, C, D
  <2>4. pages \in Seq(D) /\ Len(pages) = K
    BY <1>1, <2>2, <2>3
  <2>. QED  BY <2>4 DEF D
<1>10. FlattenSeq(pages) = shown
  <2>1. Len(shown) <= K
    BY <1>5, <1>7
  <2>2. \A k \in 1..K : pages[k] = Page(shown, (k - 1) * n, n)
    BY <1>8
  <2>. HIDE DEF pages, shown
  <2>. QED  BY <1>1, <1>7, <1>9, <2>1, <2>2, PagesFlatten
<1>11. all.rows = shown /\ all.total = Len(sorted)
  BY DEF Answer, Page, Cut, Skipped
<1>12. \A k \in 1..K : page(k) = {one(k)}
  BY <1>6
<1>13. whole = {all}
  BY <1>6
<1>14. \A k \in 1..K : one(k).total = Len(sorted)
  BY DEF Answer
<1>15. pages = [k \in 1..K |-> one(k).rows]
  OBVIOUS
<1>. HIDE DEF one, all, whole, page, pages, shown
<1>16. \A k \in 1..K : Cardinality(page(k)) = 1
  BY <1>12, FS_Singleton
<1>17. \A k \in 1..K : (CHOOSE p \in page(k) : TRUE) = one(k)
  BY <1>12
<1>18. FlattenSeq([k \in 1..K |-> (CHOOSE p \in page(k) : TRUE).rows]) = all.rows
  <2>1. [k \in 1..K |-> (CHOOSE p \in page(k) : TRUE).rows] = pages
    <3>. DEFINE pick(k) == CHOOSE p \in page(k) : TRUE
    <3>1. \A k \in 1..K : pick(k) = one(k)
      BY <1>17
    <3>. HIDE DEF pick
    <3>2. [k \in 1..K |-> pick(k).rows] = pages
      BY <1>15, <3>1
    <3>. QED  BY <3>2 DEF pick
  <2>. QED  BY <1>10, <1>11, <2>1
<1>19. /\ all \in whole /\ whole = {all}
       /\ \A k \in 1..K : \A p \in page(k) : p.total = all.total
  BY <1>11, <1>12, <1>13, <1>14
<1>20. \E a \in whole :
        /\ whole = {a}
        /\ FlattenSeq([k \in 1..K |-> (CHOOSE p \in page(k) : TRUE).rows]) = a.rows
        /\ \A k \in 1..K : \A p \in page(k) : p.total = a.total
  BY <1>18, <1>19
<1>. QED  BY <1>16, <1>20 DEF page, whole

\* Reading a table page by page shows every row of the whole answer once and in
\* its order, and the same total on each page (query_table(), memory.rs), for
\* pages of any size.
THEOREM PagesAreTheAnswer == TablesSpec => []PagesMakeTheAnswer
<1>1. TablesTypeOK => PagesMakeTheAnswer
  <2>1. TablesTypeOK => \A t \in DOMAIN tables : tables[t] \in Seq(Rows) /\ Len(tables[t]) <= MaxRows
    BY DEF TablesTypeOK
  <2>. QED  BY <2>1, OrderlyPagesMake DEF PagesMakeTheAnswer
<1>. QED  BY <1>1, TablesTypeCorrect, PTL

-----------------------------------------------------------------------------
(* Filters and the order of a column.                                      *)

\* One row more at the end is placed among the others, sorted.
LEMMA SortAppend ==
    ASSUME NEW rows \in Seq(Rows), NEW row \in Rows, NEW ob
    PROVE  StablySorted(Append(rows, row), ob) = Place(StablySorted(rows, ob), row, ob)
<1>. DEFINE more == Append(rows, row)
            N == Len(rows)
<1>1. /\ N \in Nat /\ more \in Seq(Rows) /\ Len(more) = N + 1
      /\ more[N + 1] = row /\ \A n \in 1..N : more[n] = rows[n]
  OBVIOUS
<1>. HIDE DEF more
<1>2. PICK f \in SortRuns(rows, ob) : TRUE
  BY SortSteps
<1>3. PICK g \in SortRuns(more, ob) : TRUE
  BY <1>1, SortSteps
<1>. DEFINE Same == { n \in 0..N : g[n] = f[n] }
<1>4. \A n \in 0..N : n \in Same
  <2>1. 0 \in Same
    BY <1>1, <1>2, <1>3 DEF SortRuns
  <2>2. \A n \in 0..(N - 1) : n \in Same => n + 1 \in Same
    <3>. SUFFICES ASSUME NEW n \in 0..(N - 1), g[n] = f[n] PROVE g[n + 1] = f[n + 1]
      BY <1>1
    <3>1. n + 1 \in 1..N /\ n + 1 \in 1..Len(more) /\ (n + 1) - 1 = n
      BY <1>1
    <3>2. f[n + 1] = Place(f[n], rows[n + 1], ob)
      BY <1>2, <3>1 DEF SortRuns
    <3>3. g[n + 1] = Place(g[n], more[n + 1], ob)
      BY <1>3, <3>1 DEF SortRuns
    <3>. QED  BY <1>1, <3>1, <3>2, <3>3
  <2>. HIDE DEF Same, N
  <2>. QED  BY <1>1, <2>1, <2>2, StepsUpTo
<1>5. g[N] = StablySorted(rows, ob)
  BY <1>1, <1>2, <1>4 DEF SortRuns
<1>6. N + 1 \in 1..Len(more) /\ (N + 1) - 1 = N
  BY <1>1
<1>7. g[N + 1] = Place(g[N], row, ob)
  BY <1>1, <1>3, <1>6 DEF SortRuns
<1>8. g[N + 1] = StablySorted(more, ob)
  BY <1>1, <1>3 DEF SortRuns
<1>. QED  BY <1>5, <1>7, <1>8 DEF more

\* What comes out of a sort is in order, and nothing new.
LEMMA SortedInOrder ==
    ASSUME NEW S \in SUBSET Rows, NEW ob, Alike(S, ob.column), NEW rows \in Seq(S)
    PROVE  /\ StablySorted(rows, ob) \in Seq(S)
           /\ InOrder(StablySorted(rows, ob), ob)
<1>. DEFINE sorted == StablySorted(rows, ob)
            N == Len(rows)
<1>1. rows \in Seq(Rows) /\ Range(rows) \in SUBSET S
  BY DEF Range
<1>2. Alike(Range(rows), ob.column)
  BY <1>1 DEF Alike
<1>3. sorted \in Seq(Rows) /\ Arrangements(rows, N, sorted, ob) # {}
  BY <1>1, <1>2, SortIsStable
<1>4. Range(sorted) \subseteq S
  BY <1>1, <1>2, SortKeepsRows
<1>. HIDE DEF sorted, N
<1>5. PICK p \in [1..N -> 1..N] : Arranges(p, rows, N, sorted, ob)
  BY <1>3 DEF Arrangements
<1>6. Len(sorted) = N /\ DOMAIN sorted = 1..N /\ Lexed(Ranks(sorted, N, ob), p, N)
  BY <1>3, <1>5 DEF Arranges
<1>7. \A i \in 1..N : sorted[i] \in S
  BY <1>4, <1>6 DEF Range
<1>8. \A i \in 1..N : Rank(sorted[i], ob) \in Int
  BY <1>7, RankedAlike
<1>9. ASSUME NEW i \in 1..N, NEW j \in 1..N, i < j
      PROVE  Rank(sorted[i], ob) <= Rank(sorted[j], ob)
  <2>. DEFINE r == Ranks(sorted, N, ob)
  <2>1. r[i] = Rank(sorted[i], ob) /\ r[j] = Rank(sorted[j], ob)
    BY DEF Ranks
  <2>. HIDE DEF r
  <2>2. r[i] < r[j] \/ r[i] = r[j]
    BY <1>6, <1>9 DEF Lexed, r
  <2>. QED  BY <1>8, <2>1, <2>2
<1>10. InOrder(sorted, ob)
  BY <1>6, <1>9 DEF InOrder
<1>11. sorted \in Seq(S)
  BY <1>3, <1>6, <1>7
<1>. QED  BY <1>10, <1>11 DEF sorted

\* A row put in the first of two parts.
LEMMA InsertedLow ==
    ASSUME NEW low \in Seq(Rows), NEW high \in Seq(Rows), NEW c \in 0..Len(low), NEW row \in Rows
    PROVE  Inserted(low \o high, c, row) = Inserted(low, c, row) \o high
<1>. DEFINE both == low \o high
            part == Inserted(low, c, row)
            a == Len(low)
            b == Len(high)
<1>1. /\ both \in Seq(Rows) /\ Len(both) = a + b
      /\ \A i \in 1..(a + b) : both[i] = IF i <= a THEN low[i] ELSE high[i - a]
  BY ConcatProperties
<1>2. a \in Nat /\ b \in Nat /\ c \in 0..a
  OBVIOUS
<1>. HIDE DEF both
<1>3. /\ part \in Seq(Rows) /\ Len(part) = a + 1
      /\ part = Shifted(low, a, c, row)
  BY InsertedAt, InsertedShifts
<1>4. c \in 0..Len(both)
  BY <1>1, <1>2
<1>5. Inserted(both, c, row) = Shifted(both, a + b, c, row)
  BY <1>1, <1>4, InsertedShifts
<1>. DEFINE all == part \o high
<1>. HIDE DEF part
<1>6. /\ all \in Seq(Rows) /\ Len(all) = (a + 1) + b
      /\ \A i \in 1..((a + 1) + b) : all[i] = IF i <= a + 1 THEN part[i] ELSE high[i - (a + 1)]
  <2>1. part \in Seq(Rows) /\ high \in Seq(Rows)
    BY <1>3
  <2>2. /\ all \in Seq(Rows) /\ Len(all) = Len(part) + Len(high)
        /\ \A i \in 1..(Len(part) + Len(high)) :
              all[i] = IF i <= Len(part) THEN part[i] ELSE high[i - Len(part)]
    BY <2>1, ConcatProperties
  <2>. HIDE DEF all
  <2>. QED  BY <1>3, <2>2
<1>. HIDE DEF all, a, b
<1>7. ASSUME NEW i \in 1..((a + b) + 1) PROVE all[i] = Shifted(both, a + b, c, row)[i]
  <2>1. CASE i <= a + 1
    <3>1. all[i] = Shifted(low, a, c, row)[i] /\ i \in 1..(a + 1)
      BY <1>2, <1>3, <1>6, <2>1
    <3>2. all[i] = IF i <= c THEN low[i] ELSE IF i = c + 1 THEN row ELSE low[i - 1]
      BY <3>1 DEF Shifted
    <3>3. i <= c => both[i] = low[i]
      BY <1>1, <1>2
    <3>4. ~(i <= c) /\ i # c + 1 => both[i - 1] = low[i - 1]
      BY <1>1, <1>2, <2>1
    <3>. QED  BY <3>2, <3>3, <3>4 DEF Shifted
  <2>2. CASE i > a + 1
    <3>1. all[i] = high[i - (a + 1)]
      BY <1>2, <1>6, <2>2
    <3>2. ~(i <= c) /\ i # c + 1 /\ i - 1 \in 1..(a + b) /\ ~(i - 1 <= a) /\ (i - 1) - a = i - (a + 1)
      BY <1>2, <2>2
    <3>3. both[i - 1] = high[i - (a + 1)]
      BY <1>1, <3>2
    <3>. QED  BY <3>1, <3>2, <3>3 DEF Shifted
  <2>. QED  BY <1>2, <2>1, <2>2
<1>8. all = [i \in 1..((a + b) + 1) |-> all[i]]
  <2>1. (a + 1) + b = (a + b) + 1
    BY <1>2
  <2>. QED  BY <1>6, <2>1
<1>9. all = Shifted(both, a + b, c, row)
  BY <1>7, <1>8 DEF Shifted
<1>. QED  BY <1>5, <1>9 DEF all, both, part

\* A row put in the second of two parts.
LEMMA InsertedHigh ==
    ASSUME NEW low \in Seq(Rows), NEW high \in Seq(Rows), NEW c \in 0..Len(high), NEW row \in Rows
    PROVE  Inserted(low \o high, Len(low) + c, row) = low \o Inserted(high, c, row)
<1>. DEFINE both == low \o high
            part == Inserted(high, c, row)
            a == Len(low)
            b == Len(high)
<1>1. /\ both \in Seq(Rows) /\ Len(both) = a + b
      /\ \A i \in 1..(a + b) : both[i] = IF i <= a THEN low[i] ELSE high[i - a]
  BY ConcatProperties
<1>2. a \in Nat /\ b \in Nat /\ c \in 0..b
  OBVIOUS
<1>. HIDE DEF both
<1>3. /\ part \in Seq(Rows) /\ Len(part) = b + 1
      /\ part = Shifted(high, b, c, row)
  BY InsertedAt, InsertedShifts
<1>. DEFINE d == a + c
<1>4. d \in 0..Len(both) /\ d \in Nat
  BY <1>1, <1>2
<1>. HIDE DEF d
<1>5. Inserted(both, d, row) = Shifted(both, a + b, d, row)
  BY <1>1, <1>4, InsertedShifts
<1>. DEFINE all == low \o part
<1>. HIDE DEF part
<1>6. /\ all \in Seq(Rows) /\ Len(all) = a + (b + 1)
      /\ \A i \in 1..(a + (b + 1)) : all[i] = IF i <= a THEN low[i] ELSE part[i - a]
  <2>1. part \in Seq(Rows) /\ low \in Seq(Rows)
    BY <1>3
  <2>2. /\ all \in Seq(Rows) /\ Len(all) = Len(low) + Len(part)
        /\ \A i \in 1..(Len(low) + Len(part)) :
              all[i] = IF i <= Len(low) THEN low[i] ELSE part[i - Len(low)]
    BY <2>1, ConcatProperties
  <2>. HIDE DEF all
  <2>. QED  BY <1>3, <2>2
<1>. HIDE DEF all, a, b
<1>7. ASSUME NEW i \in 1..((a + b) + 1) PROVE all[i] = Shifted(both, a + b, d, row)[i]
  <2>1. CASE i <= a
    <3>1. all[i] = low[i] /\ both[i] = low[i] /\ i <= d
      BY <1>1, <1>2, <1>6, <2>1 DEF d
    <3>. QED  BY <3>1 DEF Shifted
  <2>2. CASE i > a
    <3>. DEFINE k == i - a
    <3>1. k \in 1..(b + 1) /\ i = a + k
      BY <1>2, <2>2
    <3>2. all[i] = part[k]
      BY <1>2, <1>6, <2>2
    <3>. HIDE DEF k
    <3>3. all[i] = IF k <= c THEN high[k] ELSE IF k = c + 1 THEN row ELSE high[k - 1]
      BY <1>3, <3>1, <3>2 DEF Shifted
    <3>4. k <= c => both[i] = high[k] /\ i <= d
      BY <1>1, <1>2, <3>1 DEF d
    <3>5. k = c + 1 => ~(i <= d) /\ i = d + 1
      BY <1>2, <3>1 DEF d
    <3>6. ~(k <= c) /\ k # c + 1 => ~(i <= d) /\ i # d + 1 /\ both[i - 1] = high[k - 1]
      <4>. SUFFICES ASSUME ~(k <= c), k # c + 1
                    PROVE  ~(i <= d) /\ i # d + 1 /\ both[i - 1] = high[k - 1]
        OBVIOUS
      <4>1. ~(i <= d) /\ i # d + 1
        BY <1>2, <3>1 DEF d
      <4>2. i - 1 \in 1..(a + b) /\ ~(i - 1 <= a) /\ (i - 1) - a = k - 1
        BY <1>2, <3>1
      <4>. QED  BY <1>1, <4>1, <4>2
    <3>7. Shifted(both, a + b, d, row)[i]
            = IF i <= d THEN both[i] ELSE IF i = d + 1 THEN row ELSE both[i - 1]
      BY DEF Shifted
    <3>. QED  BY <3>3, <3>4, <3>5, <3>6, <3>7
  <2>. QED  BY <1>2, <2>1, <2>2
<1>8. all = [i \in 1..((a + b) + 1) |-> all[i]]
  <2>1. a + (b + 1) = (a + b) + 1
    BY <1>2
  <2>. QED  BY <1>6, <2>1
<1>9. all = Shifted(both, a + b, d, row)
  BY <1>7, <1>8 DEF Shifted
<1>. QED  BY <1>5, <1>9 DEF all, both, part, d, a

\* Two bounds with the same numbers below them are one.
LEMMA SameBound ==
    ASSUME NEW n \in Nat, NEW c \in 0..n, NEW d \in 0..n, \A i \in 1..n : i <= c <=> i <= d
    PROVE  c = d
<1>1. CASE c < d
  <2>1. d \in 1..n /\ ~(d <= c)
    BY <1>1
  <2>. QED  BY <2>1
<1>2. CASE d < c
  <2>1. c \in 1..n /\ ~(c <= d)
    BY <1>2
  <2>. QED  BY <2>1
<1>. QED  BY <1>1, <1>2

\* A row before all of the second part goes to the first.
LEMMA PlaceLow ==
    ASSUME NEW ob, NEW S \in SUBSET Rows, Alike(S, ob.column), NEW row \in S,
           NEW low \in Seq(S), InOrder(low, ob), NEW high \in Seq(S), InOrder(low \o high, ob),
           \A i \in 1..Len(high) : Rank(row, ob) < Rank(high[i], ob)
    PROVE  Place(low \o high, row, ob) = Place(low, row, ob) \o high
<1>. DEFINE both == low \o high
            a == Len(low)
            b == Len(high)
            c == Cardinality(NotAfter(both, row, ob))
            d == Cardinality(NotAfter(low, row, ob))
            x == Rank(row, ob)
<1>1. a \in Nat /\ b \in Nat
  OBVIOUS
<1>2. /\ both \in Seq(S) /\ Len(both) = a + b
      /\ \A i \in 1..(a + b) : both[i] = IF i <= a THEN low[i] ELSE high[i - a]
  BY ConcatProperties
<1>. HIDE DEF both, x
<1>3. /\ d \in 0..a /\ Place(low, row, ob) = Inserted(low, d, row)
      /\ \A i \in 1..a : i <= d <=> Rank(low[i], ob) <= x
  BY PlacePuts DEF x
<1>4. InOrder(both, ob)
  BY DEF both
<1>5. /\ c \in 0..Len(both) /\ Place(both, row, ob) = Inserted(both, c, row)
      /\ \A i \in 1..Len(both) : i <= c <=> Rank(both[i], ob) <= x
  <2>1. both \in Seq(S)
    BY <1>2
  <2>. QED  BY <1>4, <2>1, PlacePuts DEF x
<1>6. \A i \in 1..b : Rank(high[i], ob) \in Int /\ ~(Rank(high[i], ob) <= x)
  <2>1. x \in Int
    BY RankedAlike DEF x
  <2>2. \A i \in 1..b : high[i] \in S
    OBVIOUS
  <2>3. \A i \in 1..b : Rank(high[i], ob) \in Int
    BY <2>2, RankedAlike
  <2>4. \A i \in 1..b : x < Rank(high[i], ob)
    BY DEF x
  <2>. QED  BY <2>1, <2>3, <2>4
<1>. HIDE DEF c, d, a, b
<1>7. c <= a
  <2>. SUFFICES ASSUME c > a PROVE FALSE
    BY <1>1, <1>2, <1>5
  <2>1. c \in 1..(a + b) /\ c - a \in 1..b /\ c <= c /\ ~(c <= a)
    BY <1>1, <1>2, <1>5
  <2>2. Rank(both[c], ob) <= x /\ both[c] = high[c - a]
    BY <1>2, <1>5, <2>1
  <2>. QED  BY <1>6, <2>1, <2>2
<1>8. c = d
  <2>1. \A i \in 1..a : i <= c <=> i <= d
    <3>. SUFFICES ASSUME NEW i \in 1..a PROVE i <= c <=> i <= d
      OBVIOUS
    <3>1. i \in 1..(a + b) /\ i <= a
      BY <1>1
    <3>2. both[i] = low[i]
      BY <1>2, <3>1
    <3>. QED  BY <1>2, <1>3, <1>5, <3>1, <3>2
  <2>2. c \in 0..a /\ d \in 0..a
    BY <1>1, <1>2, <1>3, <1>5, <1>7
  <2>. QED  BY <1>1, <2>1, <2>2, SameBound
<1>9. low \in Seq(Rows) /\ high \in Seq(Rows) /\ row \in Rows
  OBVIOUS
<1>10. Inserted(both, d, row) = Inserted(low, d, row) \o high
  BY <1>3, <1>9, InsertedLow DEF both, a
<1>. QED  BY <1>3, <1>5, <1>8, <1>10 DEF both

\* A row not before any of the first part goes to the second.
LEMMA PlaceHigh ==
    ASSUME NEW ob, NEW S \in SUBSET Rows, Alike(S, ob.column), NEW row \in S,
           NEW low \in Seq(S), NEW high \in Seq(S), InOrder(high, ob), InOrder(low \o high, ob),
           \A i \in 1..Len(low) : Rank(low[i], ob) <= Rank(row, ob)
    PROVE  Place(low \o high, row, ob) = low \o Place(high, row, ob)
<1>. DEFINE both == low \o high
            a == Len(low)
            b == Len(high)
            c == Cardinality(NotAfter(both, row, ob))
            d == Cardinality(NotAfter(high, row, ob))
            x == Rank(row, ob)
<1>1. a \in Nat /\ b \in Nat
  OBVIOUS
<1>2. /\ both \in Seq(S) /\ Len(both) = a + b
      /\ \A i \in 1..(a + b) : both[i] = IF i <= a THEN low[i] ELSE high[i - a]
  BY ConcatProperties
<1>. HIDE DEF both, x
<1>3. /\ d \in 0..b /\ Place(high, row, ob) = Inserted(high, d, row)
      /\ \A i \in 1..b : i <= d <=> Rank(high[i], ob) <= x
  BY PlacePuts DEF x
<1>4. InOrder(both, ob)
  BY DEF both
<1>5. /\ c \in 0..Len(both) /\ Place(both, row, ob) = Inserted(both, c, row)
      /\ \A i \in 1..Len(both) : i <= c <=> Rank(both[i], ob) <= x
  <2>1. both \in Seq(S)
    BY <1>2
  <2>. QED  BY <1>4, <2>1, PlacePuts DEF x
<1>6. \A i \in 1..a : Rank(low[i], ob) <= x
  BY DEF x
<1>. HIDE DEF c, d, a, b
<1>7. a <= c
  <2>. SUFFICES ASSUME c < a PROVE FALSE
    BY <1>1, <1>2, <1>5
  <2>1. a \in 1..(a + b) /\ a \in 1..a /\ a <= a /\ ~(a <= c)
    BY <1>1, <1>2, <1>5
  <2>2. both[a] = low[a]
    BY <1>2, <2>1
  <2>. QED  BY <1>2, <1>5, <1>6, <2>1, <2>2
<1>8. c = a + d
  <2>1. \A i \in 1..b : i <= c - a <=> i <= d
    <3>. SUFFICES ASSUME NEW i \in 1..b PROVE i <= c - a <=> i <= d
      OBVIOUS
    <3>. DEFINE j == a + i
    <3>1. j \in 1..(a + b) /\ ~(j <= a) /\ j - a = i
      BY <1>1
    <3>2. i <= c - a <=> j <= c
      BY <1>1, <1>2, <1>5
    <3>. HIDE DEF j
    <3>3. both[j] = high[i]
      BY <1>2, <3>1
    <3>. QED  BY <1>2, <1>3, <1>5, <3>1, <3>2, <3>3
  <2>2. c - a \in 0..b
    BY <1>1, <1>2, <1>5, <1>7
  <2>3. c - a = d
    <3>. DEFINE e == c - a
    <3>1. e \in 0..b /\ d \in 0..b /\ \A i \in 1..b : i <= e <=> i <= d
      BY <1>3, <2>1, <2>2
    <3>. HIDE DEF e
    <3>2. e = d
      BY <1>1, <3>1, SameBound
    <3>. QED  BY <3>2 DEF e
  <2>4. c \in Nat /\ d \in Nat
    BY <1>1, <1>2, <1>3, <1>5
  <2>. QED  BY <1>1, <2>3, <2>4
<1>9. low \in Seq(Rows) /\ high \in Seq(Rows) /\ row \in Rows
  OBVIOUS
<1>10. Inserted(both, a + d, row) = low \o Inserted(high, d, row)
  BY <1>3, <1>9, InsertedHigh DEF both, a, b
<1>. QED  BY <1>3, <1>5, <1>8, <1>10 DEF both

\* The rows before x in the order of the column, and the others.
Below(S, x, ob) == { row \in S : Rank(row, ob) < x }
Above(S, x, ob) == { row \in S : Rank(row, ob) >= x }

\* The rows, sorted, are those below sorted and then those above sorted.
CutAt(rows, S, x, ob) ==
    StablySorted(rows, ob) = StablySorted(Kept(rows, Below(S, x, ob)), ob)
                                \o StablySorted(Kept(rows, Above(S, x, ob)), ob)

\* One row more goes to its part.
LEMMA CutOneMore ==
    ASSUME NEW ob, NEW S \in SUBSET Rows, Alike(S, ob.column), NEW x \in Int,
           NEW rows \in Seq(S), CutAt(rows, S, x, ob), NEW row \in S
    PROVE  CutAt(Append(rows, row), S, x, ob)
<1>. DEFINE B == Below(S, x, ob)
            A == Above(S, x, ob)
            keptB == Kept(rows, B)
            keptA == Kept(rows, A)
            low == StablySorted(keptB, ob)
            high == StablySorted(keptA, ob)
<1>1. B \in SUBSET S /\ A \in SUBSET S /\ Rank(row, ob) \in Int /\ (row \in A <=> row \notin B)
  BY RankedAlike DEF Below, Above
<1>2. Alike(B, ob.column) /\ Alike(A, ob.column) /\ B \in SUBSET Rows /\ A \in SUBSET Rows
  BY <1>1 DEF Alike
<1>3. (\A e \in B : Rank(e, ob) < x) /\ (\A e \in A : Rank(e, ob) >= x)
  BY DEF Below, Above
<1>. HIDE DEF B, A
<1>4. keptB \in Seq(B) /\ keptA \in Seq(A)
  BY KeptWithin
<1>. HIDE DEF keptB, keptA
<1>5. /\ low \in Seq(B) /\ InOrder(low, ob)
      /\ high \in Seq(A) /\ InOrder(high, ob)
  BY <1>2, <1>4, SortedInOrder
<1>6. StablySorted(rows, ob) = low \o high /\ InOrder(low \o high, ob)
  <2>1. StablySorted(rows, ob) = low \o high
    BY DEF CutAt, B, A, keptB, keptA
  <2>2. InOrder(StablySorted(rows, ob), ob)
    BY SortedInOrder
  <2>. QED  BY <2>1, <2>2
<1>7. rows \in Seq(Rows) /\ row \in Rows /\ keptB \in Seq(Rows) /\ keptA \in Seq(Rows)
  BY <1>2, <1>4
<1>. HIDE DEF low, high
<1>8. StablySorted(Append(rows, row), ob) = Place(low \o high, row, ob)
  BY <1>6, <1>7, SortAppend
<1>9. low \in Seq(S) /\ high \in Seq(S)
  BY <1>1, <1>5
<1>10. CASE row \in B
  <2>1. \A i \in 1..Len(high) : Rank(row, ob) < Rank(high[i], ob)
    <3>. SUFFICES ASSUME NEW i \in 1..Len(high) PROVE Rank(row, ob) < Rank(high[i], ob)
      OBVIOUS
    <3>1. high[i] \in A /\ high[i] \in S
      BY <1>1, <1>5
    <3>2. Rank(high[i], ob) \in Int
      BY <3>1, RankedAlike
    <3>. QED  BY <1>1, <1>3, <1>10, <3>1, <3>2
  <2>2. Place(low \o high, row, ob) = Place(low, row, ob) \o high
    BY <1>5, <1>6, <1>9, <2>1, PlaceLow
  <2>3. Kept(Append(rows, row), B) = Append(keptB, row) /\ Kept(Append(rows, row), A) = keptA
    BY <1>1, <1>10, KeptAppend DEF keptB, keptA
  <2>4. StablySorted(Append(keptB, row), ob) = Place(low, row, ob)
    BY <1>7, SortAppend DEF low
  <2>. QED  BY <1>8, <2>2, <2>3, <2>4 DEF CutAt, B, A, high
<1>11. CASE row \notin B
  <2>1. \A i \in 1..Len(low) : Rank(low[i], ob) <= Rank(row, ob)
    <3>. SUFFICES ASSUME NEW i \in 1..Len(low) PROVE Rank(low[i], ob) <= Rank(row, ob)
      OBVIOUS
    <3>1. low[i] \in B /\ low[i] \in S /\ row \in A
      BY <1>1, <1>5, <1>11
    <3>2. Rank(low[i], ob) \in Int
      BY <3>1, RankedAlike
    <3>. QED  BY <1>1, <1>3, <3>1, <3>2
  <2>2. Place(low \o high, row, ob) = low \o Place(high, row, ob)
    BY <1>5, <1>6, <1>9, <2>1, PlaceHigh
  <2>3. Kept(Append(rows, row), B) = keptB /\ Kept(Append(rows, row), A) = Append(keptA, row)
    BY <1>1, <1>11, KeptAppend DEF keptB, keptA
  <2>4. StablySorted(Append(keptA, row), ob) = Place(high, row, ob)
    BY <1>7, SortAppend DEF high
  <2>. QED  BY <1>8, <2>2, <2>3, <2>4 DEF CutAt, B, A, low
<1>. QED  BY <1>10, <1>11

\* Wherever the order of a column is cut, sorting the parts sorts the whole.
LEMMA CutSorts ==
    ASSUME NEW ob, NEW S \in SUBSET Rows, Alike(S, ob.column), NEW x \in Int, NEW rows \in Seq(S)
    PROVE  CutAt(rows, S, x, ob)
<1>. DEFINE N == Len(rows)
            first(n) == SubSeq(rows, 1, n)
            Good == { n \in 0..N : CutAt(first(n), S, x, ob) }
<1>1. N \in Nat /\ \A n \in 1..N : rows[n] \in S
  OBVIOUS
<1>2. first(0) = <<>> /\ first(N) = rows
  OBVIOUS
<1>3. ASSUME NEW n \in 0..(N - 1)
      PROVE  first(n) \in Seq(S) /\ first(n + 1) = Append(first(n), rows[n + 1])
  OBVIOUS
<1>. HIDE DEF N, first
<1>4. CutAt(<<>>, S, x, ob)
  <2>1. Kept(<<>>, Below(S, x, ob)) = <<>> /\ Kept(<<>>, Above(S, x, ob)) = <<>>
    BY KeptEmpty
  <2>2. StablySorted(<<>>, ob) = <<>>
    <3>1. <<>> \in Seq(Rows) /\ Len(<<>>) = 0
      OBVIOUS
    <3>2. PICK f \in SortRuns(<<>>, ob) : TRUE
      BY <3>1, SortSteps
    <3>. QED  BY <3>1, <3>2 DEF SortRuns
  <2>3. <<>> = <<>> \o <<>>
    OBVIOUS
  <2>. QED  BY <2>1, <2>2, <2>3 DEF CutAt
<1>5. 0 \in Good
  BY <1>1, <1>2, <1>4
<1>6. ASSUME NEW n \in 0..(N - 1), n \in Good PROVE n + 1 \in Good
  <2>1. n + 1 \in 1..N /\ n + 1 \in 0..N
    BY <1>1
  <2>2. CutAt(Append(first(n), rows[n + 1]), S, x, ob)
    <3>1. first(n) \in Seq(S) /\ rows[n + 1] \in S /\ CutAt(first(n), S, x, ob)
      BY <1>1, <1>3, <1>6, <2>1
    <3>. QED  BY <3>1, CutOneMore
  <2>. QED  BY <1>3, <2>1, <2>2
<1>7. \A n \in 0..N : n \in Good
  <2>. HIDE DEF Good
  <2>. QED  BY <1>1, <1>5, <1>6, StepsUpTo
<1>. QED  BY <1>1, <1>2, <1>7

\* An order by one column is one sort.
LEMMA OneColumn ==
    ASSUME NEW rows \in Seq(Rows), NEW ob, Alike(Range(rows), ob.column)
    PROVE  OrderBy(rows, <<ob>>) = {StablySorted(rows, ob)}
<1>. DEFINE obs == <<ob>>
            R == {ob}
<1>1. obs \in Seq(R) /\ Len(obs) = 1 /\ obs[1] = ob
  OBVIOUS
<1>. HIDE DEF obs, R
<1>2. PICK f \in OrderRuns(rows, obs) : TRUE
  BY <1>1, OrderSteps
<1>3. /\ f[0] = {rows} /\ f[1] = OrderBy(rows, obs)
      /\ f[1] = UNION { SortBy(out, obs[1 - 1 + 1]) : out \in f[1 - 1] }
  BY <1>1, <1>2 DEF OrderRuns
<1>4. 1 - 1 = 0 /\ 1 - 1 + 1 = 1
  OBVIOUS
<1>5. f[1] = UNION { SortBy(out, ob) : out \in {rows} }
  BY <1>1, <1>3, <1>4
<1>6. SortBy(rows, ob) = {StablySorted(rows, ob)}
  BY AlikeIsOrder
<1>7. f[1] = {StablySorted(rows, ob)}
  BY <1>5, <1>6
<1>. QED  BY <1>3, <1>7 DEF obs

\* What a comparison with a value lets pass is one side of the order.
LEMMA ComparedByRank ==
    ASSUME NEW ob, ob.descending = FALSE, NEW S \in SUBSET Rows, Alike(S, ob.column),
           NEW a \in S, NEW b \in S
    PROVE  LET passes(op) == CmpField(a, ob.column, b[ob.column], op)
           IN  /\ passes("Lt") <=> Rank(a, ob) < Rank(b, ob)
               /\ passes("Gte") <=> Rank(a, ob) >= Rank(b, ob)
               /\ passes("Lte") <=> Rank(a, ob) < Rank(b, ob) + 1
               /\ passes("Gt") <=> Rank(a, ob) >= Rank(b, ob) + 1
<1>. DEFINE cmp == CmpJsonValues(a[ob.column], b[ob.column])
            m == Rank(a, ob)
            n == Rank(b, ob)
<1>1. Has(a, ob.column) /\ Has(b, ob.column)
  BY DEF Alike
<1>2. CmpRows(a, b, ob) = cmp
  BY <1>1 DEF CmpRows, CmpValues
<1>3. CmpRows(a, b, ob) = Sign(m - n)
  BY CmpByRank
<1>4. m \in Int /\ n \in Int
  BY RankedAlike
<1>. HIDE DEF cmp, m, n
<1>5. /\ cmp \in {-1} <=> m < n
      /\ cmp \in {0, 1} <=> m >= n
      /\ cmp \in {0, -1} <=> m < n + 1
      /\ cmp \in {1} <=> m >= n + 1
  BY <1>2, <1>3, <1>4 DEF Sign
<1>6. \A op : CmpField(a, ob.column, b[ob.column], op) <=> cmp \in Accepted(op)
  BY <1>1 DEF CmpField, cmp
<1>7. /\ Accepted("Lt") = {-1} /\ Accepted("Gte") = {0, 1}
      /\ Accepted("Lte") = {0, -1} /\ Accepted("Gt") = {1}
  BY DEF Accepted
<1>. QED  BY <1>5, <1>6, <1>7 DEF m, n

\* FiltersCutTheOrder, for one table, row and column.
CutsTheOrder(rows, row, column) ==
    LET sorted(part) == OrderBy(part, <<[column |-> column, descending |-> FALSE]>>)
        passing(op) == Kept(rows, { r \in Range(rows) : CmpField(r, column, row[column], op) })
        cut(low, high) == Joined(sorted(passing(low)), sorted(passing(high)))
    IN  sorted(rows) = cut("Lt", "Gte") /\ sorted(rows) = cut("Lte", "Gt")

\* The one sort of the whole is those of its two sides.
LEMMA OneFilterCuts ==
    ASSUME NEW rows \in Seq(Rows), NEW row \in Rows, NEW column,
           Comparable(Append(rows, row), column)
    PROVE  CutsTheOrder(rows, row, column)
<1>. DEFINE ob == [column |-> column, descending |-> FALSE]
            S == Range(rows)
            all == Range(Append(rows, row))
            x == Rank(row, ob)
            sorted(part) == OrderBy(part, <<ob>>)
            passed(op) == { r \in S : CmpField(r, column, row[column], op) }
            passing(op) == Kept(rows, passed(op))
            cut(low, high) == Joined(sorted(passing(low)), sorted(passing(high)))
<1>1. ob.column = column /\ ob.descending = FALSE
  OBVIOUS
<1>2. /\ S \in SUBSET all /\ row \in all /\ all \in SUBSET Rows
      /\ rows \in Seq(S)
  <2>1. Len(rows) \in Nat /\ \A i \in 1..Len(rows) : Append(rows, row)[i] = rows[i]
    OBVIOUS
  <2>2. Append(rows, row)[Len(rows) + 1] = row /\ DOMAIN Append(rows, row) = 1..(Len(rows) + 1)
    OBVIOUS
  <2>. QED  BY <2>1, <2>2 DEF Range
<1>3. Alike(all, column)
  <2>1. Append(rows, row) \in Seq(Rows)
    OBVIOUS
  <2>. QED  BY <2>1, ComparableAlike
<1>. HIDE DEF ob, all, x, S
<1>4. Alike(all, ob.column) /\ Alike(S, ob.column) /\ S \in SUBSET Rows
  BY <1>1, <1>2, <1>3 DEF Alike
<1>5. x \in Int /\ x + 1 \in Int
  BY <1>2, <1>4, RankedAlike DEF x
<1>6. /\ passed("Lt") = Below(S, x, ob) /\ passed("Gte") = Above(S, x, ob)
      /\ passed("Lte") = Below(S, x + 1, ob) /\ passed("Gt") = Above(S, x + 1, ob)
  <2>1. ASSUME NEW r \in S
        PROVE  /\ CmpField(r, column, row[column], "Lt") <=> Rank(r, ob) < x
               /\ CmpField(r, column, row[column], "Gte") <=> Rank(r, ob) >= x
               /\ CmpField(r, column, row[column], "Lte") <=> Rank(r, ob) < x + 1
               /\ CmpField(r, column, row[column], "Gt") <=> Rank(r, ob) >= x + 1
    BY <1>1, <1>2, <1>4, ComparedByRank DEF x
  <2>. QED  BY <2>1 DEF Below, Above
<1>. HIDE DEF passed
<1>7. ASSUME NEW y \in Int, NEW low, NEW high,
             passed(low) = Below(S, y, ob), passed(high) = Above(S, y, ob)
      PROVE  sorted(rows) = cut(low, high)
  <2>1. StablySorted(rows, ob) = StablySorted(passing(low), ob) \o StablySorted(passing(high), ob)
    <3>1. CutAt(rows, S, y, ob)
      BY <1>2, <1>4, CutSorts
    <3>. QED  BY <1>7, <3>1 DEF CutAt
  <2>2. sorted(rows) = {StablySorted(rows, ob)}
    BY <1>4, OneColumn DEF S
  <2>3. ASSUME NEW T, T \subseteq S
        PROVE  sorted(Kept(rows, T)) = {StablySorted(Kept(rows, T), ob)}
    <3>. DEFINE kept == Kept(rows, T)
    <3>1. kept \in Seq(T)
      BY <1>2, KeptWithin
    <3>. HIDE DEF kept
    <3>2. kept \in Seq(Rows) /\ Range(kept) \subseteq S
      BY <1>4, <2>3, <3>1 DEF Range
    <3>3. Alike(Range(kept), ob.column)
      BY <1>4, <3>2 DEF Alike
    <3>. QED  BY <3>2, <3>3, OneColumn DEF kept
  <2>4. passed(low) \subseteq S /\ passed(high) \subseteq S
    BY <1>7 DEF Below, Above
  <2>5. /\ sorted(passing(low)) = {StablySorted(passing(low), ob)}
        /\ sorted(passing(high)) = {StablySorted(passing(high), ob)}
    BY <2>3, <2>4
  <2>. HIDE DEF sorted, passing
  <2>. QED  BY <2>1, <2>2, <2>5 DEF Joined
<1>8. sorted(rows) = cut("Lt", "Gte") /\ sorted(rows) = cut("Lte", "Gt")
  <2>. HIDE DEF sorted, cut
  <2>. QED  BY <1>5, <1>6, <1>7
<1>. QED  BY <1>8 DEF CutsTheOrder, ob, passed, S

\* The range filters of filter.rs and the sort of query_table() see one order,
\* in every table and for every value compared with.
THEOREM FiltersFollowTheOrder == TablesSpec => []FiltersCutTheOrder
<1>1. TablesTypeOK => FiltersCutTheOrder
  <2>1. TablesTypeOK => \A t \in DOMAIN tables : tables[t] \in Seq(Rows)
    BY DEF TablesTypeOK
  <2>2. TablesTypeOK => \A t \in DOMAIN tables, row \in Rows : \A column \in DOMAIN row :
            Comparable(Append(tables[t], row), column) => CutsTheOrder(tables[t], row, column)
    BY <2>1, OneFilterCuts
  <2>. QED  BY <2>2 DEF FiltersCutTheOrder, CutsTheOrder
<1>. QED  BY <1>1, TablesTypeCorrect, PTL
=============================================================================
