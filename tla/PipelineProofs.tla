----------------------------- MODULE PipelineProofs -----------------------------
(***************************************************************************)
(* Proofs about Pipeline, for chains of any length over any rows: no stage *)
(* is lost, doubled or moved, and optimizing an orderly chain is invisible.*)
(***************************************************************************)
EXTENDS Pipeline, FoldLemmas, SequenceTheorems

\* Every stage of every program.
StagesInUse == UNION { Range(p.stages) : p \in Programs }

-----------------------------------------------------------------------------
(* What is cut from rows is rows again.                                    *)

\* The first lines are lines.
LEMMA TakeTyped ==
    ASSUME NEW lines \in Seq(Nat), NEW n \in Nat
    PROVE  Take(lines, n) \in Seq(Nat)
  BY DEF Take

\* So are those after the first.
LEMMA DropTyped ==
    ASSUME NEW lines \in Seq(Nat), NEW n \in Nat
    PROVE  Drop(lines, n) \in Seq(Nat)
  BY DEF Drop

\* A smaller limit after a larger one is all that counts.
LEMMA TakeTwice ==
    ASSUME NEW lines \in Seq(Nat), NEW m \in Nat, NEW n \in Nat, m <= n
    PROVE  Take(Take(lines, n), m) = Take(lines, m)
<1>. DEFINE k == IF n < Len(lines) THEN n ELSE Len(lines)
            l == IF m < Len(lines) THEN m ELSE Len(lines)
<1>1. Len(lines) \in Nat /\ k \in 0..Len(lines) /\ l \in 0..k
      /\ l = IF m < k THEN m ELSE k
  OBVIOUS
<1>2. Take(lines, n) \in Seq(Nat) /\ Len(Take(lines, n)) = k
      /\ \A i \in 1..k : Take(lines, n)[i] = lines[i]
  BY DEF Take
<1>3. Take(Take(lines, n), m) = SubSeq(Take(lines, n), 1, l)
  BY <1>1, <1>2 DEF Take
<1>4. Take(lines, m) = SubSeq(lines, 1, l)
  BY DEF Take
<1>. HIDE DEF k, l
<1>. QED  BY <1>1, <1>2, <1>3, <1>4

\* A row put into sorted rows.
LEMMA PlaceTyped ==
    ASSUME NEW arg, NEW sorted \in Seq(Nat), NEW row \in Nat
    PROVE  Place(arg, sorted, row) \in Seq(Nat)
<1>. DEFINE S == { i \in DOMAIN sorted : ~Before(arg, row, sorted[i]) }
            n == Cardinality(S)
<1>1. Len(sorted) \in Nat /\ DOMAIN sorted = 1..Len(sorted)
  OBVIOUS
<1>2. n \in 0..Len(sorted)
  <2>1. S \in SUBSET (1..Len(sorted))
    BY <1>1
  <2>2. IsFiniteSet(1..Len(sorted)) /\ Cardinality(1..Len(sorted)) = Len(sorted)
    <3>1. ASSUME NEW m \in Nat PROVE IsFiniteSet(1..m) /\ Cardinality(1..m) = m
      BY FS_Interval
    <3>. QED  BY <1>1, <3>1
  <2>. HIDE DEF S
  <2>3. IsFiniteSet(S) /\ Cardinality(S) <= Len(sorted)
    BY <2>1, <2>2, FS_Subset
  <2>. QED  BY <1>1, <2>3, FS_CardinalityType
<1>3. Place(arg, sorted, row) = SubSeq(sorted, 1, n) \o <<row>> \o SubSeq(sorted, n + 1, Len(sorted))
  BY DEF Place
<1>. HIDE DEF n
<1>. QED  BY <1>1, <1>2, <1>3

\* Sorted rows are rows.
LEMMA SortByTyped ==
    ASSUME NEW arg, NEW lines \in Seq(Nat)
    PROVE  SortBy(arg, lines) \in Seq(Nat)
<1>. DEFINE D == Seq(Nat)
            step == [p \in D \X Nat |-> Place(arg, p[1], p[2])]
            Rec(it) == [t \in SUBSET (DOMAIN lines) |->
                          IF t = {} THEN <<>> ELSE Place(arg, it[t \ {Max(t)}], lines[Max(t)])]
            iter == CHOOSE it : it = Rec(it)
<1>1. step \in [D \X Nat -> D] /\ <<>> \in D
  BY PlaceTyped
<1>2. \A sorted \in D, row \in Nat : step[<<sorted, row>>] = Place(arg, sorted, row)
  OBVIOUS
<1>. HIDE DEF D, step
<1>3. iter = Rec(iter)
  <2>1. lines \in Seq(Nat)
    OBVIOUS
  <2>2. Iterators(D, <<>>, lines, step) # {}
    BY <1>1, <2>1, FoldIterates
  <2>3. PICK it \in Iterators(D, <<>>, lines, step) : TRUE
    BY <2>2
  <2>4. it = Rec(it)
    <3>. SUFFICES ASSUME NEW t \in SUBSET (DOMAIN lines), t # {}
                  PROVE  it[t] = Place(arg, it[t \ {Max(t)}], lines[Max(t)])
      BY <2>3 DEF Iterators, Unfolds
    <3>1. lines[Max(t)] \in Nat
      BY MaxInDomain
    <3>. QED  BY <1>2, <2>3, <3>1 DEF Iterators, Unfolds
  <2>. HIDE DEF Rec
  <2>. QED  BY <2>4
<1>4. SortBy(arg, lines) = iter[DOMAIN lines]
  BY DEF SortBy, FoldLeft, MapThenFoldSet
<1>. HIDE DEF iter
<1>5. Unfolds(iter, D, <<>>, lines, step)
  <2>1. ASSUME NEW t \in SUBSET (DOMAIN lines), t # {}, iter[t \ {Max(t)}] \in D
        PROVE  iter[t] = step[<<iter[t \ {Max(t)}], lines[Max(t)]>>]
    <3>1. lines[Max(t)] \in Nat
      BY <2>1, MaxInDomain
    <3>2. iter[t] = Place(arg, iter[t \ {Max(t)}], lines[Max(t)])
      BY <1>3, <2>1
    <3>. QED  BY <1>2, <2>1, <3>1, <3>2
  <2>. QED  BY <1>3, <2>1 DEF Unfolds
<1>6. iter[DOMAIN lines] \in Outcomes(D, <<>>, lines, step)
  <2>. HIDE DEF Rec
  <2>. QED  BY <1>1, <1>5, FoldAlong
<1>7. \A f \in Runs(D, <<>>, lines, step) : f[Len(lines)] \in D
  BY DEF Runs
<1>. QED  BY <1>4, <1>6, <1>7 DEF Outcomes, D

\* What parse_stage() makes of a stage.
LEMMA StageTyped ==
    ASSUME NEW s \in StagesInUse
    PROVE  /\ IsStage(s)
           /\ s.tool \in {"head", "tail"} => s.arg \in Nat
           /\ s.tool \in {"grep", "filter"} => s.arg \in DOMAIN Matches
<1>1. PICK p \in Programs : s \in Range(p.stages)
  BY DEF StagesInUse
<1>2. PICK i \in DOMAIN p.stages : s = p.stages[i]
  BY <1>1 DEF Range
<1>3. IsStage(p.stages[i])
  BY ProgramsAssumption
<1>. QED  BY <1>2, <1>3 DEF IsStage

\* A stage prints rows.
LEMMA PrintedTyped ==
    ASSUME NEW s \in StagesInUse, NEW lines \in Seq(Nat)
    PROVE  Printed(s, lines) \in Seq(Nat)
<1>1. IsStage(s)
  BY StageTyped
<1>2. CASE s.tool = "head"
  BY <1>2, StageTyped, TakeTyped DEF Printed
<1>3. CASE s.tool = "tail"
  BY <1>3, StageTyped, DropTyped DEF Printed
<1>4. CASE s.tool \in {"grep", "filter"}
  <2>1. Kept(lines, Matches[s.arg]) \in Seq(Nat)
    BY KeptSelects
  <2>. QED  BY <1>4, <2>1 DEF Printed
<1>5. CASE s.tool = "sort"
  BY <1>5, SortByTyped DEF Printed
<1>6. CASE s.tool = "wc"
  BY <1>6 DEF Printed
<1>. QED  BY <1>1, <1>2, <1>3, <1>4, <1>5, <1>6 DEF IsStage

-----------------------------------------------------------------------------
(* The request.                                                            *)

\* A vector search always has a limit.
AskedFor == { r \in Requests : r.kind = "VectorSearch" => r.limit # None }

\* The driver answers with rows.
LEMMA ServeTyped ==
    ASSUME NEW r \in AskedFor, NEW t \in Seq(Nat)
    PROVE  /\ Passing(r, t) \in Seq(Nat)
           /\ Serve(r, t) \in Seq(Nat)
<1>1. Passing(r, t) \in Seq(Nat)
  BY KeptSelects DEF Passing
<1>2. From(Passing(r, t), r.offset) \in Seq(Nat)
  BY <1>1, DropTyped DEF From, AskedFor, Requests
<1>3. QueryTable(r, t) \in Seq(Nat)
  <2>. DEFINE rows == From(Passing(r, t), r.offset)
  <2>1. rows \in Seq(Nat)
    BY <1>2
  <2>. HIDE DEF rows
  <2>2. UpTo(rows, r.limit) \in Seq(Nat)
    BY <2>1, TakeTyped DEF UpTo, AskedFor, Requests
  <2>. QED  BY <2>2 DEF QueryTable, rows
<1>4. r.kind = "VectorSearch" => VectorSearch(r, t) \in Seq(Nat)
  BY TakeTyped DEF VectorSearch, AskedFor, Requests
<1>. QED  BY <1>1, <1>3, <1>4 DEF Serve

(* A fold asks the driver for what the stage would have printed, if it     *)
(* comes in the driver's own order: of filter, offset, limit.              *)
LEMMA FoldPrints ==
    ASSUME NEW s \in StagesInUse, NEW r \in AskedFor, NEW t \in Seq(Nat),
           CanFold(r.kind, s.pushdown), s.tool # "grep",
           s.tool \in {"filter", "tail"} => r.offset = None /\ r.limit = None,
           s.tool = "head" => r.limit = None \/ s.arg <= r.limit
    PROVE  Serve(Fold(s, r), t) = Printed(s, Serve(r, t))
<1>1. /\ IsStage(s)
      /\ s.tool \in {"head", "tail"} => s.arg \in Nat
      /\ s.tool \in {"grep", "filter"} => s.arg \in DOMAIN Matches
  BY StageTyped
<1>2. /\ s.tool \in {"head", "tail", "filter"}
      /\ s.pushdown = CASE s.tool = "head" -> "Limit" [] s.tool = "tail" -> "Offset"
                        [] OTHER -> "FieldFilter"
  BY <1>1, NoneAssumption DEF IsStage, CanFold, Stage, PushdownOf, FieldFilter
<1>3. r \in Requests /\ r.kind \in {"QueryTable", "VectorSearch"}
      /\ (r.kind = "VectorSearch" => s.tool = "head")
      /\ Passing(r, t) \in Seq(Nat)
  BY <1>2, ServeTyped DEF CanFold, AskedFor
<1>4. CASE s.tool = "tail"
  <2>. DEFINE q == [r EXCEPT !.offset = s.arg]
  <2>1. Fold(s, r) = q /\ s.arg # None /\ s.arg \in Nat
    BY <1>1, <1>2, <1>4, NoneAssumption DEF Fold
  <2>2. /\ q.kind = "QueryTable" /\ q.filters = r.filters /\ q.offset = s.arg /\ q.limit = None
        /\ r.kind = "QueryTable" /\ r.offset = None /\ r.limit = None
    BY <1>3, <1>4 DEF Requests
  <2>3. Passing(q, t) = Passing(r, t)
    BY <2>2 DEF Passing
  <2>. HIDE DEF q
  <2>4. Serve(q, t) = Drop(Passing(r, t), s.arg) /\ Serve(r, t) = Passing(r, t)
    BY <2>1, <2>2, <2>3 DEF Serve, QueryTable, UpTo, From
  <2>. QED  BY <1>4, <2>1, <2>4 DEF Printed
<1>5. CASE s.tool = "filter"
  <2>. DEFINE M == Matches[s.arg]
              q == [r EXCEPT !.filters = @ \cup {M}]
  <2>1. Fold(s, r) = q
    BY <1>2, <1>5 DEF Fold
  <2>2. /\ q.kind = "QueryTable" /\ q.filters = r.filters \cup {M}
        /\ q.offset = None /\ q.limit = None
        /\ r.kind = "QueryTable" /\ r.offset = None /\ r.limit = None
    BY <1>3, <1>5 DEF Requests
  <2>. HIDE DEF q, M
  <2>3. Kept(Passing(r, t), M) = Passing(q, t)
    <3>. DEFINE A == { row \in Range(t) : \A f \in r.filters : row \in f }
                C == { row \in Range(t) : \A f \in q.filters : row \in f }
    <3>1. \A row \in Range(t) : row \in C <=> row \in A /\ row \in M
      BY <2>2
    <3>. HIDE DEF A, C
    <3>2. Kept(Kept(t, A), M) = Kept(t, C)
      BY <3>1, KeptTwice
    <3>. QED  BY <3>2 DEF Passing, A, C
  <2>4. Serve(q, t) = Passing(q, t) /\ Serve(r, t) = Passing(r, t)
    BY <2>2 DEF Serve, QueryTable, UpTo, From
  <2>. QED  BY <1>5, <2>1, <2>3, <2>4 DEF Printed, M
<1>6. CASE s.tool = "head"
  <2>. DEFINE q == [r EXCEPT !.limit = s.arg]
  <2>1. Fold(s, r) = q /\ s.arg # None /\ s.arg \in Nat
    BY <1>1, <1>2, <1>6, NoneAssumption DEF Fold
  <2>2. /\ q.kind = r.kind /\ q.filters = r.filters /\ q.offset = r.offset /\ q.limit = s.arg
        /\ r.limit \in Nat \cup {None} /\ r.offset \in Nat \cup {None}
    BY <1>3, <1>6 DEF Requests
  <2>3. Passing(q, t) = Passing(r, t)
    BY <2>2 DEF Passing
  <2>. HIDE DEF q
  <2>4. CASE r.kind = "QueryTable"
    <3>. DEFINE rows == From(Passing(r, t), r.offset)
    <3>1. rows \in Seq(Nat)
      BY <1>3, <2>2, DropTyped DEF From
    <3>2. Serve(q, t) = UpTo(rows, s.arg) /\ Serve(r, t) = UpTo(rows, r.limit)
      BY <2>2, <2>3, <2>4 DEF Serve, QueryTable
    <3>. HIDE DEF rows
    <3>3. UpTo(rows, s.arg) = Take(rows, s.arg)
      BY <2>1 DEF UpTo
    <3>4. Take(UpTo(rows, r.limit), s.arg) = Take(rows, s.arg)
      BY <1>6, <2>1, <2>2, <3>1, TakeTwice DEF UpTo
    <3>. QED  BY <1>6, <2>1, <3>2, <3>3, <3>4 DEF Printed
  <2>5. CASE r.kind = "VectorSearch"
    <3>1. r.limit \in Nat /\ s.arg <= r.limit
      BY <1>6, <2>2, <2>5 DEF AskedFor
    <3>2. Serve(q, t) = Take(t, s.arg) /\ Serve(r, t) = Take(t, r.limit)
      BY <2>2, <2>5 DEF Serve, VectorSearch
    <3>3. Take(Take(t, r.limit), s.arg) = Take(t, s.arg)
      BY <2>1, <3>1, TakeTwice
    <3>. QED  BY <1>6, <2>1, <3>2, <3>3 DEF Printed
  <2>. QED  BY <1>3, <2>4, <2>5
<1>. QED  BY <1>2, <1>4, <1>5, <1>6

-----------------------------------------------------------------------------
(* The pipe.                                                               *)

\* A stage as a function of what it reads.
PrintStep == [p \in Seq(Nat) \X StagesInUse |-> Printed(p[2], p[1])]

\* Its values are rows.
LEMMA PrintStepTyped ==
    /\ PrintStep \in [Seq(Nat) \X StagesInUse -> Seq(Nat)]
    /\ \A lines \in Seq(Nat), s \in StagesInUse : PrintStep[<<lines, s>>] = Printed(s, lines)
  BY PrintedTyped DEF PrintStep

\* A pipe goes from stage to stage.
LEMMA PipedRuns ==
    ASSUME NEW lines \in Seq(Nat), NEW stages \in Seq(StagesInUse)
    PROVE  Piped(lines, stages) \in Outcomes(Seq(Nat), lines, stages, PrintStep)
<1>. DEFINE D == Seq(Nat)
            Rec(it) == [t \in SUBSET (DOMAIN stages) |->
                          IF t = {} THEN lines ELSE Printed(stages[Max(t)], it[t \ {Max(t)}])]
            iter == CHOOSE it : it = Rec(it)
<1>1. PrintStep \in [D \X StagesInUse -> D] /\ lines \in D
  BY PrintStepTyped
<1>2. \A old \in D, s \in StagesInUse : PrintStep[<<old, s>>] = Printed(s, old)
  BY PrintStepTyped
<1>. HIDE DEF D
<1>3. iter = Rec(iter)
  <2>1. Iterators(D, lines, stages, PrintStep) # {}
    BY <1>1, FoldIterates
  <2>2. PICK it \in Iterators(D, lines, stages, PrintStep) : TRUE
    BY <2>1
  <2>3. it = Rec(it)
    <3>. SUFFICES ASSUME NEW t \in SUBSET (DOMAIN stages), t # {}
                  PROVE  it[t] = Printed(stages[Max(t)], it[t \ {Max(t)}])
      BY <2>2 DEF Iterators, Unfolds
    <3>1. stages[Max(t)] \in StagesInUse
      BY MaxInDomain
    <3>. QED  BY <1>2, <2>2, <3>1 DEF Iterators, Unfolds
  <2>. HIDE DEF Rec
  <2>. QED  BY <2>3
<1>4. Piped(lines, stages) = iter[DOMAIN stages]
  BY DEF Piped, FoldLeft, MapThenFoldSet
<1>. HIDE DEF iter
<1>5. Unfolds(iter, D, lines, stages, PrintStep)
  <2>1. ASSUME NEW t \in SUBSET (DOMAIN stages), t # {}, iter[t \ {Max(t)}] \in D
        PROVE  iter[t] = PrintStep[<<iter[t \ {Max(t)}], stages[Max(t)]>>]
    <3>1. stages[Max(t)] \in StagesInUse
      BY <2>1, MaxInDomain
    <3>2. iter[t] = Printed(stages[Max(t)], iter[t \ {Max(t)}])
      BY <1>3, <2>1
    <3>. QED  BY <1>2, <2>1, <3>1, <3>2
  <2>. QED  BY <1>3, <2>1 DEF Unfolds
<1>6. iter[DOMAIN stages] \in Outcomes(D, lines, stages, PrintStep)
  <2>. HIDE DEF Rec
  <2>. QED  BY <1>1, <1>5, FoldAlong
<1>. QED  BY <1>4, <1>6 DEF D

\* A pipe is its first stage, and the rest over what that prints.
LEMMA PipedNext ==
    ASSUME NEW lines \in Seq(Nat), NEW stages \in Seq(StagesInUse), stages # <<>>
    PROVE  Piped(lines, stages) = Piped(Printed(Head(stages), lines), Tail(stages))
<1>. DEFINE next == Printed(Head(stages), lines)
            rest == Tail(stages)
            N == Len(stages) - 1
<1>1. /\ Head(stages) = stages[1] /\ stages[1] \in StagesInUse
      /\ rest \in Seq(StagesInUse) /\ N \in Nat /\ Len(rest) = N /\ Len(stages) = N + 1
      /\ \A n \in 1..N : rest[n] = stages[n + 1]
  OBVIOUS
<1>2. next \in Seq(Nat)
  BY <1>1, PrintedTyped
<1>3. PICK f \in Runs(Seq(Nat), lines, stages, PrintStep) : Piped(lines, stages) = f[Len(stages)]
  BY PipedRuns DEF Outcomes
<1>. HIDE DEF next, rest, N
<1>4. PICK g \in Runs(Seq(Nat), next, rest, PrintStep) : Piped(next, rest) = g[Len(rest)]
  BY <1>1, <1>2, PipedRuns DEF Outcomes
<1>5. /\ f[0] = lines /\ \A n \in 0..(N + 1) : f[n] \in Seq(Nat)
      /\ \A n \in 1..(N + 1) : f[n] = PrintStep[<<f[n - 1], stages[n]>>]
  BY <1>1, <1>3 DEF Runs
<1>6. g[0] = next /\ \A n \in 1..N : g[n] = PrintStep[<<g[n - 1], rest[n]>>]
  BY <1>1, <1>4 DEF Runs
<1>. DEFINE Same == { n \in 0..N : g[n] = f[n + 1] }
<1>7. 0 \in Same
  <2>1. f[1] = PrintStep[<<f[0], stages[1]>>]
    BY <1>1, <1>5
  <2>2. PrintStep[<<lines, stages[1]>>] = next
    BY <1>1, PrintStepTyped DEF next
  <2>. QED  BY <1>1, <1>5, <1>6, <2>1, <2>2
<1>8. \A n \in 0..(N - 1) : n \in Same => n + 1 \in Same
  <2>. SUFFICES ASSUME NEW n \in 0..(N - 1), g[n] = f[n + 1] PROVE g[n + 1] = f[(n + 1) + 1]
    BY <1>1
  <2>1. n + 1 \in 1..N /\ (n + 1) - 1 = n
        /\ (n + 1) + 1 \in 1..(N + 1) /\ ((n + 1) + 1) - 1 = n + 1
    BY <1>1
  <2>2. g[n + 1] = PrintStep[<<g[n], rest[n + 1]>>]
    BY <1>6, <2>1
  <2>3. f[(n + 1) + 1] = PrintStep[<<f[n + 1], stages[(n + 1) + 1]>>]
    BY <1>5, <2>1
  <2>. QED  BY <1>1, <2>1, <2>2, <2>3
<1>9. \A n \in 0..N : n \in Same
  <2>. HIDE DEF Same
  <2>. QED  BY <1>1, <1>7, <1>8, StepsUpTo
<1>10. g[N] = f[N + 1]
  BY <1>1, <1>9
<1>. QED  BY <1>1, <1>3, <1>4, <1>10 DEF next, rest

\* A suffix is a sequence found from some position to the end.
LEMMA IsSuffixFrom ==
    ASSUME NEW R, NEW s \in Seq(R), NEW t \in Seq(R)
    PROVE  IsSuffix(s, t) <=>
               /\ Len(s) <= Len(t)
               /\ \A i \in 1..Len(s) : s[i] = t[Len(t) - Len(s) + i]
<1>1. /\ Len(s) \in Nat /\ Len(t) \in Nat /\ Len(Reverse(s)) = Len(s) /\ Len(Reverse(t)) = Len(t)
      /\ \A i \in 1..Len(s) : Reverse(s)[i] = s[(Len(s) - i) + 1]
      /\ \A i \in 1..Len(t) : Reverse(t)[i] = t[(Len(t) - i) + 1]
      /\ Reverse(s) \in Seq(R) /\ Reverse(t) \in Seq(R)
  BY DEF Reverse
<1>. SUFFICES ASSUME Len(s) <= Len(t)
              PROVE  IsSuffix(s, t) <=> \A i \in 1..Len(s) : s[i] = t[Len(t) - Len(s) + i]
  BY <1>1 DEF IsSuffix, IsPrefix
<1>2. IsSuffix(s, t) <=> SubSeq(Reverse(s), 1, Len(s)) = SubSeq(Reverse(t), 1, Len(s))
  BY <1>1 DEF IsSuffix, IsPrefix
<1>. DEFINE a == Reverse(s)
            b == Reverse(t)
            n == Len(s)
<1>3. SubSeq(a, 1, n) = SubSeq(b, 1, n) <=> \A i \in 1..n : a[i] = b[i]
  <2>1. a \in Seq(R) /\ b \in Seq(R) /\ n \in 0..Len(a) /\ n \in 0..Len(b)
    BY <1>1
  <2>. HIDE DEF a, b, n
  <2>2. SubSeq(a, 1, n) = [i \in 1..n |-> a[i]] /\ SubSeq(b, 1, n) = [i \in 1..n |-> b[i]]
    BY <2>1
  <2>. QED  BY <2>2
<1>4. (\A i \in 1..n : a[i] = b[i]) <=> \A i \in 1..n : s[n - i + 1] = t[Len(t) - i + 1]
  <2>1. \A i \in 1..n : a[i] = s[n - i + 1] /\ b[i] = t[Len(t) - i + 1]
    BY <1>1
  <2>. HIDE DEF a, b, n
  <2>. QED  BY <2>1
<1>5. (\A i \in 1..n : s[n - i + 1] = t[Len(t) - i + 1])
         <=> \A i \in 1..n : s[i] = t[Len(t) - n + i]
  <2>1. ASSUME NEW i \in 1..n, \A j \in 1..n : s[n - j + 1] = t[Len(t) - j + 1]
        PROVE  s[i] = t[Len(t) - n + i]
    <3>. DEFINE j == n - i + 1
    <3>1. j \in 1..n /\ n - j + 1 = i /\ Len(t) - j + 1 = Len(t) - n + i
      BY <1>1
    <3>. QED  BY <2>1, <3>1
  <2>2. ASSUME NEW i \in 1..n, \A j \in 1..n : s[j] = t[Len(t) - n + j]
        PROVE  s[n - i + 1] = t[Len(t) - i + 1]
    <3>. DEFINE j == n - i + 1
    <3>1. j \in 1..n /\ Len(t) - n + j = Len(t) - i + 1
      BY <1>1
    <3>. QED  BY <2>2, <3>1
  <2>. QED  BY <2>1, <2>2
<1>. QED  BY <1>2, <1>3, <1>4, <1>5

-----------------------------------------------------------------------------
(* Types.                                                                  *)

\* A stage folded into a request gives a request to the same kind of operation.
LEMMA FoldTyped ==
    ASSUME NEW s \in StagesInUse, NEW r \in AskedFor, CanFold(r.kind, s.pushdown)
    PROVE  Fold(s, r) \in AskedFor /\ Fold(s, r).kind = r.kind
<1>1. /\ IsStage(s)
      /\ s.tool \in {"head", "tail"} => s.arg \in Nat
      /\ s.tool \in {"grep", "filter"} => s.arg \in DOMAIN Matches
  BY StageTyped
<1>2. /\ s.tool \in {"head", "tail", "filter", "grep"}
      /\ s.pushdown = CASE s.tool = "head" -> "Limit" [] s.tool = "tail" -> "Offset"
                        [] s.tool = "grep" -> "GrepFilter" [] OTHER -> "FieldFilter"
  BY <1>1, NoneAssumption DEF IsStage, CanFold, Stage, PushdownOf, FieldFilter
<1>3. CASE s.tool = "head"
  BY <1>1, <1>2, <1>3, NoneAssumption DEF Fold, AskedFor, Requests
<1>4. CASE s.tool = "tail"
  BY <1>1, <1>2, <1>4, NoneAssumption DEF Fold, AskedFor, Requests
<1>5. CASE s.tool = "filter"
  <2>1. Matches[s.arg] \in SUBSET Nat
    BY <1>1, <1>5, MatchesAssumption
  <2>. QED  BY <1>2, <1>5, <2>1 DEF Fold, AskedFor, Requests
<1>6. CASE s.tool = "grep"
  BY <1>2, <1>6 DEF Fold, AskedFor, Requests
<1>. QED  BY <1>2, <1>3, <1>4, <1>5, <1>6

\* Only tail sets an offset and only head a limit.
LEMMA FoldAsks ==
    ASSUME NEW s \in StagesInUse, NEW r \in AskedFor, CanFold(r.kind, s.pushdown)
    PROVE  /\ Fold(s, r).offset = r.offset \/ s.tool = "tail"
           /\ Fold(s, r).limit = r.limit \/ (s.tool = "head" /\ Fold(s, r).limit = s.arg)
<1>1. /\ IsStage(s)
      /\ s.tool \in {"head", "tail"} => s.arg \in Nat
  BY StageTyped
<1>2. /\ s.tool \in {"head", "tail", "filter", "grep"}
      /\ s.pushdown = CASE s.tool = "head" -> "Limit" [] s.tool = "tail" -> "Offset"
                        [] s.tool = "grep" -> "GrepFilter" [] OTHER -> "FieldFilter"
  BY <1>1, NoneAssumption DEF IsStage, CanFold, Stage, PushdownOf, FieldFilter
<1>3. CASE s.tool = "head"
  BY <1>2, <1>3 DEF Fold, AskedFor, Requests
<1>4. CASE s.tool = "tail"
  BY <1>2, <1>4 DEF Fold, AskedFor, Requests
<1>5. CASE s.tool \in {"filter", "grep"}
  BY <1>2, <1>5 DEF Fold, AskedFor, Requests
<1>. QED  BY <1>2, <1>3, <1>4, <1>5

\* A stage of run_client_stages() leaves a payload.
LEMMA RunStageTyped ==
    ASSUME NEW s \in StagesInUse, NEW p \in Payloads
    PROVE  RunStage(s, p) \in Payloads
<1>1. p.lines \in Seq(Nat) /\ Printed(s, p.lines) \in Seq(Nat) /\ Len(p.lines) \in Nat
  BY PrintedTyped DEF Payloads
<1>2. CASE s.tool = "wc"
  BY <1>1, <1>2 DEF RunStage, Payloads
<1>3. CASE s.tool # "wc" /\ s.tool \in {"head", "tail", "grep", "sort"} /\ p.shape = "Records"
  <2>1. RunStage(s, p) = [p EXCEPT !.lines = Printed(s, p.lines)]
    BY <1>3 DEF RunStage, Payloads
  <2>. QED  BY <1>1, <2>1 DEF Payloads
<1>4. CASE s.tool # "wc" /\ ~(s.tool \in {"head", "tail", "grep", "sort"} /\ p.shape = "Records")
  BY <1>4 DEF RunStage
<1>. QED  BY <1>2, <1>3, <1>4

\* What a program brings along: its lead has no offset, and a limit only when it
\* is a search.
LEMMA ProgramTyped ==
    ASSUME NEW p \in Programs
    PROVE  /\ p.base \in AskedFor
           /\ p.base.offset = None
           /\ p.base.limit = IF p.base.kind = "VectorSearch" THEN DefaultCount ELSE None
           /\ p.stages \in Seq(StagesInUse) /\ p.stages \in Seq(Range(p.stages))
           /\ Range(p.stages) \subseteq StagesInUse
<1>1. p.base = Base(p.base.kind, p.base.filters) /\ p.base.kind \in LeadKinds
      /\ p.base.filters \subseteq SUBSET Nat /\ p.stages \in Seq(Range(p.stages))
  BY ProgramsAssumption
<1>2. Range(p.stages) \subseteq StagesInUse
  BY DEF StagesInUse
<1>3. p.stages \in Seq(StagesInUse)
  BY <1>1, <1>2
<1>4. /\ p.base \in AskedFor
      /\ p.base.offset = None
      /\ p.base.limit = IF p.base.kind = "VectorSearch" THEN DefaultCount ELSE None
  BY <1>1, DefaultCountAssumption, NoneAssumption DEF Base, AskedFor, Requests
<1>. QED  BY <1>1, <1>2, <1>3, <1>4

\* TypeOK, and that a vector search keeps its limit.
Typed == TypeOK /\ program \in Programs /\ request \in AskedFor

\* optimize() starts with all stages to look at.
LEMMA InitTyped == Init => Typed
<1>. SUFFICES ASSUME Init PROVE Typed
  OBVIOUS
<1>1. /\ program \in Programs /\ request = program.base /\ todo = program.stages
      /\ client = <<>> /\ payload = None /\ table \in Contents
  BY DEF Init
<1>2. program.base \in AskedFor /\ program.stages \in Seq(Range(program.stages))
  BY <1>1, ProgramTyped
<1>3. client \o todo = program.stages /\ <<>> \in Seq(Range(program.stages))
  BY <1>1, <1>2
<1>4. IsSuffix(client \o todo, program.stages)
  BY <1>2, <1>3, IsSuffixFrom
<1>. QED  BY <1>1, <1>2, <1>3, <1>4 DEF Typed, TypeOK, AskedFor

\* Dropping the first of what is left.
LEMMA SuffixTail ==
    ASSUME NEW R, NEW s \in Seq(R), NEW t \in Seq(R), s # <<>>, IsSuffix(s, t)
    PROVE  IsSuffix(Tail(s), t)
<1>1. /\ Len(s) <= Len(t) /\ Len(s) \in Nat \ {0} /\ Len(t) \in Nat
      /\ \A i \in 1..Len(s) : s[i] = t[Len(t) - Len(s) + i]
  BY IsSuffixFrom
<1>2. /\ Tail(s) \in Seq(R) /\ Len(Tail(s)) = Len(s) - 1
      /\ \A i \in 1..(Len(s) - 1) : Tail(s)[i] = s[i + 1]
  BY <1>1
<1>3. \A i \in 1..Len(Tail(s)) : Tail(s)[i] = t[Len(t) - Len(Tail(s)) + i]
  <2>. SUFFICES ASSUME NEW i \in 1..(Len(s) - 1)
                PROVE  Tail(s)[i] = t[Len(t) - (Len(s) - 1) + i]
    BY <1>1, <1>2
  <2>1. i + 1 \in 1..Len(s) /\ Len(t) - Len(s) + (i + 1) = Len(t) - (Len(s) - 1) + i
    BY <1>1
  <2>. QED  BY <1>1, <1>2, <2>1
<1>. DEFINE rest == Tail(s)
<1>4. /\ rest \in Seq(R) /\ Len(rest) <= Len(t)
      /\ \A i \in 1..Len(rest) : rest[i] = t[Len(t) - Len(rest) + i]
  BY <1>1, <1>2, <1>3
<1>. HIDE DEF rest
<1>5. IsSuffix(rest, t)
  BY <1>4, IsSuffixFrom
<1>. QED  BY <1>5 DEF rest

\* What dispatch_op() answers is a payload.
LEMMA AnswerTyped ==
    ASSUME Typed
    PROVE  [shape |-> PayloadOf(request.kind), lines |-> Serve(request, table)] \in Payloads
<1>1. Serve(request, table) \in Seq(Nat)
  BY ContentsAssumption, ServeTyped DEF Typed, TypeOK
<1>2. PayloadOf(request.kind) \in {"Records", "Listing", "Info", "Written"}
  BY ProgramsAssumption DEF Typed, TypeOK, PayloadOf, LeadKinds
<1>. QED  BY <1>1, <1>2 DEF Payloads

\* A stage looked at goes to the request or to the end of the client's, and those
\* of the client run from the first.
LEMMA NextTyped == Typed /\ [Next]_vars => Typed'
<1>. SUFFICES ASSUME Typed, [Next]_vars PROVE Typed'
  OBVIOUS
<1>. DEFINE R == Range(program.stages)
<1>0. /\ table \in Contents /\ request \in AskedFor /\ request.kind = program.base.kind
      /\ payload # None => payload \in Payloads /\ todo = <<>>
      /\ client \in Seq(R) /\ todo \in Seq(R) /\ program \in Programs
      /\ IsSuffix(client \o todo, program.stages)
      /\ payload = None /\ client # <<>> => ~CanFold(request.kind, Head(client).pushdown)
      /\ program.stages \in Seq(R) /\ R \subseteq StagesInUse
  BY ProgramTyped DEF Typed, TypeOK
<1>. HIDE DEF R
<1>1. ASSUME Optimize PROVE Typed'
  <2>. DEFINE s == Head(todo)
              rest == Tail(todo)
  <2>1. /\ todo # <<>> /\ todo' = rest /\ payload = None
        /\ UNCHANGED <<table, program, payload>>
    BY <1>0, <1>1 DEF Optimize
  <2>2. s \in R /\ rest \in Seq(R) /\ todo = <<s>> \o rest /\ s \in StagesInUse
    BY <1>0, <2>1
  <2>3. CASE ~HitBoundary /\ CanFold(request.kind, s.pushdown)
    <3>1. client = <<>> /\ client' = <<>> /\ request' = Fold(s, request)
      BY <1>1, <2>3 DEF Optimize, HitBoundary
    <3>2. request' \in AskedFor /\ request'.kind = program.base.kind
      BY <1>0, <2>2, <2>3, <3>1, FoldTyped
    <3>3. IsSuffix(client' \o todo', program.stages)
      <4>1. client \o todo = todo /\ client' \o todo' = Tail(todo)
        BY <1>0, <2>1, <2>2, <3>1
      <4>. QED  BY <1>0, <2>1, <4>1, SuffixTail
    <3>. QED  BY <1>0, <2>1, <2>2, <3>1, <3>2, <3>3 DEF Typed, TypeOK, AskedFor, R
  <2>4. CASE ~(~HitBoundary /\ CanFold(request.kind, s.pushdown))
    <3>1. client' = Append(client, s) /\ UNCHANGED request
      BY <1>1, <2>4 DEF Optimize
    <3>2. client' \in Seq(R) /\ client' # <<>>
      BY <1>0, <2>2, <3>1
    <3>. HIDE DEF s, rest
    <3>3. client' \o todo' = client \o todo
      BY <1>0, <2>1, <2>2, <3>1
    <3>4. ~CanFold(request.kind, Head(client').pushdown)
      <4>1. CASE client = <<>>
        BY <2>2, <2>4, <3>1, <4>1 DEF HitBoundary
      <4>2. CASE client # <<>>
        BY <1>0, <2>1, <2>2, <3>1, <4>2
      <4>. QED  BY <4>1, <4>2
    <3>. QED  BY <1>0, <2>1, <2>2, <3>1, <3>2, <3>3, <3>4 DEF Typed, TypeOK, AskedFor, R
  <2>. QED  BY <2>3, <2>4
<1>2. ASSUME Dispatch PROVE Typed'
  <2>1. /\ todo = <<>> /\ UNCHANGED <<table, program, request, todo, client>>
        /\ payload' = [shape |-> PayloadOf(request.kind), lines |-> Serve(request, table)]
    BY <1>2 DEF Dispatch
  <2>2. payload' \in Payloads
    BY <2>1, AnswerTyped
  <2>. QED  BY <1>0, <2>1, <2>2, NoneAssumption DEF Typed, TypeOK, AskedFor, R
<1>3. ASSUME RunClientStage PROVE Typed'
  <2>. DEFINE s == Head(client)
              rest == Tail(client)
  <2>1. /\ client # <<>> /\ client' = rest /\ payload # None
        /\ payload' = RunStage(s, payload)
        /\ UNCHANGED <<table, program, request, todo>>
    BY <1>3 DEF RunClientStage
  <2>2. s \in StagesInUse /\ rest \in Seq(R) /\ todo = <<>> /\ payload \in Payloads
    BY <1>0, <2>1
  <2>3. payload' \in Payloads
    BY <2>1, <2>2, RunStageTyped
  <2>4. IsSuffix(client' \o todo', program.stages)
    <3>1. client \o todo = client /\ client' \o todo' = Tail(client)
      BY <1>0, <2>1, <2>2
    <3>. QED  BY <1>0, <2>1, <3>1, SuffixTail
  <2>. QED  BY <1>0, <2>1, <2>2, <2>3, <2>4, NoneAssumption DEF Typed, TypeOK, AskedFor, R
<1>4. CASE UNCHANGED vars
  BY <1>4 DEF vars, Typed, TypeOK, AskedFor
<1>. QED  BY <1>1, <1>2, <1>3, <1>4 DEF Next

(* No stage of a chain is lost, doubled or moved on its way through the    *)
(* optimizer and the client.                                               *)
THEOREM PipelineTypeCorrect == Spec => []TypeOK
<1>1. Typed => TypeOK
  BY DEF Typed
<1>. QED  BY <1>1, InitTyped, NextTyped, PTL DEF Spec

-----------------------------------------------------------------------------
(* What is still to be done, and what has been asked for.                  *)

\* How many stages have been folded or run.
Left == client \o todo
\* How many stages have gone to the driver or have run.
Done == Len(program.stages) - Len(Left)

\* The request asks for what the stages folded so far do.
RequestOf ==
    LET did(i, tool) == i \in 1..Done /\ program.stages[i].tool = tool
    IN  /\ 1..Done \subseteq Folded(program)
        /\ request.offset # None => \E i \in 1..Done : did(i, "tail")
        /\ request.limit \in {None, program.base.limit}
               \/ \E i \in 1..Done : did(i, "head") /\ program.stages[i].arg = request.limit

\* What the client is still to run could not be folded, and there is no more
\* of it once the rows have been counted.
ClientRuns ==
    /\ client # <<>> => Done + 1 \notin Folded(program)
    /\ payload # None /\ client # <<>> /\ Orderly(program) =>
           payload.shape = PayloadOf(program.base.kind)

\* The inductive invariant.
Inductive ==
    /\ Typed
    /\ payload = None => RequestOf
    /\ ClientRuns
    /\ OrderlyPlansKeepOutput

\* What is left is the program's own end.
LEMMA LeftOf ==
    ASSUME Typed
    PROVE  /\ program \in Programs
           /\ Len(program.stages) \in Nat /\ DOMAIN program.stages = 1..Len(program.stages)
           /\ program.stages \in Seq(StagesInUse)
           /\ Left \in Seq(StagesInUse) /\ Len(Left) \in Nat /\ Done \in 0..Len(program.stages)
           /\ Len(Left) = Len(program.stages) - Done
           /\ \A i \in 1..Len(Left) : Left[i] = program.stages[Done + i]
<1>. DEFINE R == Range(program.stages)
<1>1. /\ program \in Programs /\ program.stages \in Seq(R) /\ R \subseteq StagesInUse
      /\ program.stages \in Seq(StagesInUse)
      /\ client \in Seq(R) /\ todo \in Seq(R) /\ IsSuffix(Left, program.stages)
  BY ProgramTyped DEF Typed, TypeOK, Left
<1>. HIDE DEF R
<1>2. Left \in Seq(R) /\ Left \in Seq(StagesInUse)
  BY <1>1 DEF Left
<1>3. /\ Len(Left) <= Len(program.stages)
      /\ \A i \in 1..Len(Left) : Left[i] = program.stages[Len(program.stages) - Len(Left) + i]
  BY <1>1, <1>2, IsSuffixFrom
<1>4. Len(program.stages) \in Nat /\ Len(Left) \in Nat /\ DOMAIN program.stages = 1..Len(program.stages)
  BY <1>1, <1>2
<1>. QED  BY <1>1, <1>2, <1>3, <1>4 DEF Done

\* Taking the first of what is left.
LEMMA LeftNext ==
    ASSUME Typed, Left # <<>>
    PROVE  /\ Head(Left) \in StagesInUse /\ Head(Left) = program.stages[Done + 1]
           /\ Done + 1 \in 1..Len(program.stages)
           /\ Len(Tail(Left)) = Len(Left) - 1
<1>1. Len(Left) \in Nat \ {0} /\ Head(Left) = Left[1] /\ Len(Tail(Left)) = Len(Left) - 1
      /\ Left[1] \in StagesInUse
  BY LeftOf
<1>. QED  BY <1>1, LeftOf

\* A stage goes to the driver if it can and those before it went.
LEMMA FoldedUpTo ==
    ASSUME NEW p \in Programs, NEW n \in Nat, n + 1 \in DOMAIN p.stages
    PROVE  /\ n + 1 \in Folded(p) => 1..n \subseteq Folded(p)
           /\ n + 1 \in Folded(p) => CanFold(p.base.kind, p.stages[n + 1].pushdown)
           /\ 1..n \subseteq Folded(p) /\ CanFold(p.base.kind, p.stages[n + 1].pushdown) =>
                  1..(n + 1) \subseteq Folded(p)
<1>1. DOMAIN p.stages = 1..Len(p.stages) /\ Len(p.stages) \in Nat
  BY ProgramTyped
<1>2. \A i \in Folded(p) : i \in 1..Len(p.stages) /\ CanFold(p.base.kind, p.stages[i].pushdown)
  BY <1>1 DEF Folded
<1>3. n + 1 \in Folded(p) => 1..n \subseteq Folded(p)
  BY <1>1 DEF Folded
<1>4. ASSUME 1..n \subseteq Folded(p), CanFold(p.base.kind, p.stages[n + 1].pushdown)
      PROVE  1..(n + 1) \subseteq Folded(p)
  <2>1. \A j \in 1..(n + 1) : CanFold(p.base.kind, p.stages[j].pushdown)
    BY <1>2, <1>4
  <2>. QED  BY <1>1, <2>1 DEF Folded
<1>. QED  BY <1>2, <1>3, <1>4

\* Before anything is folded the output is the pipe's by definition.
LEMMA InitInductive == Init => Inductive
<1>. SUFFICES ASSUME Init PROVE Inductive
  OBVIOUS
<1>1. Typed
  BY InitTyped
<1>2. /\ program \in Programs /\ request = program.base /\ todo = program.stages
      /\ client = <<>> /\ payload = None
  BY DEF Init
<1>3. program.base.offset = None /\ program.stages \in Seq(StagesInUse)
  BY <1>2, ProgramTyped
<1>4. Left = program.stages /\ client \o todo = program.stages /\ Done = 0
  BY <1>2, <1>3 DEF Left, Done
<1>5. RequestOf
  BY <1>2, <1>3, <1>4 DEF RequestOf
<1>6. PlanKeepsOutput
  BY <1>2, <1>4 DEF PlanKeepsOutput, Shown
<1>. QED  BY <1>1, <1>2, <1>5, <1>6 DEF Inductive, ClientRuns, OrderlyPlansKeepOutput

-----------------------------------------------------------------------------
(* Orderly chains.                                                         *)

\* The pushdown of a stage tells its tool.
LEMMA PushdownOfStage ==
    ASSUME NEW s \in StagesInUse
    PROVE  /\ s.tool = "filter" => s.pushdown = "FieldFilter"
           /\ s.tool # "filter" => s.pushdown = PushdownOf(s.tool)
  BY StageTyped DEF IsStage, Stage, FieldFilter

(* In an orderly chain the next stage to be folded comes after those the   *)
(* driver heeds before it, and asks for no more rows than they do.         *)
LEMMA OrderlyFolds ==
    ASSUME Typed, RequestOf, Orderly(program), Left # <<>>,
           CanFold(program.base.kind, Head(Left).pushdown)
    PROVE  Serve(Fold(Head(Left), request), table) = Printed(Head(Left), Serve(request, table))
<1>. DEFINE s == Head(Left)
            p == program
            n == Done + 1
<1>1. /\ s \in StagesInUse /\ s = p.stages[n] /\ n \in DOMAIN p.stages /\ Done \in Nat
      /\ p \in Programs /\ n - 1 = Done
  <2>1. Done \in Nat /\ program \in Programs /\ DOMAIN program.stages = 1..Len(program.stages)
    BY LeftOf
  <2>2. /\ Head(Left) \in StagesInUse /\ Head(Left) = program.stages[Done + 1]
        /\ Done + 1 \in 1..Len(program.stages)
    BY LeftNext
  <2>. QED  BY <2>1, <2>2
<1>2. /\ 1..Done \subseteq Folded(p) /\ 1..n \subseteq Folded(p) /\ n \in Folded(p)
  BY <1>1, FoldedUpTo DEF RequestOf
<1>3. /\ s.tool # "grep"
      /\ s.tool = "head" /\ p.base.limit # None => s.arg <= p.base.limit
      /\ \A j \in 1..Done :
            /\ s.tool \in {"filter", "tail"} => p.stages[j].tool = "filter"
            /\ s.tool = "head" /\ p.stages[j].tool = "head" => s.arg <= p.stages[j].arg
  BY <1>1, <1>2 DEF Orderly
<1>4. /\ request \in AskedFor /\ request.kind = p.base.kind /\ table \in Seq(Nat)
      /\ p.base.limit = IF p.base.kind = "VectorSearch" THEN DefaultCount ELSE None
      /\ request.offset # None => \E i \in 1..Done : p.stages[i].tool = "tail"
      /\ request.limit \in {None, p.base.limit}
            \/ \E i \in 1..Done : p.stages[i].tool = "head" /\ p.stages[i].arg = request.limit
  BY <1>1, ProgramTyped, ContentsAssumption DEF Typed, TypeOK, RequestOf
<1>5. s.tool \in {"filter", "tail"} => p.base.kind # "VectorSearch"
  BY <1>1, PushdownOfStage DEF CanFold, PushdownOf
<1>. HIDE DEF s, p, n
<1>6. s.tool \in {"filter", "tail"} => request.offset = None /\ request.limit = None
  BY <1>3, <1>4, <1>5
<1>7. s.tool = "head" => request.limit = None \/ s.arg <= request.limit
  BY <1>3, <1>4
<1>8. CanFold(request.kind, s.pushdown)
  BY <1>4 DEF s, p
<1>9. Serve(Fold(s, request), table) = Printed(s, Serve(request, table))
  BY <1>1, <1>3, <1>4, <1>6, <1>7, <1>8, FoldPrints
<1>. QED  BY <1>9 DEF s

(* A stage left to the client prints there what it would print in a pipe.  *)
LEMMA OrderlyRuns ==
    ASSUME Typed, ClientRuns, Orderly(program), payload # None, client # <<>>
    PROVE  /\ RunStage(Head(client), payload).lines = Printed(Head(client), payload.lines)
           /\ Tail(client) # <<>> =>
                  RunStage(Head(client), payload).shape = PayloadOf(program.base.kind)
<1>. DEFINE s == Head(client)
            p == program
            n == Done + 1
            rest == Tail(client)
<1>1. /\ client \in Seq(Range(p.stages)) /\ todo = <<>> /\ payload \in Payloads
      /\ payload.shape = PayloadOf(p.base.kind) /\ n \notin Folded(p)
  BY DEF Typed, TypeOK, ClientRuns
<1>2. Left = client
  BY <1>1 DEF Left
<1>3. /\ s \in StagesInUse /\ s = p.stages[n] /\ n \in DOMAIN p.stages
      /\ Len(client) = Len(p.stages) - Done /\ Len(p.stages) \in Nat /\ Done \in Nat
  BY <1>2, LeftOf, LeftNext
<1>4. n = Len(p.stages) => rest = <<>>
  BY <1>1, <1>3
<1>5. /\ s.tool # "filter"
      /\ s.tool = "wc" => n = Len(p.stages)
      /\ \/ PayloadOf(p.base.kind) = "Records"
         \/ PayloadOf(p.base.kind) = "Listing" /\ s.tool = "wc"
  BY <1>1, <1>3 DEF Orderly
<1>6. s.tool \in {"head", "tail", "grep", "sort", "wc", "filter"}
  BY <1>3, StageTyped DEF IsStage
<1>. HIDE DEF s, p, n, rest
<1>7. CASE s.tool = "wc"
  <2>1. rest = <<>>
    BY <1>4, <1>5, <1>7
  <2>2. RunStage(s, payload).lines = Printed(s, payload.lines)
    BY <1>1, <1>5, <1>7 DEF RunStage, Printed
  <2>. QED  BY <2>1, <2>2 DEF s, rest
<1>8. CASE s.tool # "wc"
  <2>1. s.tool \in {"head", "tail", "grep", "sort"} /\ payload.shape = "Records"
    BY <1>1, <1>5, <1>6, <1>8
  <2>2. RunStage(s, payload) = [payload EXCEPT !.lines = Printed(s, payload.lines)]
    BY <2>1 DEF RunStage
  <2>3. /\ RunStage(s, payload).lines = Printed(s, payload.lines)
        /\ RunStage(s, payload).shape = payload.shape
    BY <1>1, <2>2 DEF Payloads
  <2>. QED  BY <1>1, <2>3 DEF s, p
<1>. QED  BY <1>7, <1>8

\* A stage folded, an answer, a stage run: the rest of the chain makes the same
\* output of it.
LEMMA NextInductive == Inductive /\ [Next]_vars => Inductive'
<1>. SUFFICES ASSUME Inductive, [Next]_vars PROVE Inductive'
  OBVIOUS
<1>. DEFINE base == Piped(Serve(program.base, table), program.stages)
<1>0. /\ Typed /\ Typed' /\ (payload = None => RequestOf) /\ ClientRuns
      /\ Orderly(program) => Piped(Shown, Left) = base
      /\ table \in Contents /\ table \in Seq(Nat) /\ request \in AskedFor
      /\ request.kind = program.base.kind
      /\ payload # None => payload \in Payloads /\ todo = <<>>
      /\ client \in Seq(Range(program.stages)) /\ todo \in Seq(Range(program.stages))
  BY NextTyped, ContentsAssumption
  DEF Inductive, OrderlyPlansKeepOutput, PlanKeepsOutput, Left, Typed, TypeOK
<1>1. ASSUME Optimize PROVE Inductive'
  <2>. DEFINE s == Head(todo)
  <2>1. /\ todo # <<>> /\ todo' = Tail(todo) /\ payload = None /\ payload' = None
        /\ table' = table /\ program' = program
    BY <1>0, <1>1 DEF Optimize
  <2>2. RequestOf /\ Shown = Serve(request, table) /\ Shown' = Serve(request', table)
    BY <1>0, <2>1 DEF Shown
  <2>3. CASE ~HitBoundary /\ CanFold(request.kind, s.pushdown)
    <3>1. client = <<>> /\ client' = <<>> /\ request' = Fold(s, request)
      BY <1>1, <2>3 DEF Optimize, HitBoundary
    <3>2. Left = todo /\ Left' = Tail(todo)
      BY <1>0, <2>1, <3>1 DEF Left
    <3>3. /\ s \in StagesInUse /\ s = program.stages[Done + 1]
          /\ Done + 1 \in DOMAIN program.stages /\ Done \in Nat /\ Done' = Done + 1
          /\ program \in Programs
      <4>1. Len(Left') = Len(Left) - 1
        BY <1>0, <2>1, <3>2, LeftNext
      <4>2. Len(Left) = Len(program.stages) - Done /\ Len(program.stages) \in Nat /\ Done \in Nat
        BY <1>0, LeftOf
      <4>3. Done' = Len(program.stages) - Len(Left')
        BY <2>1 DEF Done
      <4>4. Done' = Done + 1
        BY <4>1, <4>2, <4>3
      <4>. QED  BY <1>0, <2>1, <3>2, <4>2, <4>4, LeftOf, LeftNext
    <3>4. 1..(Done + 1) \subseteq Folded(program)
      BY <1>0, <2>2, <2>3, <3>3, FoldedUpTo DEF RequestOf
    <3>5. RequestOf'
      <4>1. /\ request'.offset = request.offset \/ s.tool = "tail"
            /\ request'.limit = request.limit \/ (s.tool = "head" /\ request'.limit = s.arg)
        BY <1>0, <2>3, <3>1, <3>3, FoldAsks
      <4>2. /\ 1..(Done + 1) = 1..Done \cup {Done + 1} /\ Done + 1 \in 1..(Done + 1)
        BY <3>3
      <4>3. request'.offset # None =>
                \E i \in 1..(Done + 1) : program.stages[i].tool = "tail"
        BY <2>2, <3>3, <4>1, <4>2 DEF RequestOf
      <4>4. request'.limit \in {None, program.base.limit}
              \/ \E i \in 1..(Done + 1) :
                    program.stages[i].tool = "head" /\ program.stages[i].arg = request'.limit
        BY <2>2, <3>3, <4>1, <4>2 DEF RequestOf
      <4>. QED  BY <2>1, <3>3, <3>4, <4>3, <4>4 DEF RequestOf
    <3>6. ASSUME Orderly(program) PROVE Piped(Shown', Left') = base
      <4>1. Serve(request', table) = Printed(s, Serve(request, table))
        BY <1>0, <2>1, <2>2, <2>3, <3>1, <3>2, <3>6, OrderlyFolds
      <4>2. Piped(Serve(request, table), Left)
              = Piped(Printed(s, Serve(request, table)), Tail(Left))
        BY <1>0, <2>1, <3>2, ServeTyped, LeftOf, PipedNext
      <4>. QED  BY <1>0, <2>2, <3>2, <3>6, <4>1, <4>2
    <3>. QED
      BY <1>0, <2>1, <3>1, <3>5, <3>6
      DEF Inductive, ClientRuns, OrderlyPlansKeepOutput, PlanKeepsOutput, Left
  <2>4. CASE ~(~HitBoundary /\ CanFold(request.kind, s.pushdown))
    <3>1. client' = Append(client, s) /\ request' = request
      BY <1>1, <2>4 DEF Optimize
    <3>2. Left' = Left /\ Left # <<>>
      BY <1>0, <2>1, <3>1 DEF Left
    <3>3. Done' = Done
      BY <2>1, <3>2 DEF Done
    <3>4. Done + 1 \notin Folded(program)
      <4>1. CASE client # <<>>
        BY <1>0, <4>1 DEF ClientRuns
      <4>2. CASE client = <<>>
        <5>1. Left = todo
          BY <1>0, <4>2 DEF Left
        <5>2. /\ s = program.stages[Done + 1] /\ Done + 1 \in DOMAIN program.stages
              /\ Done \in Nat /\ program \in Programs
          BY <1>0, <3>2, <5>1, LeftOf, LeftNext
        <5>. QED  BY <1>0, <2>4, <4>2, <5>2, FoldedUpTo DEF HitBoundary
      <4>. QED  BY <4>1, <4>2
    <3>5. RequestOf'
      BY <2>1, <2>2, <3>1, <3>3 DEF RequestOf
    <3>6. ASSUME Orderly(program) PROVE Piped(Shown', Left') = base
      BY <1>0, <2>2, <3>1, <3>2, <3>6
    <3>. QED
      BY <1>0, <2>1, <3>3, <3>4, <3>5, <3>6
      DEF Inductive, ClientRuns, OrderlyPlansKeepOutput, PlanKeepsOutput, Left
  <2>. QED  BY <2>3, <2>4
<1>2. ASSUME Dispatch PROVE Inductive'
  <2>1. /\ payload = None /\ UNCHANGED <<table, program, request, todo, client>>
        /\ payload' = [shape |-> PayloadOf(request.kind), lines |-> Serve(request, table)]
    BY <1>2 DEF Dispatch
  <2>2. payload' \in Payloads /\ payload' # None
    BY <1>0, <2>1, AnswerTyped, NoneAssumption
  <2>3. /\ Shown' = Shown /\ payload'.shape = PayloadOf(program.base.kind)
        /\ Left' = Left /\ program' = program /\ table' = table /\ client' = client
    BY <1>0, <2>1, <2>2 DEF Shown, Left
  <2>4. Done' = Done
    BY <2>3 DEF Done
  <2>. QED
    BY <1>0, <2>2, <2>3, <2>4
    DEF Inductive, ClientRuns, OrderlyPlansKeepOutput, PlanKeepsOutput, Left
<1>3. ASSUME RunClientStage PROVE Inductive'
  <2>. DEFINE s == Head(client)
  <2>1. /\ client # <<>> /\ client' = Tail(client) /\ payload # None /\ todo = <<>>
        /\ payload' = RunStage(s, payload) /\ payload \in Payloads
        /\ UNCHANGED <<table, program, request, todo>>
    BY <1>0, <1>3 DEF RunClientStage
  <2>2. Left = client /\ Left' = Tail(client)
    BY <1>0, <2>1 DEF Left
  <2>3. s \in StagesInUse /\ Done + 1 \in DOMAIN program.stages /\ Done \in Nat
        /\ program \in Programs /\ Done' = Done + 1
        /\ (client' # <<>> => (Done + 1) + 1 \in DOMAIN program.stages)
    <3>1. Len(Left') = Len(Left) - 1
      BY <1>0, <2>1, <2>2, LeftNext
    <3>2. /\ Len(Left) = Len(program.stages) - Done /\ Len(program.stages) \in Nat
          /\ DOMAIN program.stages = 1..Len(program.stages)
          /\ Done \in Nat /\ Left \in Seq(StagesInUse)
      BY <1>0, LeftOf
    <3>3. Done' = Len(program.stages) - Len(Left')
      BY <2>1 DEF Done
    <3>4. Done' = Done + 1
      BY <3>1, <3>2, <3>3
    <3>5. Left' # <<>> => Len(Left') > 0
      BY <2>2, <3>2
    <3>6. client' # <<>> => (Done + 1) + 1 \in DOMAIN program.stages
      BY <2>1, <2>2, <3>1, <3>2, <3>5
    <3>. QED  BY <1>0, <2>1, <2>2, <3>2, <3>4, <3>6, LeftOf, LeftNext
  <2>4. payload' # None
    BY <1>0, <2>1, <2>3, RunStageTyped, NoneAssumption
  <2>5. client' # <<>> => Done' + 1 \notin Folded(program)
    <3>1. Done + 1 \notin Folded(program) /\ Done + 1 \in 1..(Done + 1)
      BY <1>0, <2>1, <2>3 DEF ClientRuns
    <3>2. Done + 1 \in Nat
      BY <2>3
    <3>. QED  BY <2>3, <3>1, <3>2, FoldedUpTo
  <2>6. ASSUME Orderly(program)
        PROVE  /\ Piped(Shown', Left') = base
               /\ client' # <<>> => payload'.shape = PayloadOf(program.base.kind)
    <3>1. /\ payload'.lines = Printed(s, payload.lines)
          /\ client' # <<>> => payload'.shape = PayloadOf(program.base.kind)
      BY <1>0, <2>1, <2>6, OrderlyRuns
    <3>2. Shown = payload.lines /\ Shown' = payload'.lines
      BY <2>1, <2>4 DEF Shown
    <3>3. payload.lines \in Seq(Nat)
      BY <2>1 DEF Payloads
    <3>4. Piped(payload.lines, Left) = Piped(Printed(s, payload.lines), Tail(Left))
      BY <1>0, <2>1, <2>2, <3>3, LeftOf, PipedNext
    <3>. QED  BY <1>0, <2>2, <2>6, <3>1, <3>2, <3>4
  <2>. QED
    BY <1>0, <2>1, <2>4, <2>5, <2>6
    DEF Inductive, ClientRuns, OrderlyPlansKeepOutput, PlanKeepsOutput, Left
<1>4. CASE UNCHANGED vars
  BY <1>0, <1>4
  DEF vars, Inductive, RequestOf, ClientRuns, OrderlyPlansKeepOutput, PlanKeepsOutput, Shown, Left, Done
<1>. QED  BY <1>1, <1>2, <1>3, <1>4 DEF Next

(* Whatever orderly chain is piped behind whatever lead, over any rows:    *)
(* the stages folded into the request, the driver's order of filter,       *)
(* offset and limit and the stages left to the client print together what  *)
(* the pipe prints.                                                        *)
THEOREM OrderlyPlansArePipes == Spec => []OrderlyPlansKeepOutput
<1>1. Inductive => OrderlyPlansKeepOutput
  BY DEF Inductive
<1>. QED  BY <1>1, InitInductive, NextInductive, PTL DEF Spec
===============================================================================
