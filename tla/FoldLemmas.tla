------------------------------ MODULE FoldLemmas ------------------------------
(***************************************************************************)
(* Facts about FoldLeft, and about the filter Kept made of it, for         *)
(* sequences of any length. What a fold computes is a question for         *)
(* induction along the sequence. It is had here from the well-founded      *)
(* ordering of finite sets by inclusion, which the library proves: a set   *)
(* of numbers has a least one (LeastNumber), so what passes from n to n +  *)
(* 1 holds of all (StepsUpTo). FoldLeft is one CHOOSE over the subsets of  *)
(* the positions of the sequence, shown to have a value (FoldIterates)     *)
(* and then followed along the sequence (FoldAlong). Every operator        *)
(* folded has a lemma like KeptSteps of its own, since a lemma cannot      *)
(* take the operator as a parameter.                                       *)
(***************************************************************************)
EXTENDS Kept, SequencesExt, FiniteSetTheorems, SequenceTheorems, WellFoundedInduction, TLAPS

\* Among the intervals 0..n of the set the smallest is finite, which is what
\* the well-founded ordering of finite sets by inclusion needs.
LEMMA LeastNumber ==
    ASSUME NEW T, T \subseteq Nat, T # {}
    PROVE  \E n \in T : \A m \in T : n <= m
<1>. DEFINE Initial == { 0..n : n \in T }
<1>1. Initial \subseteq FiniteSubsetsOf(Nat)
  <2>1. \A n \in T : IsFiniteSet(0..n)
    BY FS_Interval
  <2>. QED  BY <2>1 DEF FiniteSubsetsOf
<1>2. Initial # {}
  OBVIOUS
<1>. HIDE DEF Initial
<1>3. PICK x \in Initial : \A y \in Initial : <<y, x>> \notin StrictSubsetOrdering(Nat)
  <2>1. IsWellFoundedOn(StrictSubsetOrdering(Nat), FiniteSubsetsOf(Nat))
    BY FS_StrictSubsetOrderingWellFounded
  <2>. QED  BY <1>1, <1>2, <2>1, WFMin
<1>4. PICK n \in T : x = 0..n
  BY <1>3 DEF Initial
<1>5. \A m \in T : n <= m
  <2>. SUFFICES ASSUME NEW m \in T, ~(n <= m) PROVE FALSE
    OBVIOUS
  <2>1. n \in Nat /\ m \in Nat /\ m < n
    OBVIOUS
  <2>2. 0..m \subseteq 0..n /\ n \in 0..n /\ n \notin 0..m
    BY <2>1
  <2>3. 0..m \in Initial
    BY DEF Initial
  <2>4. <<0..m, 0..n>> \in StrictSubsetOrdering(Nat)
    BY <2>1, <2>2 DEF StrictSubsetOrdering
  <2>. QED  BY <1>3, <1>4, <2>3, <2>4
<1>. QED  BY <1>4, <1>5

\* What holds of 0, and of n + 1 when it holds of n, holds up to any N.
LEMMA StepsUpTo ==
    ASSUME NEW S, NEW N \in Nat, 0 \in S, \A n \in 0..(N - 1) : n \in S => n + 1 \in S
    PROVE  \A n \in 0..N : n \in S
<1>. SUFFICES ASSUME NEW k \in 0..N, k \notin S PROVE FALSE
  OBVIOUS
<1>. DEFINE Bad == { n \in 0..N : n \notin S }
<1>1. Bad \subseteq Nat /\ Bad # {}
  OBVIOUS
<1>2. PICK n \in Bad : \A m \in Bad : n <= m
  BY <1>1, LeastNumber
<1>3. n \in 1..N
  BY <1>2
<1>4. n - 1 \in S
  BY <1>2, <1>3
<1>. QED  BY <1>2, <1>3, <1>4

\* Max of the community modules is a CHOOSE: here is what it chooses.
LEMMA MaxOf ==
    ASSUME NEW N \in Nat, NEW T, T \subseteq 0..N, T # {}
    PROVE  Max(T) \in T /\ \A n \in T : Max(T) >= n
<1>. DEFINE Below == { b \in 0..N : N - b \in T }
<1>1. Below \subseteq Nat /\ Below # {}
  <2>1. PICK n \in T : n \in 0..N
    OBVIOUS
  <2>2. N - n \in 0..N /\ N - (N - n) = n
    BY <2>1
  <2>3. N - n \in Below
    BY <2>1, <2>2
  <2>4. Below \subseteq Nat
    OBVIOUS
  <2>. QED  BY <2>3, <2>4
<1>2. PICK b \in Below : \A c \in Below : b <= c
  <2>. HIDE DEF Below
  <2>. QED  BY <1>1, LeastNumber
<1>3. \A m \in T : N - b >= m
  <2>. SUFFICES ASSUME NEW m \in T PROVE N - b >= m
    OBVIOUS
  <2>1. m \in 0..N
    OBVIOUS
  <2>2. N - m \in 0..N /\ N - (N - m) = m
    BY <2>1
  <2>3. N - m \in Below
    BY <2>2
  <2>4. b <= N - m /\ b \in 0..N
    BY <1>2, <2>3
  <2>. QED  BY <2>1, <2>4
<1>. QED  BY <1>2, <1>3 DEF Max

\* The same for Min, which SelectInSeq uses.
LEMMA MinOf ==
    ASSUME NEW T, T \subseteq Nat, T # {}
    PROVE  Min(T) \in T /\ \A n \in T : Min(T) <= n
<1>1. PICK n \in T : \A m \in T : n <= m
  BY LeastNumber
<1>. QED  BY <1>1 DEF Min

\* FoldLeft takes the positions of a sequence off its domain from the last.
LEMMA MaxOfInterval ==
    ASSUME NEW n \in Nat \ {0}
    PROVE  Max(1..n) = n /\ (1..n) \ {n} = 1..(n - 1) /\ 1..n # {}
<1>. DEFINE T == 1..n
<1>1. n \in Nat /\ n \in T /\ T \subseteq 0..n /\ T # {}
  OBVIOUS
<1>2. \A m \in T : m \in Nat /\ m <= n
  OBVIOUS
<1>3. T \ {n} = 1..(n - 1)
  OBVIOUS
<1>. HIDE DEF T
<1>4. Max(T) \in T /\ \A m \in T : Max(T) >= m
  BY <1>1, MaxOf
<1>5. Max(T) \in Nat
  BY <1>2, <1>4
<1>6. Max(T) = n
  BY <1>1, <1>2, <1>4, <1>5
<1>. QED  BY <1>1, <1>3, <1>6 DEF T

\* The element FoldLeft looks at next is one of the sequence.
LEMMA MaxInDomain ==
    ASSUME NEW R, NEW seq \in Seq(R), NEW t \in SUBSET (DOMAIN seq), t # {}
    PROVE  Max(t) \in DOMAIN seq /\ seq[Max(t)] \in R
<1>1. t \subseteq 0..Len(seq) /\ Len(seq) \in Nat
  OBVIOUS
<1>2. Max(t) \in t
  BY <1>1, MaxOf
<1>. QED  BY <1>2

\* What FoldLeft computes for every subset of the positions of seq, when the
\* operator folded is a function.
Unfolds(it, D, base, seq, step) ==
    /\ it[{}] = base
    /\ \A t \in SUBSET (DOMAIN seq) :
        t # {} /\ it[t \ {Max(t)}] \in D =>
            it[t] = step[<<it[t \ {Max(t)}], seq[Max(t)]>>]

\* The functions that FoldLeft may choose, when they keep to the type D.
Iterators(D, base, seq, step) ==
    { it \in [SUBSET (DOMAIN seq) -> D] : Unfolds(it, D, base, seq, step) }

\* The values a fold goes through: the n-th is that of the first n elements.
Runs(D, base, seq, step) ==
    { f \in [0..Len(seq) -> D] :
        f[0] = base /\ \A n \in 1..Len(seq) : f[n] = step[<<f[n - 1], seq[n]>>] }

\* What the last element leaves.
Outcomes(D, base, seq, step) == { f[Len(seq)] : f \in Runs(D, base, seq, step) }

\* There is such a function: over ever more positions of seq one is built from
\* the one before, so the CHOOSE of FoldLeft chooses one of them.
LEMMA FoldIterates ==
    ASSUME NEW D, NEW R, NEW base \in D, NEW seq \in Seq(R), NEW step \in [D \X R -> D]
    PROVE  Iterators(D, base, seq, step) # {}
<1>. DEFINE Rec(it, t) == IF t = {} THEN base ELSE step[<<it[t \ {Max(t)}], seq[Max(t)]>>]
            Iterates(k) == { it \in [SUBSET (1..k) -> D] :
                                \A t \in SUBSET (1..k) : it[t] = Rec(it, t) }
            Done == { k \in 0..Len(seq) : Iterates(k) # {} }
<1>0. Len(seq) \in Nat /\ DOMAIN seq = 1..Len(seq) /\ \A k \in 1..Len(seq) : seq[k] \in R
  OBVIOUS
<1>1. 0 \in Done
  <2>. DEFINE it == [t \in SUBSET (1..0) |-> base]
  <2>1. \A t \in SUBSET (1..0) : it[t] = Rec(it, t)
    OBVIOUS
  <2>2. it \in [SUBSET (1..0) -> D]
    OBVIOUS
  <2>3. it \in Iterates(0)
    <3>. HIDE DEF it, Rec
    <3>. QED  BY <2>1, <2>2
  <2>4. Iterates(0) # {}
    <3>. HIDE DEF Iterates
    <3>. QED  BY <2>3
  <2>. HIDE DEF Iterates
  <2>. QED  BY <1>0, <2>4
<1>2. \A k \in 0..(Len(seq) - 1) : k \in Done => k + 1 \in Done
  <2>. SUFFICES ASSUME NEW k \in 0..(Len(seq) - 1), Iterates(k) # {}
                PROVE  Iterates(k + 1) # {}
    <3>. HIDE DEF Iterates
    <3>1. \A k \in 0..(Len(seq) - 1) : k + 1 \in 0..Len(seq)
      BY <1>0
    <3>. QED  BY <3>1
  <2>1. PICK it \in Iterates(k) : TRUE
    OBVIOUS
  <2>2. seq[k + 1] \in R /\ k \in Nat
    BY <1>0
  <2>. DEFINE next == [t \in SUBSET (1..(k + 1)) |->
                          IF k + 1 \in t THEN step[<<it[t \ {k + 1}], seq[k + 1]>>] ELSE it[t]]
  <2>3. \A t \in SUBSET (1..(k + 1)) :
            IF k + 1 \in t THEN t \ {k + 1} \in SUBSET (1..k) ELSE t \in SUBSET (1..k)
    BY <2>2
  <2>4. next \in [SUBSET (1..(k + 1)) -> D]
    BY <2>2, <2>3
  <2>5. ASSUME NEW t \in SUBSET (1..(k + 1)), t # {}
        PROVE  next[t] = step[<<next[t \ {Max(t)}], seq[Max(t)]>>]
    <3>1. Max(t) \in t /\ \A n \in t : Max(t) >= n
      <4>1. t \subseteq 0..(k + 1) /\ k + 1 \in Nat
        BY <2>2
      <4>. HIDE DEF Iterates
      <4>. QED  BY <2>5, <4>1, MaxOf
    <3>2. CASE k + 1 \in t
      <4>. HIDE DEF Iterates
      <4>1. Max(t) \in 1..(k + 1) /\ Max(t) >= k + 1
        BY <3>1, <3>2
      <4>2. Max(t) = k + 1
        BY <2>2, <4>1
      <4>3. next[t \ {k + 1}] = it[t \ {k + 1}]
        OBVIOUS
      <4>. QED  BY <3>2, <4>2, <4>3
    <3>3. CASE k + 1 \notin t
      <4>1. t \in SUBSET (1..k) /\ t \ {Max(t)} \in SUBSET (1..k)
        BY <2>3, <3>3
      <4>2. next[t] = it[t] /\ next[t \ {Max(t)}] = it[t \ {Max(t)}]
        BY <3>3, <4>1
      <4>3. it[t] = Rec(it, t)
        BY <2>1, <4>1
      <4>. QED  BY <2>5, <4>2, <4>3
    <3>. QED  BY <3>2, <3>3
  <2>6. next[{}] = base
    <3>1. it[{}] = Rec(it, {})
      BY <2>1
    <3>. QED  BY <3>1
  <2>7. \A t \in SUBSET (1..(k + 1)) : next[t] = Rec(next, t)
    <3>. HIDE DEF next
    <3>. QED  BY <2>5, <2>6
  <2>. HIDE DEF next, Rec
  <2>. QED  BY <2>4, <2>7
<1>3. Len(seq) \in Done
  <2>. HIDE DEF Done
  <2>1. \A n \in 0..Len(seq) : n \in Done
    BY <1>0, <1>1, <1>2, StepsUpTo
  <2>. QED  BY <1>0, <2>1
<1>4. PICK it \in Iterates(Len(seq)) : TRUE
  BY <1>3
<1>5. it \in Iterators(D, base, seq, step)
  BY <1>0, <1>4 DEF Iterators, Unfolds
<1>. QED  BY <1>5

\* Along the sequence, what FoldLeft computes goes through the values of a run.
LEMMA FoldAlong ==
    ASSUME NEW D, NEW R, NEW base \in D, NEW seq \in Seq(R), NEW step \in [D \X R -> D],
           NEW iter, Unfolds(iter, D, base, seq, step)
    PROVE  iter[DOMAIN seq] \in Outcomes(D, base, seq, step)
<1>. DEFINE f == [n \in 0..Len(seq) |-> iter[1..n]]
            Typed == { n \in 0..Len(seq) : f[n] \in D }
<1>1. Len(seq) \in Nat /\ DOMAIN seq = 1..Len(seq)
  OBVIOUS
<1>2. f[0] = base /\ f[Len(seq)] = iter[DOMAIN seq]
  <2>1. 1..0 = {}
    OBVIOUS
  <2>. QED  BY <1>1, <2>1 DEF Unfolds
<1>3. ASSUME NEW n \in 1..Len(seq), f[n - 1] \in D
      PROVE  f[n] = step[<<f[n - 1], seq[n]>>]
  <2>1. Max(1..n) = n /\ (1..n) \ {n} = 1..(n - 1) /\ 1..n # {}
    <3>1. n \in Nat \ {0}
      BY <1>1
    <3>. QED  BY <3>1, MaxOfInterval
  <2>2. f[n] = iter[1..n] /\ f[n - 1] = iter[1..(n - 1)]
    BY <1>1
  <2>3. 1..n \in SUBSET (DOMAIN seq)
    BY <1>1
  <2>. HIDE DEF f
  <2>. QED  BY <1>3, <2>1, <2>2, <2>3 DEF Unfolds
<1>. HIDE DEF f
<1>4. \A n \in 0..(Len(seq) - 1) : n \in Typed => n + 1 \in Typed
  <2>. SUFFICES ASSUME NEW n \in 0..(Len(seq) - 1), f[n] \in D PROVE f[n + 1] \in D
    BY <1>1
  <2>1. n + 1 \in 1..Len(seq) /\ (n + 1) - 1 = n
    BY <1>1
  <2>2. f[n + 1] = step[<<f[n], seq[n + 1]>>]
    BY <1>3, <2>1
  <2>3. seq[n + 1] \in R
    BY <2>1
  <2>. QED  BY <2>2, <2>3
<1>5. 0 \in Typed
  BY <1>1, <1>2
<1>6. \A n \in 0..Len(seq) : n \in Typed
  <2>. HIDE DEF Typed
  <2>. QED  BY <1>1, <1>4, <1>5, StepsUpTo
<1>7. f \in [0..Len(seq) -> D]
  BY <1>6 DEF f
<1>8. \A n \in 1..Len(seq) : f[n] = step[<<f[n - 1], seq[n]>>]
  BY <1>1, <1>3, <1>6
<1>. QED  BY <1>2, <1>7, <1>8 DEF Runs, Outcomes

\* What is kept of the first n elements.
KeptRuns(R, seq, S) ==
    { f \in [0..Len(seq) -> Seq(R)] :
        /\ f[0] = <<>>
        /\ f[Len(seq)] = Kept(seq, S)
        /\ \A n \in 1..Len(seq) :
            f[n] = IF seq[n] \in S THEN Append(f[n - 1], seq[n]) ELSE f[n - 1] }

\* Kept looks at one element after the other.
LEMMA KeptSteps ==
    ASSUME NEW R, NEW S, NEW seq \in Seq(R)
    PROVE  KeptRuns(R, seq, S) # {}
<1>. DEFINE D == Seq(R)
            Op(kept, e) == IF e \in S THEN Append(kept, e) ELSE kept
            step == [p \in D \X R |-> Op(p[1], p[2])]
            Rec(it) == [t \in SUBSET (DOMAIN seq) |->
                          IF t = {} THEN <<>> ELSE Op(it[t \ {Max(t)}], seq[Max(t)])]
            iter == CHOOSE it : it = Rec(it)
<1>1. step \in [D \X R -> D] /\ <<>> \in D
  OBVIOUS
<1>2. \A kept \in D, e \in R : step[<<kept, e>>] = Op(kept, e)
  OBVIOUS
<1>. HIDE DEF D, step, Op
<1>3. iter = Rec(iter)
  <2>0. Iterators(D, <<>>, seq, step) # {}
    BY <1>1, FoldIterates
  <2>1. PICK it \in Iterators(D, <<>>, seq, step) : TRUE
    BY <2>0
  <2>2. it = Rec(it)
    <3>. SUFFICES ASSUME NEW t \in SUBSET (DOMAIN seq), t # {}
                  PROVE  it[t] = Op(it[t \ {Max(t)}], seq[Max(t)])
      BY <2>1 DEF Iterators, Unfolds
    <3>1. seq[Max(t)] \in R
      BY MaxInDomain
    <3>. QED  BY <1>2, <2>1, <3>1 DEF Iterators, Unfolds
  <2>. HIDE DEF Rec
  <2>. QED  BY <2>2
<1>4. Kept(seq, S) = iter[DOMAIN seq]
  BY DEF Kept, FoldLeft, MapThenFoldSet, Op
<1>. HIDE DEF iter
<1>5. Unfolds(iter, D, <<>>, seq, step)
  <2>1. ASSUME NEW t \in SUBSET (DOMAIN seq), t # {}, iter[t \ {Max(t)}] \in D
        PROVE  iter[t] = step[<<iter[t \ {Max(t)}], seq[Max(t)]>>]
    <3>1. seq[Max(t)] \in R
      BY <2>1, MaxInDomain
    <3>2. iter[t] = Op(iter[t \ {Max(t)}], seq[Max(t)])
      BY <1>3, <2>1
    <3>. QED  BY <1>2, <2>1, <3>1, <3>2
  <2>. QED  BY <1>3, <2>1 DEF Unfolds
<1>6. PICK f \in Runs(D, <<>>, seq, step) : f[Len(seq)] = iter[DOMAIN seq]
  <2>. HIDE DEF Rec
  <2>1. iter[DOMAIN seq] \in Outcomes(D, <<>>, seq, step)
    BY <1>1, <1>5, FoldAlong
  <2>. QED  BY <2>1 DEF Outcomes
<1>7. ASSUME NEW n \in 1..Len(seq) PROVE f[n] = Op(f[n - 1], seq[n])
  <2>1. f[n - 1] \in D /\ seq[n] \in R
    BY DEF Runs
  <2>. QED  BY <1>2, <1>6, <2>1 DEF Runs
<1>8. f \in KeptRuns(R, seq, S)
  BY <1>4, <1>6, <1>7 DEF D, Op, Runs, KeptRuns
<1>. QED  BY <1>8

\* Where in seq the elements of kept come from: all those in S, in order.
Selections(kept, seq, S) ==
    { at \in [DOMAIN kept -> DOMAIN seq] :
        /\ \A i, j \in DOMAIN kept : i < j => at[i] < at[j]
        /\ \A i \in DOMAIN kept : kept[i] = seq[at[i]] /\ seq[at[i]] \in S
        /\ \A p \in DOMAIN seq : seq[p] \in S => \E i \in DOMAIN kept : at[i] = p }

\* Kept keeps the elements of S, all of them, in order, and no other.
LEMMA KeptSelects ==
    ASSUME NEW R, NEW S, NEW seq \in Seq(R)
    PROVE  /\ Kept(seq, S) \in Seq(R)
           /\ Selections(Kept(seq, S), seq, S) # {}
<1>1. PICK f \in [0..Len(seq) -> Seq(R)] :
          /\ f[0] = <<>>
          /\ f[Len(seq)] = Kept(seq, S)
          /\ \A n \in 1..Len(seq) :
                f[n] = IF seq[n] \in S THEN Append(f[n - 1], seq[n]) ELSE f[n - 1]
  <2>1. KeptRuns(R, seq, S) # {}
    BY KeptSteps
  <2>. QED  BY <2>1 DEF KeptRuns
<1>2. Len(seq) \in Nat /\ DOMAIN seq = 1..Len(seq) /\ \A n \in 1..Len(seq) : seq[n] \in R
  OBVIOUS
<1>. DEFINE Select(n, at) ==
                /\ \A i, j \in 1..Len(f[n]) : i < j => at[i] < at[j]
                /\ \A i \in 1..Len(f[n]) : f[n][i] = seq[at[i]] /\ seq[at[i]] \in S
                /\ \A p \in 1..n : seq[p] \in S => \E i \in 1..Len(f[n]) : at[i] = p
            Good(n) == \E at \in [1..Len(f[n]) -> 1..n] : Select(n, at)
            Goods == { n \in 0..Len(seq) : Good(n) }
<1>3. Good(0)
  <2>1. 1..Len(f[0]) = {} /\ 1..0 = {}
    BY <1>1
  <2>2. [i \in 1..Len(f[0]) |-> i] \in [1..Len(f[0]) -> 1..0]
    BY <2>1
  <2>3. Select(0, [i \in 1..Len(f[0]) |-> i])
    BY <2>1
  <2>. QED  BY <2>2, <2>3
<1>4. ASSUME NEW n \in 0..(Len(seq) - 1), Good(n) PROVE Good(n + 1)
  <2>1. n + 1 \in 1..Len(seq) /\ (n + 1) - 1 = n /\ n \in 0..Len(seq) /\ n \in Nat
    BY <1>2
  <2>2. f[n] \in Seq(R) /\ Len(f[n]) \in Nat
    BY <1>1, <2>1
  <2>3. PICK at \in [1..Len(f[n]) -> 1..n] : Select(n, at)
    BY <1>4
  <2>4. CASE seq[n + 1] \in S
    <3>. DEFINE new == [i \in 1..(Len(f[n]) + 1) |-> IF i = Len(f[n]) + 1 THEN n + 1 ELSE at[i]]
    <3>1. f[n + 1] = Append(f[n], seq[n + 1])
      BY <1>1, <2>1, <2>4
    <3>2. /\ Len(f[n + 1]) = Len(f[n]) + 1
          /\ \A i \in 1..Len(f[n]) : f[n + 1][i] = f[n][i]
          /\ f[n + 1][Len(f[n]) + 1] = seq[n + 1]
      BY <1>2, <2>1, <2>2, <3>1
    <3>3. new \in [1..Len(f[n + 1]) -> 1..(n + 1)]
      BY <2>1, <2>2, <3>2
    <3>4. /\ new[Len(f[n]) + 1] = n + 1
          /\ \A i \in 1..Len(f[n]) : new[i] = at[i] /\ at[i] \in 1..n
      BY <2>1, <2>2
    <3>5. 1..Len(f[n + 1]) = 1..Len(f[n]) \cup {Len(f[n]) + 1}
      BY <2>2, <3>2
    <3>. HIDE DEF new
    <3>6. \A i, j \in 1..Len(f[n + 1]) : i < j => new[i] < new[j]
      <4>. SUFFICES ASSUME NEW i \in 1..Len(f[n + 1]), NEW j \in 1..Len(f[n + 1]), i < j
                    PROVE  new[i] < new[j]
        OBVIOUS
      <4>1. i \in 1..Len(f[n]) /\ new[i] = at[i] /\ at[i] \in 1..n
        <5>1. i \in 1..Len(f[n])
          BY <2>2, <3>5
        <5>. QED  BY <3>4, <5>1
      <4>2. CASE j = Len(f[n]) + 1
        BY <2>1, <3>4, <4>1, <4>2
      <4>3. CASE j \in 1..Len(f[n])
        BY <2>3, <3>4, <4>1, <4>3
      <4>. QED  BY <3>5, <4>2, <4>3
    <3>7. \A i \in 1..Len(f[n + 1]) :
              f[n + 1][i] = seq[new[i]] /\ seq[new[i]] \in S
      BY <2>3, <2>4, <3>2, <3>4, <3>5
    <3>8. \A p \in 1..(n + 1) : seq[p] \in S => \E i \in 1..Len(f[n + 1]) : new[i] = p
      <4>. SUFFICES ASSUME NEW p \in 1..(n + 1), seq[p] \in S
                    PROVE  \E i \in 1..Len(f[n + 1]) : new[i] = p
        OBVIOUS
      <4>1. CASE p = n + 1
        BY <3>4, <3>5, <4>1
      <4>2. CASE p # n + 1
        <5>1. p \in 1..n
          BY <2>1, <4>2
        <5>. QED  BY <2>3, <3>4, <3>5, <5>1
      <4>. QED  BY <4>1, <4>2
    <3>. QED  BY <3>3, <3>6, <3>7, <3>8
  <2>5. CASE seq[n + 1] \notin S
    <3>1. f[n + 1] = f[n]
      BY <1>1, <2>1, <2>5
    <3>2. at \in [1..Len(f[n + 1]) -> 1..(n + 1)]
      BY <2>1, <3>1
    <3>3. \A p \in 1..(n + 1) : seq[p] \in S => p \in 1..n
      BY <2>1, <2>5
    <3>4. Select(n + 1, at)
      BY <2>3, <3>1, <3>3
    <3>. QED  BY <3>2, <3>4
  <2>. QED  BY <2>4, <2>5
<1>. HIDE DEF Good
<1>5. \A n \in 0..Len(seq) : n \in Goods
  <2>1. 0 \in Goods /\ \A n \in 0..(Len(seq) - 1) : n \in Goods => n + 1 \in Goods
    BY <1>2, <1>3, <1>4
  <2>. HIDE DEF Goods
  <2>. QED  BY <1>2, <2>1, StepsUpTo
<1>6. Good(Len(seq)) /\ f[Len(seq)] \in Seq(R)
  BY <1>1, <1>2, <1>5
<1>7. PICK at \in [1..Len(f[Len(seq)]) -> 1..Len(seq)] : Select(Len(seq), at)
  BY <1>6 DEF Good
<1>8. at \in Selections(Kept(seq, S), seq, S)
  <2>. DEFINE kept == f[Len(seq)]
  <2>1. kept = Kept(seq, S) /\ DOMAIN kept = 1..Len(kept)
    BY <1>1, <1>6
  <2>2. at \in Selections(kept, seq, S)
    BY <1>2, <1>7, <2>1 DEF Selections
  <2>. QED  BY <2>1, <2>2
<1>. QED  BY <1>1, <1>6, <1>8

\* There are no more than there were.
LEMMA KeptShorter ==
    ASSUME NEW R, NEW S, NEW seq \in Seq(R)
    PROVE  /\ Kept(seq, S) \in Seq(R)
           /\ Len(Kept(seq, S)) <= Len(seq)
           /\ Range(Kept(seq, S)) \subseteq Range(seq) \cap S
<1>. DEFINE kept == Kept(seq, S)
<1>1. kept \in Seq(R) /\ Selections(kept, seq, S) # {}
  BY KeptSelects
<1>2. PICK f \in KeptRuns(R, seq, S) : TRUE
  BY KeptSteps
<1>3. Len(seq) \in Nat
  OBVIOUS
<1>. DEFINE Short == { n \in 0..Len(seq) : Len(f[n]) <= n }
<1>4. 0 \in Short
  BY <1>2, <1>3 DEF KeptRuns
<1>5. \A n \in 0..(Len(seq) - 1) : n \in Short => n + 1 \in Short
  <2>. SUFFICES ASSUME NEW n \in 0..(Len(seq) - 1), Len(f[n]) <= n
                PROVE  Len(f[n + 1]) <= n + 1
    BY <1>3
  <2>1. n + 1 \in 1..Len(seq) /\ (n + 1) - 1 = n /\ n \in 0..Len(seq)
    BY <1>3
  <2>2. f[n] \in Seq(R) /\ f[n + 1] \in {f[n], Append(f[n], seq[n + 1])}
    BY <1>2, <2>1 DEF KeptRuns
  <2>3. Len(Append(f[n], seq[n + 1])) = Len(f[n]) + 1 /\ Len(f[n]) \in Nat
    BY <2>1, <2>2
  <2>. QED  BY <2>1, <2>2, <2>3
<1>6. \A n \in 0..Len(seq) : n \in Short
  <2>. HIDE DEF Short
  <2>. QED  BY <1>3, <1>4, <1>5, StepsUpTo
<1>7. Len(kept) <= Len(seq)
  BY <1>2, <1>3, <1>6 DEF KeptRuns
<1>8. Range(kept) \subseteq Range(seq) \cap S
  <2>. HIDE DEF kept
  <2>. QED  BY <1>1 DEF Selections, Range
<1>. QED  BY <1>1, <1>7, <1>8

\* So what is kept is a sequence over the set.
LEMMA KeptWithin ==
    ASSUME NEW R, NEW S, NEW seq \in Seq(R)
    PROVE  Kept(seq, S) \in Seq(S)
<1>. DEFINE kept == Kept(seq, S)
<1>1. kept \in Seq(R) /\ Range(kept) \subseteq S
  BY KeptShorter
<1>. HIDE DEF kept
<1>2. \A i \in 1..Len(kept) : kept[i] \in S
  BY <1>1 DEF Range
<1>3. kept \in Seq(S)
  BY <1>1, <1>2
<1>. QED  BY <1>3 DEF kept

\* Nothing is kept of nothing.
LEMMA KeptEmpty ==
    ASSUME NEW S
    PROVE  Kept(<<>>, S) = <<>>
<1>1. <<>> \in Seq(S) /\ Len(<<>>) = 0
  OBVIOUS
<1>2. PICK f \in KeptRuns(S, <<>>, S) : TRUE
  BY <1>1, KeptSteps
<1>. QED  BY <1>1, <1>2 DEF KeptRuns

\* An element more at the end is kept or not, and changes nothing before it.
LEMMA KeptAppend ==
    ASSUME NEW R, NEW S, NEW seq \in Seq(R), NEW e \in R
    PROVE  Kept(Append(seq, e), S) = IF e \in S THEN Append(Kept(seq, S), e) ELSE Kept(seq, S)
<1>. DEFINE more == Append(seq, e)
<1>1. /\ Len(seq) \in Nat /\ more \in Seq(R) /\ Len(more) = Len(seq) + 1
      /\ more[Len(seq) + 1] = e /\ \A n \in 1..Len(seq) : more[n] = seq[n]
  OBVIOUS
<1>. HIDE DEF more
<1>2. PICK f \in KeptRuns(R, seq, S) : TRUE
  BY KeptSteps
<1>3. PICK g \in KeptRuns(R, more, S) : TRUE
  BY <1>1, KeptSteps
<1>. DEFINE Same == { n \in 0..Len(seq) : g[n] = f[n] }
<1>4. \A n \in 0..Len(seq) : n \in Same
  <2>1. 0 \in Same
    BY <1>1, <1>2, <1>3 DEF KeptRuns
  <2>2. \A n \in 0..(Len(seq) - 1) : n \in Same => n + 1 \in Same
    <3>. SUFFICES ASSUME NEW n \in 0..(Len(seq) - 1), g[n] = f[n] PROVE g[n + 1] = f[n + 1]
      BY <1>1
    <3>1. n + 1 \in 1..Len(seq) /\ n + 1 \in 1..Len(more) /\ (n + 1) - 1 = n
      BY <1>1
    <3>2. f[n + 1] = IF seq[n + 1] \in S THEN Append(f[n], seq[n + 1]) ELSE f[n]
      BY <1>2, <3>1 DEF KeptRuns
    <3>3. g[n + 1] = IF more[n + 1] \in S THEN Append(g[n], more[n + 1]) ELSE g[n]
      BY <1>3, <3>1 DEF KeptRuns
    <3>. QED  BY <1>1, <3>1, <3>2, <3>3
  <2>. HIDE DEF Same
  <2>. QED  BY <1>1, <2>1, <2>2, StepsUpTo
<1>5. g[Len(seq)] = Kept(seq, S)
  BY <1>1, <1>2, <1>4 DEF KeptRuns
<1>6. Len(seq) + 1 \in 1..Len(more) /\ (Len(seq) + 1) - 1 = Len(seq)
  BY <1>1
<1>7. g[Len(seq) + 1] = IF e \in S THEN Append(g[Len(seq)], e) ELSE g[Len(seq)]
  BY <1>1, <1>3, <1>6 DEF KeptRuns
<1>8. g[Len(seq) + 1] = Kept(more, S)
  BY <1>1, <1>3 DEF KeptRuns
<1>. QED  BY <1>5, <1>7, <1>8 DEF more

\* Filtering twice is filtering by both.
LEMMA KeptTwice ==
    ASSUME NEW R, NEW A, NEW B, NEW C, NEW seq \in Seq(R),
           \A e \in Range(seq) : e \in C <=> e \in A /\ e \in B
    PROVE  Kept(Kept(seq, A), B) = Kept(seq, C)
<1>1. PICK f \in KeptRuns(R, seq, A) : TRUE
  BY KeptSteps
<1>2. PICK g \in KeptRuns(R, seq, C) : TRUE
  BY KeptSteps
<1>3. Len(seq) \in Nat
  OBVIOUS
<1>. DEFINE Same == { n \in 0..Len(seq) : Kept(f[n], B) = g[n] }
<1>4. 0 \in Same
  <2>1. Kept(<<>>, B) = <<>>
    <3>1. <<>> \in Seq(R) /\ Len(<<>>) = 0
      OBVIOUS
    <3>2. PICK h \in KeptRuns(R, <<>>, B) : TRUE
      BY <3>1, KeptSteps
    <3>. QED  BY <3>1, <3>2 DEF KeptRuns
  <2>. QED  BY <1>1, <1>2, <1>3, <2>1 DEF KeptRuns
<1>5. \A n \in 0..(Len(seq) - 1) : n \in Same => n + 1 \in Same
  <2>. SUFFICES ASSUME NEW n \in 0..(Len(seq) - 1), Kept(f[n], B) = g[n]
                PROVE  Kept(f[n + 1], B) = g[n + 1]
    BY <1>3
  <2>1. n + 1 \in 1..Len(seq) /\ (n + 1) - 1 = n /\ n \in 0..Len(seq)
    BY <1>3
  <2>. DEFINE e == seq[n + 1]
  <2>2. f[n] \in Seq(R) /\ e \in R /\ e \in Range(seq)
    <3>1. e \in Range(seq)
      BY <2>1 DEF Range
    <3>. QED  BY <1>1, <2>1, <3>1 DEF KeptRuns
  <2>3. /\ f[n + 1] = IF e \in A THEN Append(f[n], e) ELSE f[n]
        /\ g[n + 1] = IF e \in C THEN Append(g[n], e) ELSE g[n]
    BY <1>1, <1>2, <2>1 DEF KeptRuns
  <2>. HIDE DEF e
  <2>4. Kept(Append(f[n], e), B) = IF e \in B THEN Append(Kept(f[n], B), e) ELSE Kept(f[n], B)
    <3>. DEFINE s == f[n]
    <3>1. s \in Seq(R) /\ e \in R
      BY <2>2
    <3>. HIDE DEF s
    <3>2. Kept(Append(s, e), B) = IF e \in B THEN Append(Kept(s, B), e) ELSE Kept(s, B)
      BY <3>1, KeptAppend
    <3>. QED  BY <3>2 DEF s
  <2>. QED  BY <2>2, <2>3, <2>4
<1>6. \A n \in 0..Len(seq) : n \in Same
  <2>. HIDE DEF Same
  <2>. QED  BY <1>3, <1>4, <1>5, StepsUpTo
<1>. QED  BY <1>1, <1>2, <1>3, <1>6 DEF KeptRuns
===============================================================================
