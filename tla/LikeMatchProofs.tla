--------------------------- MODULE LikeMatchProofs ---------------------------
(***************************************************************************)
(* like_match answers LIKE, for all texts and patterns.                    *)
(***************************************************************************)
EXTENDS LikeMatch, TLAPS

(* Past the last part nothing of the text may be left: `pi == p.len()`.    *)
LEMMA MatchesNothing ==
  ASSUME NEW s \in Seq(Bytes), NEW p \in Seq(Bytes), NEW i \in Nat
  PROVE  Matches(s, p, i, Len(p) + 1) <=> i = Len(s) + 1
<1>. DEFINE n == Len(p) + 1
<1>1. Len(s) \in Nat /\ n \in Nat /\ n..n = {n} /\ n..Len(p) = {}
  OBVIOUS
<1>2. ASSUME i = Len(s) + 1 PROVE Matches(s, p, i, n)
  <2>. DEFINE at == [q \in n..n |-> i]
  <2>1. at \in Layouts(s, p, n) /\ LaidOut(s, p, i, n, at)
    BY <1>1, <1>2 DEF Layouts, LaidOut
  <2>. QED  BY <2>1 DEF Matches
<1>3. Matches(s, p, i, n) => i = Len(s) + 1
  BY DEF Matches, LaidOut
<1>. QED  BY <1>2, <1>3

(* A layout begins within the text, or just behind it.                     *)
LEMMA MatchesWithin ==
  ASSUME NEW s \in Seq(Bytes), NEW p \in Seq(Bytes), NEW i \in Nat,
         NEW j \in 1..(Len(p) + 1), Matches(s, p, i, j)
  PROVE  i \in 1..(Len(s) + 1)
<1>1. Len(s) \in Nat /\ Len(p) \in Nat /\ j \in j..(Len(p) + 1)
  OBVIOUS
<1>2. PICK at \in Layouts(s, p, j) : LaidOut(s, p, i, j, at)
  BY DEF Matches
<1>. QED  BY <1>1, <1>2 DEF Layouts, LaidOut

(* One part at a time: part j takes some text, the parts behind it the     *)
(* rest.                                                                   *)
LEMMA MatchesPart ==
  ASSUME NEW s \in Seq(Bytes), NEW p \in Seq(Bytes), NEW i \in Nat \ {0},
         NEW j \in 1..Len(p)
  PROVE  Matches(s, p, i, j) <=>
             \E k \in 1..(Len(s) + 1) : Takes(s, p, i, j, k) /\ Matches(s, p, k, j + 1)
<1>1. Len(s) \in Nat /\ Len(p) \in Nat
  OBVIOUS
<1>2. ASSUME Matches(s, p, i, j)
      PROVE  \E k \in 1..(Len(s) + 1) : Takes(s, p, i, j, k) /\ Matches(s, p, k, j + 1)
  <2>1. PICK at \in Layouts(s, p, j) : LaidOut(s, p, i, j, at)
    BY <1>2 DEF Matches
  <2>. DEFINE rest == [q \in (j + 1)..(Len(p) + 1) |-> at[q]]
  <2>2. at[j + 1] \in 1..(Len(s) + 1) /\ Takes(s, p, i, j, at[j + 1])
    BY <1>1, <2>1 DEF Layouts, LaidOut
  <2>3. rest \in Layouts(s, p, j + 1)
    BY <1>1, <2>1 DEF Layouts
  <2>4. LaidOut(s, p, at[j + 1], j + 1, rest)
    BY <1>1, <2>1 DEF Layouts, LaidOut
  <2>. QED  BY <2>2, <2>3, <2>4 DEF Matches
<1>3. ASSUME NEW k \in 1..(Len(s) + 1), Takes(s, p, i, j, k), Matches(s, p, k, j + 1)
      PROVE  Matches(s, p, i, j)
  <2>1. PICK rest \in Layouts(s, p, j + 1) : LaidOut(s, p, k, j + 1, rest)
    BY <1>3 DEF Matches
  <2>. DEFINE at == [q \in j..(Len(p) + 1) |-> IF q = j THEN i ELSE rest[q]]
  <2>2. i \in 1..(Len(s) + 1)
    BY <1>1, <1>3 DEF Takes
  <2>3. at \in Layouts(s, p, j)
    BY <1>1, <2>1, <2>2 DEF Layouts
  <2>4. at[j] = i /\ at[Len(p) + 1] = Len(s) + 1
    BY <1>1, <2>1 DEF LaidOut
  <2>5. ASSUME NEW q \in j..Len(p) PROVE Takes(s, p, at[q], q, at[q + 1])
    <3>1. CASE q = j
      BY <1>1, <1>3, <2>1, <3>1 DEF LaidOut
    <3>2. CASE q # j
      BY <1>1, <2>1, <3>2 DEF LaidOut
    <3>. QED  BY <3>1, <3>2
  <2>6. LaidOut(s, p, i, j, at)
    BY <2>4, <2>5 DEF LaidOut
  <2>. QED  BY <2>3, <2>6 DEF Matches
<1>. QED  BY <1>2, <1>3

(* A % takes any stretch; any other part takes the one byte it fits.       *)
LEMMA MatchesStar ==
  ASSUME NEW s \in Seq(Bytes), NEW p \in Seq(Bytes), NEW i \in Nat \ {0},
         NEW j \in 1..Len(p), p[j] = "%"
  PROVE  Matches(s, p, i, j) <=> \E k \in i..(Len(s) + 1) : Matches(s, p, k, j + 1)
<1>1. Len(s) \in Nat
  OBVIOUS
<1>2. \A k : k \in i..(Len(s) + 1) <=> k \in 1..(Len(s) + 1) /\ Takes(s, p, i, j, k)
  BY <1>1 DEF Takes
<1>. QED  BY <1>2, MatchesPart

LEMMA MatchesByte ==
  ASSUME NEW s \in Seq(Bytes), NEW p \in Seq(Bytes), NEW i \in Nat \ {0},
         NEW j \in 1..Len(p), p[j] # "%"
  PROVE  Matches(s, p, i, j) <=>
             i <= Len(s) /\ Fits(s, p, i, j) /\ Matches(s, p, i + 1, j + 1)
<1>1. Len(s) \in Nat
  OBVIOUS
<1>2. \A k \in 1..(Len(s) + 1) :
        Takes(s, p, i, j, k) <=> i <= Len(s) /\ k = i + 1 /\ Fits(s, p, i, j)
  BY DEF Takes
<1>3. i <= Len(s) => i + 1 \in 1..(Len(s) + 1)
  BY <1>1
<1>4. Matches(s, p, i, j) <=>
        \E k \in 1..(Len(s) + 1) : Takes(s, p, i, j, k) /\ Matches(s, p, k, j + 1)
  BY MatchesPart
<1>. QED  BY <1>2, <1>3, <1>4

-----------------------------------------------------------------------------
(* What a % could still take beyond what it has taken, the walk has not    *)
(* passed: a match from there goes through a later byte than the next one. *)
NothingBehind ==
    /\ answer = None
    /\ starPi # None
    /\ Matches(text, pattern, starSi + 1, starPi)
    => \E y \in (si + 1)..(Len(text) + 1) : Matches(text, pattern, y, pi)

IInv == TypeOK /\ AnswersLike /\ LastStarSuffices /\ NothingBehind

LEMMA Types ==
  ASSUME TypeOK
  PROVE  /\ text \in Seq(Bytes) /\ pattern \in Seq(Bytes)
         /\ Len(text) \in Nat /\ Len(pattern) \in Nat
         /\ si \in Nat \ {0} /\ pi \in Nat \ {0} /\ starSi \in Nat \ {0}
         /\ starPi # None => starPi \in 1..Len(pattern)
         /\ AtStar => pi \in 1..Len(pattern)
BY InputsAssumption DEF TypeOK, AtStar

LEMMA InitIInv == Init => IInv
<1>. SUFFICES ASSUME Init PROVE IInv
  OBVIOUS
<1>1. text \in Seq(Bytes) /\ pattern \in Seq(Bytes)
  BY InputsAssumption DEF Init
<1>2. TypeOK
  BY <1>1 DEF Init, TypeOK
<1>3. AnswersLike /\ LastStarSuffices /\ NothingBehind
  BY DEF Init, AnswersLike, LastStarSuffices, NothingBehind, Like
<1>. QED  BY <1>2, <1>3 DEF IInv

(* The type invariant is inductive by itself.                              *)
LEMMA TypesStep == TypeOK /\ [Next]_vars => TypeOK'
<1>. SUFFICES ASSUME TypeOK, [Next]_vars PROVE TypeOK'
  OBVIOUS
<1>. USE Types, NoneAssumption
<1>1. CASE Bookmark
  BY <1>1 DEF Bookmark, BookmarkAt, TypeOK, AtStar, InText
<1>2. CASE Advance
  BY <1>2 DEF Advance, TypeOK, InText, MatchesHere
<1>3. CASE Backtrack
  BY <1>3 DEF Backtrack, TypeOK, InText, NextEnd
<1>4. CASE Mismatch
  BY <1>4 DEF Mismatch, TypeOK
<1>5. CASE SkipTrailingStar
  BY <1>5 DEF SkipTrailingStar, TypeOK, AtStar
<1>6. CASE Finish
  BY <1>6 DEF Finish, TypeOK
<1>7. CASE UNCHANGED vars
  BY <1>7 DEF vars, TypeOK
<1>. QED  BY <1>1, <1>2, <1>3, <1>4, <1>5, <1>6, <1>7 DEF Next

-----------------------------------------------------------------------------
(* The steps of the loop.  Here is the match from the walk, There the one  *)
(* from the bookmark.                                                      *)
Here == Matches(text, pattern, si, pi)
There == starPi # None /\ Matches(text, pattern, starSi + 1, starPi)

(* A new bookmark replaces the old: what the old % could still take, a     *)
(* match from the new one covers.                                          *)
LEMMA BookmarkStep ==
  ASSUME IInv, Bookmark
  PROVE  LastStarSuffices' /\ NothingBehind'
<1>. USE Types DEF IInv
<1>1. pi \in 1..Len(pattern) /\ pattern[pi] = "%" /\ si \in 1..Len(text)
  BY DEF Bookmark, AtStar, InText
<1>2. Here <=> \E k \in si..(Len(text) + 1) : Matches(text, pattern, k, pi + 1)
  BY <1>1, MatchesStar DEF Here
<1>3. Matches(text, pattern, si + 1, pi)
        <=> \E k \in (si + 1)..(Len(text) + 1) : Matches(text, pattern, k, pi + 1)
  BY <1>1, MatchesStar
<1>4. There => Here
  <2>1. SUFFICES ASSUME There PROVE Here
    OBVIOUS
  <2>2. PICK y \in (si + 1)..(Len(text) + 1) : Matches(text, pattern, y, pi)
    BY <2>1 DEF There, NothingBehind, Bookmark
  <2>3. PICK k \in y..(Len(text) + 1) : Matches(text, pattern, k, pi + 1)
    BY <1>1, <2>2, MatchesStar
  <2>. QED  BY <1>2, <2>3
<1>5. Here <=> \/ Matches(text, pattern, si, pi + 1)
              \/ Matches(text, pattern, si + 1, pi)
  <2>1. \A k : k \in si..(Len(text) + 1) <=> k = si \/ k \in (si + 1)..(Len(text) + 1)
    BY <1>1
  <2>. QED  BY <1>2, <1>3, <2>1
<1>6. Like(text, pattern) <=> Here
  BY <1>4 DEF LastStarSuffices, Bookmark, Here, There
<1>7. /\ text' = text /\ pattern' = pattern /\ si' = si /\ pi' = pi + 1
      /\ starPi' = pi /\ starSi' = si /\ answer' = None
  BY DEF Bookmark, BookmarkAt
<1>8. pi # None
  BY NoneAssumption
<1>. QED  BY <1>3, <1>5, <1>6, <1>7, <1>8 DEF LastStarSuffices, NothingBehind

(* A byte that fits is taken; whatever lies behind moves along.            *)
LEMMA AdvanceStep ==
  ASSUME IInv, Advance
  PROVE  LastStarSuffices' /\ NothingBehind'
<1>. USE Types DEF IInv
<1>1. /\ pi \in 1..Len(pattern) /\ pattern[pi] # "%" /\ si \in 1..Len(text)
      /\ Fits(text, pattern, si, pi)
  BY DEF Advance, AtStar, InText, MatchesHere
<1>2. /\ text' = text /\ pattern' = pattern /\ si' = si + 1 /\ pi' = pi + 1
      /\ starPi' = starPi /\ starSi' = starSi /\ answer' = answer /\ answer = None
  BY DEF Advance
<1>3. Here <=> Matches(text, pattern, si + 1, pi + 1)
  BY <1>1, MatchesByte DEF Here
<1>4. LastStarSuffices'
  BY <1>2, <1>3 DEF LastStarSuffices, Here
<1>5. ASSUME There
      PROVE  \E y \in (si + 2)..(Len(text) + 1) : Matches(text, pattern, y, pi + 1)
  <2>1. PICK y \in (si + 1)..(Len(text) + 1) : Matches(text, pattern, y, pi)
    BY <1>2, <1>5 DEF There, NothingBehind
  <2>2. y <= Len(text) /\ Matches(text, pattern, y + 1, pi + 1)
    BY <1>1, <2>1, MatchesByte
  <2>3. y + 1 \in (si + 2)..(Len(text) + 1)
    BY <2>1, <2>2
  <2>. QED  BY <2>2, <2>3
<1>6. si' + 1 = si + 2
  BY <1>2
<1>7. NothingBehind'
  BY <1>2, <1>5, <1>6 DEF NothingBehind, There
<1>. QED  BY <1>4, <1>7

(* On a mismatch there is no match from the walk, so the last % takes more.*)
LEMMA NoMatchHere ==
  ASSUME TypeOK, InText, ~AtStar, ~MatchesHere
  PROVE  ~Here
<1>. USE Types
<1>1. si \in 1..Len(text) /\ pi \in 1..(Len(pattern) + 1)
  BY DEF TypeOK, InText
<1>2. CASE pi = Len(pattern) + 1
  BY <1>1, <1>2, MatchesNothing DEF Here
<1>3. CASE pi \in 1..Len(pattern)
  BY <1>1, <1>3, MatchesByte DEF Here, AtStar, MatchesHere
<1>. QED  BY <1>1, <1>2, <1>3

LEMMA BacktrackStep ==
  ASSUME IInv, Backtrack
  PROVE  LastStarSuffices' /\ NothingBehind'
<1>. USE Types DEF IInv
<1>1. /\ text' = text /\ pattern' = pattern /\ si' = starSi + 1 /\ pi' = starPi + 1
      /\ starPi' = starPi /\ starSi' = starSi + 1 /\ answer' = answer /\ answer = None
      /\ starPi # None
  BY DEF Backtrack, NextEnd
<1>2. starPi \in 1..Len(pattern) /\ pattern[starPi] = "%" /\ starSi \in 1..Len(text)
  BY <1>1 DEF TypeOK, Backtrack, InText
<1>3. ~Here
  BY NoMatchHere DEF Backtrack
<1>4. Matches(text, pattern, starSi + 1, starPi)
        <=> \E k \in (starSi + 1)..(Len(text) + 1) : Matches(text, pattern, k, starPi + 1)
  BY <1>2, MatchesStar
<1>5. Matches(text, pattern, starSi + 2, starPi)
        <=> \E k \in (starSi + 2)..(Len(text) + 1) : Matches(text, pattern, k, starPi + 1)
  BY <1>2, MatchesStar
<1>6. \A k : k \in (starSi + 1)..(Len(text) + 1)
              <=> k = starSi + 1 \/ k \in (starSi + 2)..(Len(text) + 1)
  BY <1>2
<1>7. Like(text, pattern) <=> \/ Matches(text, pattern, starSi + 1, starPi + 1)
                             \/ Matches(text, pattern, starSi + 2, starPi)
  BY <1>1, <1>3, <1>4, <1>5, <1>6 DEF LastStarSuffices, Here
<1>8. starSi' + 1 = starSi + 2 /\ si' + 1 = starSi + 2
  BY <1>1
<1>9. LastStarSuffices'
  BY <1>1, <1>7, <1>8 DEF LastStarSuffices
<1>10. NothingBehind'
  BY <1>1, <1>5, <1>8 DEF NothingBehind
<1>. QED  BY <1>9, <1>10

(* At the end of the text nothing lies behind.                             *)
LEMMA NothingThere ==
  ASSUME IInv, answer = None, ~InText
  PROVE  ~There
<1>. USE Types DEF IInv
<1>1. si = Len(text) + 1
  BY DEF TypeOK, InText
<1>. QED  BY <1>1 DEF NothingBehind, There

LEMMA SkipStep ==
  ASSUME IInv, SkipTrailingStar
  PROVE  LastStarSuffices' /\ NothingBehind'
<1>. USE Types DEF IInv
<1>1. /\ text' = text /\ pattern' = pattern /\ si' = si /\ pi' = pi + 1
      /\ starPi' = starPi /\ starSi' = starSi /\ answer' = answer /\ answer = None
      /\ ~InText
  BY DEF SkipTrailingStar
<1>2. pi \in 1..Len(pattern) /\ pattern[pi] = "%" /\ si = Len(text) + 1
  BY <1>1 DEF SkipTrailingStar, AtStar, TypeOK, InText
<1>3. ~There
  BY <1>1, NothingThere
<1>4. Here <=> \E k \in si..(Len(text) + 1) : Matches(text, pattern, k, pi + 1)
  BY <1>2, MatchesStar DEF Here
<1>5. Here <=> Matches(text, pattern, si, pi + 1)
  <2>1. si..(Len(text) + 1) = {si}
    BY <1>2
  <2>. QED  BY <1>4, <2>1
<1>6. LastStarSuffices'
  BY <1>1, <1>3, <1>5 DEF LastStarSuffices, Here, There
<1>7. NothingBehind'
  BY <1>1, <1>3 DEF NothingBehind, There
<1>. QED  BY <1>6, <1>7

(* Both ways to return.                                                    *)
LEMMA MismatchAnswers ==
  ASSUME IInv, Mismatch
  PROVE  AnswersLike'
<1>. USE DEF IInv
<1>1. ~Here /\ ~There
  BY NoMatchHere DEF Mismatch, There
<1>2. ~Like(text, pattern)
  BY <1>1 DEF LastStarSuffices, Mismatch, Here, There
<1>3. text' = text /\ pattern' = pattern /\ ~answer'
  BY DEF Mismatch
<1>. QED  BY <1>2, <1>3 DEF AnswersLike

LEMMA FinishAnswers ==
  ASSUME IInv, Finish
  PROVE  AnswersLike'
<1>. USE Types DEF IInv
<1>1. /\ text' = text /\ pattern' = pattern
      /\ answer' <=> pi = Len(pattern) + 1
      /\ answer = None /\ ~InText /\ ~AtStar
  BY DEF Finish
<1>2. si = Len(text) + 1 /\ pi \in 1..(Len(pattern) + 1)
  BY <1>1 DEF TypeOK, InText
<1>3. Here <=> pi = Len(pattern) + 1
  <2>1. CASE pi = Len(pattern) + 1
    BY <1>2, <2>1, MatchesNothing DEF Here
  <2>2. CASE pi \in 1..Len(pattern)
    <3>1. pattern[pi] # "%"
      BY <1>1, <2>2 DEF AtStar
    <3>2. ~(si <= Len(text))
      BY <1>2
    <3>3. ~Here
      BY <2>2, <3>1, <3>2, MatchesByte DEF Here
    <3>. QED  BY <2>2, <3>3
  <2>. QED  BY <1>2, <2>1, <2>2
<1>4. Like(text, pattern) <=> Here
  BY <1>1, NothingThere DEF LastStarSuffices, Here, There
<1>. QED  BY <1>1, <1>3, <1>4 DEF AnswersLike

LEMMA NextIInv == IInv /\ [Next]_vars => IInv'
<1>. SUFFICES ASSUME IInv, [Next]_vars PROVE IInv'
  OBVIOUS
<1>1. TypeOK'
  BY TypesStep DEF IInv
<1>2. ASSUME answer = None, answer' = None PROVE AnswersLike'
  BY <1>2 DEF AnswersLike
<1>3. ASSUME answer' # None PROVE LastStarSuffices' /\ NothingBehind'
  BY <1>3 DEF LastStarSuffices, NothingBehind
<1>4. CASE Bookmark
  BY <1>1, <1>2, <1>4, BookmarkStep DEF IInv, Bookmark
<1>5. CASE Advance
  BY <1>1, <1>2, <1>5, AdvanceStep DEF IInv, Advance
<1>6. CASE Backtrack
  BY <1>1, <1>2, <1>6, BacktrackStep DEF IInv, Backtrack
<1>7. CASE Mismatch
  <2>1. answer' # None
    BY <1>7, NoneAssumption DEF Mismatch
  <2>. QED  BY <1>1, <1>3, <1>7, <2>1, MismatchAnswers DEF IInv
<1>8. CASE SkipTrailingStar
  BY <1>1, <1>2, <1>8, SkipStep DEF IInv, SkipTrailingStar
<1>9. CASE Finish
  <2>1. answer' # None
    BY <1>9, NoneAssumption DEF Finish
  <2>. QED  BY <1>1, <1>3, <1>9, <2>1, FinishAnswers DEF IInv
<1>10. CASE UNCHANGED vars
  BY <1>10 DEF vars, IInv, TypeOK, AnswersLike, LastStarSuffices, NothingBehind
<1>. QED  BY <1>4, <1>5, <1>6, <1>7, <1>8, <1>9, <1>10 DEF Next

LEMMA LoopInvariant == Spec => []IInv
BY InitIInv, NextIInv, PTL DEF Spec

-----------------------------------------------------------------------------
(* No index of the loop ever leaves the text or the pattern.               *)
THEOREM LikeTypeCorrect == Spec => []TypeOK
<1>1. IInv => TypeOK
  BY DEF IInv
<1>. QED  BY <1>1, LoopInvariant, PTL

(* One bookmark is enough for every text and every pattern.                *)
THEOREM LikeLastStarSuffices == Spec => []LastStarSuffices
<1>1. IInv => LastStarSuffices
  BY DEF IInv
<1>. QED  BY <1>1, LoopInvariant, PTL

(* like_match answers LIKE for every text and every pattern.               *)
THEOREM LikeAnswers == Spec => []AnswersLike
<1>1. IInv => AnswersLike
  BY DEF IInv
<1>. QED  BY <1>1, LoopInvariant, PTL
=============================================================================
