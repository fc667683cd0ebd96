------------------------------ MODULE LikeMatch ------------------------------
(***************************************************************************)
(* like_match (crates/dbshell-core/src/filter.rs): SQL's LIKE without      *)
(* recursion.  The loop walks text and pattern together and remembers the  *)
(* last % only: on a mismatch it lets that % take one byte more.  Texts    *)
(* and patterns are sequences of bytes, indices start at 1.                *)
(***************************************************************************)
EXTENDS Naturals, Sequences

CONSTANTS
    Bytes,
    Texts, Patterns,  \* what it may be called with
    Lower,            \* to_ascii_lowercase
    None              \* usize::MAX: no % seen yet

ASSUME InputsAssumption == Texts \subseteq Seq(Bytes) /\ Patterns \subseteq Seq(Bytes)
ASSUME LowerAssumption == Lower \in [Bytes -> Bytes]
ASSUME NoneAssumption == None \notin Nat \cup BOOLEAN

VARIABLES
    text, pattern,
    si, pi,          \* the next byte of each to look at
    starPi, starSi,  \* the last %, and where what it takes ends
    answer           \* None until like_match returns

vars == <<text, pattern, si, pi, starPi, starSi, answer>>

-----------------------------------------------------------------------------
(* LIKE, by what it means: the parts of pattern p can be laid along text s. *)

\* _ takes any byte, another byte itself in either case.
Fits(s, p, i, j) == p[j] = "_" \/ Lower[s[i]] = Lower[p[j]]

\* Part j of the pattern takes the text from i up to k, not included.
Takes(s, p, i, j, k) ==
    IF p[j] = "%" THEN i <= k
    ELSE i <= Len(s) /\ k = i + 1 /\ Fits(s, p, i, j)

\* The pattern from j on takes the text from i on: part q begins at at[q].
Layouts(s, p, j) == [j..(Len(p) + 1) -> 1..(Len(s) + 1)]
LaidOut(s, p, i, j, at) ==
    /\ at[j] = i
    /\ at[Len(p) + 1] = Len(s) + 1
    /\ \A q \in j..Len(p) : Takes(s, p, at[q], q, at[q + 1])
Matches(s, p, i, j) == \E at \in Layouts(s, p, j) : LaidOut(s, p, i, j, at)

Like(s, p) == Matches(s, p, 1, 1)

-----------------------------------------------------------------------------
Init ==
    /\ text \in Texts
    /\ pattern \in Patterns
    /\ si = 1
    /\ pi = 1
    /\ starPi = None
    /\ starSi = 1
    /\ answer = None

InText == si <= Len(text)
AtStar == pi <= Len(pattern) /\ pattern[pi] = "%"
SlipMatchesHere == pi <= Len(pattern) /\ text[si] = pattern[pi]
MatchesHere == pi <= Len(pattern) /\ ~AtStar /\ Fits(text, pattern, si, pi)

\* The % itself, not what follows it.
SlipBookmarkAt == pi + 1
BookmarkAt == pi

Bookmark ==
    /\ answer = None
    /\ InText /\ AtStar
    /\ starPi' = BookmarkAt
    /\ starSi' = si
    /\ pi' = pi + 1
    /\ UNCHANGED <<text, pattern, si, answer>>

Advance ==
    /\ answer = None
    /\ InText /\ MatchesHere
    /\ si' = si + 1
    /\ pi' = pi + 1
    /\ UNCHANGED <<text, pattern, starPi, starSi, answer>>

\* Where the last % ends after a mismatch.  The slips let it take nothing
\* more, and skip what has matched since.
SlipSameEnd == starSi
SlipNextEnd == si + 1
NextEnd == starSi + 1

Backtrack ==
    /\ answer = None
    /\ InText /\ ~AtStar /\ ~MatchesHere
    /\ starPi # None
    /\ pi' = starPi + 1
    /\ starSi' = NextEnd
    /\ si' = NextEnd
    /\ UNCHANGED <<text, pattern, starPi, answer>>

Mismatch ==
    /\ answer = None
    /\ InText /\ ~AtStar /\ ~MatchesHere
    /\ starPi = None
    /\ answer' = FALSE
    /\ UNCHANGED <<text, pattern, si, pi, starPi, starSi>>

SkipTrailingStar ==
    /\ answer = None
    /\ ~InText /\ AtStar
    /\ pi' = pi + 1
    /\ UNCHANGED <<text, pattern, si, starPi, starSi, answer>>

Finish ==
    /\ answer = None
    /\ ~InText /\ ~AtStar
    /\ answer' = (pi = Len(pattern) + 1)
    /\ UNCHANGED <<text, pattern, si, pi, starPi, starSi>>

Next ==
    \/ Bookmark
    \/ Advance
    \/ Backtrack
    \/ Mismatch
    \/ SkipTrailingStar
    \/ Finish

\* A synchronous loop: it goes on until it returns.
Spec == Init /\ [][Next]_vars /\ WF_vars(Next)

-----------------------------------------------------------------------------
(* Type invariant: every index the loop reads next is within bounds, and   *)
(* the bookmark, once set, is a % behind which the walk stands.            *)
TypeOK ==
    /\ text \in Texts
    /\ pattern \in Patterns
    /\ si \in 1..(Len(text) + 1)
    /\ pi \in 1..(Len(pattern) + 1)
    /\ starPi \in 1..Len(pattern) \cup {None}
    /\ starSi \in 1..(Len(text) + 1)
    /\ answer \in BOOLEAN \cup {None}
    /\ starPi # None => /\ pattern[starPi] = "%"
                        /\ starPi < pi
                        /\ starSi <= si

(* like_match answers LIKE: with all the layouts it never tried, it misses *)
(* no match and reports none that is not there.                            *)
AnswersLike == answer # None => (answer <=> Like(text, pattern))

(* Why one bookmark is enough: at every turn of the loop the text is LIKE  *)
(* the pattern exactly if the rest matches the rest from here, or from the *)
(* last % once that takes more.  No % before the last is ever needed.      *)
LastStarSuffices ==
    answer = None =>
        (Like(text, pattern) <=>
            \/ Matches(text, pattern, si, pi)
            \/ starPi # None /\ Matches(text, pattern, starSi + 1, starPi))

(* The loop ends for every text and pattern, although it moves back.       *)
Terminates == <>(answer # None)
=============================================================================
