----------------------------- MODULE MCLikeMatch -----------------------------
(***************************************************************************)
(* All short texts against all short patterns over two letters.            *)
(***************************************************************************)
EXTENDS LikeMatch

SomeBytes == {"a", "b", "B", "%", "_"}
AsciiLower == [c \in SomeBytes |-> IF c = "B" THEN "b" ELSE c]

UpTo(n, bytes) == UNION { [1..m -> bytes] : m \in 0..n }
ShortTexts == UpTo(4, {"a", "B"})
ShortPatterns == UpTo(4, {"a", "b", "%", "_"})
=============================================================================
