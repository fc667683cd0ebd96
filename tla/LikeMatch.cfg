SPECIFICATION Spec
CONSTANTS
    Bytes <- SomeBytes
    Texts <- ShortTexts
    Patterns <- ShortPatterns
    Lower <- AsciiLower
    None = None
INVARIANTS TypeOK AnswersLike LastStarSuffices
PROPERTY Terminates
\* The loop ends.
CHECK_DEADLOCK FALSE
