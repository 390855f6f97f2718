SPECIFICATION FairSpec
CONSTANTS
    MaxInt = 99
    MaxFragments = 3
    MaxEnclosing = 5
    Chars <- MCChars
    Letters <- MCLetters
    Texts <- MCTexts
INVARIANTS
    TypeOK
    ReadsBack
    Shrinks
PROPERTY
    Terminates
CHECK_DEADLOCK FALSE
