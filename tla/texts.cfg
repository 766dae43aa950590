\* Bytes: newline, another control character, " % + / 2 \ a n and one of UTF-8.
SPECIFICATION Spec
CONSTANTS
    Alphabet = {10, 31, 34, 37, 43, 47, 50, 92, 97, 110, 195}
    MaxLength = 4
INVARIANTS
    EncodingIsReversible
    DecodesEachEscapeOnce
    PrefixesAreWholeSegments
    CauseIsReadBack
    AllowNamesTheMethods
\* The longest texts have no successor.
CHECK_DEADLOCK FALSE
