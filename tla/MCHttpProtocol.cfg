CONSTANTS
    NULL = NULL
    Data = {"CR", "LF", "z"}
    Hex <- SomeHex
    Length <- SomeLength
    Good <- SomeGood
    Bad <- SomeBad
    Trailer <- SomeTrailer
    MaxMessages = 2
SPECIFICATION Spec
INVARIANTS
    RetrievesWhatWasSent
    ErrorComesAfterSent
    NothingLeftLying
