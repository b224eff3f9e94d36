CONSTANTS
    NULL = NULL
    Data = {"CR", "LF", "z"}
    Hex <- SomeHex
    Length <- SomeLength
    Good <- SomeGood
    Bad <- SomeBad
    Trailer <- SomeTrailer
    MaxMessages = 1
SPECIFICATION Spec
INVARIANT TrailerIsRead
