CONSTANTS
    Payloads <- SomePayloads
    Keys <- SomeKeys
    KeyChars <- EncodedKeySize
    Len16 = 2
    Len64 = 5
    Room = 4
    Fragments = {1}
    ClientCalls = 2
    ServerCalls = 1
SPECIFICATION FairSpec
INVARIANTS
    ClientBelievesServer
    MessagesIntact
    CloseIsLast
    WaitsForMissingParts
    CodecsFaithful
PROPERTY CloseAnswered
CHECK_DEADLOCK FALSE
