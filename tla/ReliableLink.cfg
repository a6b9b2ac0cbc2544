SPECIFICATION FairSpec
CONSTANTS
    reset = reset
    hello = hello
    key = key
    data = data
    Payload <- MCPayload
    Raw <- MCRaw
    Undefined = Undefined
    Erased = Erased
    Span = 2
    MaxAckList = 1
    Modes = {"plain", "wrapped"}
    Stream <- MCStream
    MaxAcks = 2
INVARIANTS
    NothingForgotten
PROPERTIES
    InOrder
    Acknowledged
CHECK_DEADLOCK FALSE
