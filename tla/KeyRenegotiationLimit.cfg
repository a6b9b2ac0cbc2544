SPECIFICATION Spec
CONSTANTS
    NoKey = NoKey
    HandshakeWindow = 2
    BecomePrimary = 2
    ClientRenegotiate = 10
    ServerRenegotiate = 12
    Renegotiate <- MCRenegotiate
    KeyExpire = 20
    Expire <- MCExpire
    DataLimited = TRUE
    KeyIdMask = 7
    ClientLimits = {1}
    ServerLimits = {}
    LimitedKeys <- MCLimitedKeys
    EarlyLimits = TRUE
    Modes = {"prompt"}
    PromptTime = 44
    LossyTime = 8
    MaxTime <- MCMaxTime
INVARIANTS
    LimitHonoured
CHECK_DEADLOCK FALSE
