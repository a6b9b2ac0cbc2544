SPECIFICATION Spec
CONSTANTS
    NoKey = NoKey
    HandshakeWindow = 2
    BecomePrimary = 2
    ClientRenegotiate = 5
    ServerRenegotiate = 7
    Renegotiate <- MCRenegotiate
    KeyExpire = 9
    Expire <- MCExpire
    DataLimited = TRUE
    KeyIdMask = 7
    ClientLimits = {1, 2}
    ServerLimits = {}
    LimitedKeys <- MCLimitedKeys
    EarlyLimits = FALSE
    Modes = {"prompt", "lossy"}
    PromptTime = 44
    LossyTime = 9
    MaxTime <- MCMaxTime
INVARIANTS
    TransmitUnderstood
    
    RequestUnderstood
    
    NegotiatesInTime
    KeyLifetime
    LimitHonoured
CHECK_DEADLOCK FALSE
