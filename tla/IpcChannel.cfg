SPECIFICATION ChannelFairSpec
CONSTANTS
    Tokens = {"t1", "t2"}
    NoToken = NoToken
    NoReport = NoReport
    BaseDelay = 100
    MaxDelay = 5000
    Messages <- SomeMessages
    Refused = Refused
    NoFrame = NoFrame
    NoString = NoString
    MaxUnread = 1
INVARIANTS
    PeerTypeOK
    NeverStranded
    BackoffRestartsWhileRunning
    ReadAsMeant
PROPERTY
    Reconnects
