SPECIFICATION FairSpec
CONSTANTS
    c1 = c1
    c2 = c2
    c3 = c3
    s1 = s1
    s2 = s2
    s3 = s3
    s4 = s4
    Clients = {c1, c3}
    Registrants = {c1}
    Surfaces = {s1, s3}
    ClientOf <- OnePair
    NULL = NULL
    Tokens = {t1, t2}
    NoToken = NoToken
    NoReport = NoReport
    BaseDelay = 1
    MaxDelay = 2
INVARIANTS
    TypeOK
    PeerNotMisled
    ReadyNamesLaunch
PROPERTIES
    ImplementsLifecycle
    TerminationEnds
CHECK_DEADLOCK FALSE
