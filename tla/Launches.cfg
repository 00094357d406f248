SPECIFICATION MCLaunchSpec
CONSTANTS
    c1 = c1
    g1 = g1
    g2 = g2
    s1 = s1
    s2 = s2
    s3 = s3
    s4 = s4
    Clients = {c1, g1, g2}
    Registrants = {c1}
    Surfaces = {s1, s2, s3, s4}
    ClientOf <- WindowsOf
    NULL = NULL
    Tokens = {t1}
    NoToken = NoToken
    NoReport = NoReport
    BaseDelay = 1
    MaxDelay = 1
INVARIANTS
    SessionHasItsGame
PROPERTY
    LaunchActivates
CHECK_DEADLOCK FALSE
