CONSTANTS
    None = None
    Request = {r1, r2}
    Target <- Targets
    Method = {"GET", "POST"}
    Credentials = {cred}
    Challenge <- OneScope
    Asks <- Decided
    Private <- Nobody
    SecureRealm <- OneScope
    Redirects <- Circle
    Lifetime = {1}
    Faults = {"token", "plain401"}
    Revokes = TRUE
    Timeout = 2
    ChallengeTTL = 1
    Grace = 1
    ListenerFails = TRUE
SPECIFICATION ProcessFairSpec
INVARIANTS TypeOK TokenConfined WaitersLed SendsBounded OvertimeBounded
PROPERTIES DrainIsPatient ImplementsCalls 
CHECK_DEADLOCK FALSE
