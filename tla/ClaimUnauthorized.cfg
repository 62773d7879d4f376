CONSTANTS
    None = None
    Request = {r1, r2}
    Target <- OneTarget
    Method = {"GET"}
    Credentials = {}
    Challenge <- OneScope
    Asks <- Decided
    Private <- Nobody
    SecureRealm <- OneScope
    Redirects <- Circle
    Lifetime = {1}
    Faults = {}
    Revokes = FALSE
    Timeout = 2
    ChallengeTTL = 1
    Grace = 1
    ListenerFails = FALSE
SPECIFICATION ProcessSpec
PROPERTY UnauthorizedOnlyIfUnresolvable
CHECK_DEADLOCK FALSE
