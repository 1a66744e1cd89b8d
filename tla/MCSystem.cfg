SPECIFICATION SystemSpec
CONSTANTS
    Versions <- Releases
    Factory = 1
    Minimum <- Predecessors
    NoVersion = NoVersion
    NoResult = NoResult
    MaxRuns = 3
    MaxResets = 4
    ring = ring
    kickr = kickr
    r1 = r1
    k1 = k1
    Products = {ring, kickr}
    Peers = {r1, k1}
    ProductOf <- OnePeerEach
    NoPeer = NoPeer
    DialMayFail = TRUE
    CloseMayFail = TRUE
    MaxToggles = 5
INVARIANTS
    FallbackKept ResultsTruthful UpdaterOwned
    LinkInv
PROPERTIES PendingSurvivesUpdate HealthyImageConfirmed OffLinksDown
CHECK_DEADLOCK FALSE
