SPECIFICATION MCSpec
CONSTANTS
    u1 = u1
    u2 = u2
    NoUser = NoUser
    Users <- MCUsers
    MaxCodes = 1
    MaxUpdates = 3
    MaxRedeemers = 2
    MaxCommandFaults = 1
    MaxSockets = 2
    MaxFaults = 2
    MaxDeaths = 1
    Keys <- MCKeys
    Rejections <- MCRejections
    LossKey = "loss"
    HourlyCap = 2
    Cooldown = 2
    Hour = 3
    MaxClock = 6
    t1 = t1
    t2 = t2
    Absent = Absent
    Requests = {1, 2, 3}
    Tokens = {t1, t2}
    InstallOf <- MCInstallOf
    Cap <- MCCap
    Retention = 1
    Reads = {"head", "nonce"}
    Ttl <- MCTtl
    MaxBatch = 2
    RpcBodies <- MCRpcBodies
    MarketQueries <- MCMarketQueries
    Folded <- MCFolded
    MaxDay = 2
SYMMETRY UserSymmetry
INVARIANTS StopTakesTwo SidesAgree NoFlood AnswersAreTheirOwn QuotaHolds SessionsEnd
PROPERTY EffectsAdvance
CHECK_DEADLOCK FALSE
