SPECIFICATION MCSpec
CONSTANTS
    Passwords = {p1, p2}
    None = None
    Requests = {r1, r2}
    Sessions = {s1, s2}
    Tokens = {t1}
    Purposes = {"wallet.withdraw"}
    Limit = 2
    Window = 3
    Lockout = 2
    MaxTime = 3
    MaxCrashes = 1
    Keys = {1, 2, 3, 4}
    NoKey = NoKey
    Chains = {c1, c2}
    WalletDeaths = 2
    Quotes = {r1, r2}
    ClientKeys = {s1, s2}
    NoClientKey = NoClientKey
    MaxNonce = 3
    MaxDeaths = 2
SYMMETRY Symm
CHECK_DEADLOCK FALSE
INVARIANTS GuessesAreBounded ActsWereProven KeyIsTimed NoForgottenAddress NeverTwice RowTellsTheTruth
