CONSTANTS
  Proposals = {a, b}
  Providers = {p}
  Recipients = {r1}
  None = None
  CapSet <- MCCaps
  Budgets = {0, 1}
  MaxUsd = 1
  MaxMonth = 1
  MaxExpense = 1
  MaxExports = 2
  Secrets = {x1, x2}
  NoSecret = NoSecret
  AdminSessions = {a1, a2}
  AdminJobs = {j1, j2}
  AdminTokens = {1}
  NoToken = NoToken
  AdminLimit = 2
  AdminWindow = 2
  AdminLockout = 2
  TokenTtl = 1
  GateLimit = 1
  GateWindow = 1
  AdminTime = 2
  AdminDeaths = 1
SYMMETRY Symmetry
SPECIFICATION MCSpec
INVARIANTS
  OneInstruction
  GateIsHeld
PROPERTIES
  FreezeHolds
  ApprovedWithinLimits
  GrantsRest
