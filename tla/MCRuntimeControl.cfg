CONSTANTS
  Steps = {acknowledged, riskReviewed}
  RiskReviewed = riskReviewed
  StepTTL = 1
  SessionTTL = 2
  MaxTime = 3
  MaxBoots = 3
  MaxVersion = 2
SPECIFICATION Spec
INVARIANTS
  LiveIsOfThisBoot
  ChecklistWalkedAnew
PROPERTY ImplementsLiveAuthority
