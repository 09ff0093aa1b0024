CONSTANTS
  Steps = {acknowledged, riskReviewed}
  RiskReviewed = riskReviewed
  StepTTL = 1
  SessionTTL = 2
  MaxTime = 1
  MaxBoots = 1
  MaxVersion = 2
SPECIFICATION Spec
INVARIANT LiveLimitsWereReviewed
