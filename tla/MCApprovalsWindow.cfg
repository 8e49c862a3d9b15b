CONSTANTS
  Handlers = {h1}
  Expirers = {w1}
  Recommendations = {r1, r2}
  ApprovalIds = {a1, a2}
  NoRecommendation = NoRecommendation
  NoApproval = NoApproval
  ExpiryTicks = 1
  Limit = 1
  MaxTime = 2
SPECIFICATION Spec
INVARIANTS DecisionInsideWindow
CHECK_DEADLOCK FALSE
