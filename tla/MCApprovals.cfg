CONSTANTS
  Handlers = {h1, h2}
  Expirers = {w1, w2}
  Recommendations = {r1, r2}
  ApprovalIds = {a1, a2}
  NoRecommendation = NoRecommendation
  NoApproval = NoApproval
  ExpiryTicks = 1
  Limit = 2
  MaxTime = 2
  Requests = {q1, q2, q3}
  Approvals = {a1}
  Batches = {b1}
  MaxFailures = 2
SPECIFICATION MCSpec
INVARIANTS TypeOK ApprovalsAreConsistent EventsAreHonest
PROPERTIES DecisionsAreFinal ImplementsDecision EverythingEnds
CHECK_DEADLOCK FALSE
