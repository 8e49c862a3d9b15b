CONSTANTS
  Handlers = {h1}
  Workers = {w1, w2}
  Runs = {r1, r2}
  Forecasts = {f1}
  Policies = {p1}
  Prices = {v1}
  NoRun = NoRun
  NoWorker = NoWorker
  MayCrash = TRUE
  PolicyIds = {p1, p2}
  Names = {n1, n2}
  Terms = {m1}
  Admins = {a1, a2}
  Absent = Absent
  NoPolicy = NoPolicy
SPECIFICATION MCSpec
INVARIANTS RunsAreConsistent PoliciesAreFrozen
PROPERTIES InputsValidWhenQueued ImplementsJobLifecycle RunsEnd
CHECK_DEADLOCK FALSE
