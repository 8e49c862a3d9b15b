CONSTANTS
  Operations = {o1, o2, o3, o4, o5}
  concurrency = 2
  queueLimit = 2
  Callers = {c1, c2, c3}
  MaxGenerations = 2
  MaxCloses = 2
  Requests = {q1, q2}
  MaxSignals = 2
  MaxFailures = 3
  Calls = {c1, c2, c3}
  IdempotencyKeys = {k1, k2}
  NoJob = NoJob
  MaxLength = 1
  MaxExpiries = 1
  MaxLosses = 1
  Runners = {r1, r2}
  None = None
  Texts = {t1, t2}
  Versions = {1, 2}
  MaxRuns = 2
SPECIFICATION MCSpec
INVARIANTS HashesAreBoundedAndFair ResourcesAreSafe DoneOnce
PROPERTIES EverythingEnds
CHECK_DEADLOCK FALSE
