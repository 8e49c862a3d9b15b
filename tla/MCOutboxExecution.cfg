CONSTANTS
  Workers = {w1}
  Events = {e1}
  WorkflowEvents = {e1}
  NoEvent = NoEvent
  MaxAttempts = 2
  AttemptLimit = 2
  MayFail = FALSE
SPECIFICATION Spec
INVARIANTS ExecutionIsStored
