CONSTANTS
  Workers = {w1, w2}
  Events = {e1}
  WorkflowEvents = {e1}
  NoEvent = NoEvent
  MaxAttempts = 2
  AttemptLimit = 4
  MayFail = TRUE
  Users = {"u1", "u2"}
  Topics = {"urgent", "calm"}
  Urgency <- ItsUrgency
  Roles <- ItsRoles
  Bodies <- TheBodies
  MaxEmissions = 2
  EmissionsFail = TRUE
SPECIFICATION MCSpec
INVARIANTS DeliveriesAreHonest NoticesArrive
PROPERTIES EndedEventsStay NobodyElseChanges EventsEnd
CHECK_DEADLOCK FALSE
