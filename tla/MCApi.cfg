CONSTANTS
  Readers = {r1, r2, r3}
  None = None
  MaxEdits = 2
  MaxRows = 3
  Users = {"u1"}
  Keys = {"k1"}
  InitialRoles <- RoleNames
  Clients = {"c1"}
  Registered <- AllRoutes
  Targets = {"id1"}
  Mode = "redis"
  Window = 2
  Lifetime = 2
  MaxClock = 2
  MaxTokens = 2
  MaxArrivals = 11
  MaxChanges = 2
  NoRequest = NoRequest
  Accounts = {"a1", "a2"}
  Addresses = {"i1"}
  Families = {"f1"}
  AccountLimit = 2
  LoginAddressLimit = 3
  RefreshAddressLimit = 3
  FamilyLimit = 2
  LoginWindow = 4
  RefreshWindow = 2
  PerSecond = 2
  MaxNow = 6
  Rows <- TheRows
  Limits = {1, 2}
  MaxMicros = 3
  MaxWanted = 1
  MaxUpdates = 1
SPECIFICATION MCSpec
SYMMETRY Symmetric
INVARIANTS ReportsAreFrozen RequestsAreSound LimitsHold PagesAreSound
PROPERTIES RenderedIsFinal
CHECK_DEADLOCK FALSE
