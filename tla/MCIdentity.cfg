CONSTANTS
  Emails = {e1, e2}
  Operators = {o1, o2}
  None = None
  MaxChanges = 2
  Processes = {p1, p2, p3}
  Users = {"alice", "bob", "carol"}
  FirstAdmins = {"alice", "bob"}
  Families = {"s1"}
  MaxTokens = 2
  MaxVersions = 2
  MaxPasswords = 2
  Clients = {"c1", "c2"}
  Keys = {"k1", "k2"}
  LockOf <- TwoKeysOneLock
  Bodies = {"plain", "spaced", "other", "broken"}
  DigestOf <- DigestOfBody
  Ids = {1, 2, 3, 4}
  MaxFailures = 1
  Nobody = Nobody
  Invalid = Invalid
  NoRow = NoRow
  NoId = NoId
  Rotators = {"r1", "r2"}
  Setups = {"s1", "s2"}
  KeyIds = {1, 2, 3}
  Tenants = {"ta", "tb"}
  Notes = {"plain", Marker}
  Administrators = {"anna", "omar"}
  Configured = "anna"
  MaxTime = 2
  MaxLosses = 1
  NoKeyId = NoKeyId
  NoSetup = NoSetup
  NotRevoked = NotRevoked
  Marker = Marker
  InitialNote = InitialNote
SPECIFICATION MCSpec
SYMMETRY Symmetric
INVARIANTS SessionsAreSound RegistrationIsHonest KeysAreSound
PROPERTIES OnlyTheFirstAdmin SessionsStayEnded
CHECK_DEADLOCK FALSE
