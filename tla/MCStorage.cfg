CONSTANTS
  Callers = {c1, c2}
  Values = {v1, v2}
  None = None
  MaxFiles = 2
  Requests = {i1, i2}
  NoRequest = NoRequest
  NoFile = NoFile
  NoBatch = NoBatch
  Bodies <- TheBodies
  Files <- TheFiles
  Uris <- TheUris
  ProviderOf <- TheProviders
  ManualLimit = 2
  MaxBigint = 8
  ImportsFail = TRUE
  Accounts = {a1}
  Refs = {r1}
  Labels = {l1, l2}
  Clients = {p1, p2}
  Absent = Absent
  NoClient = NoClient
  NoAccount = NoAccount
  LastTime = 5
  CallsFail = TRUE
SPECIFICATION MCSpec
SYMMETRY Symmetric
INVARIANTS TemporariesArePrivate ImportsAreSound
PROPERTIES AtomicObjects AccountsLoseNothing
CHECK_DEADLOCK FALSE
