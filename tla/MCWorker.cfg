CONSTANTS
  Workers = {w1, w2}
  Forecasts = {f1, f2}
  Backtests = {b1}
  NoJob = NoJob
  Broken = {}
  MayFail = TRUE
  Tables = {"t1", "t2", "t3", "t4"}
  Instruments = {"i1", "i2"}
  Instrument <- ItsInstrument
  Label <- ItsLabel
  From <- ItsFrom
  To <- ItsTo
  Requests = {"q1", "q2", "q3"}
  Nobody = Nobody
  StaleDays = 0
  LastDay = 1
  CallsFail = TRUE
  None = None
  Services = {"s1", "s2"}
  Window = 3
  Histories <- TheHistories
  Policies <- ThePolicies
  ItemLists <- TheItemLists
  YearLength = 2
  Horizon = 2
  MinWindow = 3
  MinMonths = 3
  HoursPerMonth = 730
  Bps = 10000
SPECIFICATION MCSpec
INVARIANTS JobsAreSound PricesAreUnambiguous MoneyIsRight
PROPERTIES ImplementsLifecycle StaleTablesStayOut NothingStarves
CHECK_DEADLOCK FALSE
