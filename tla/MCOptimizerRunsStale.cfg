CONSTANTS
  Handlers = {h1}
  Workers = {w1}
  Runs = {r1}
  Forecasts = {f1}
  Policies = {p1}
  Prices = {v1}
  NoRun = NoRun
  NoWorker = NoWorker
  MayCrash = FALSE
SPECIFICATION Spec
PROPERTIES StalePricesBlockRecommendations
