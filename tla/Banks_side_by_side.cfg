SPECIFICATION MCSpec
CONSTANTS
  Browsed = {c1, c2}
  Tests = {t1}
  Calls = {k1, k2}
  MaxBrowsers = 1
  MaxLaunches = 3
  Kinds = {"gopay", "bri", "qris_bca"}
  Runs = {s1, s2}
  MaxTokens = 2
  NoSession = NoSession
SYMMETRY Symmetry
INVARIANTS PoolExplained  ScrapeExplained
CHECK_DEADLOCK FALSE
