CONSTANTS
  Collectors <- MCCollectors
  PG = "pg"
  OwnDB = {"pg_database"}
  DBMap <- MCDBMap
  MonitKey = ":0"
  MetricMap <- MCMetricMap
  Scrapes = {1, 2}
  DbMayHang = FALSE
SPECIFICATION Spec
INVARIANT SuccessReported
PROPERTIES ScrapeAnswered ShutdownCompletes
CHECK_DEADLOCK FALSE
