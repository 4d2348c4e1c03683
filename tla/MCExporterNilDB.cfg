CONSTANTS
  Collectors <- MCCollectors
  PG = "pg"
  OwnDB = {"pg_database"}
  DBMap <- MCDBMap
  MonitKey = ":0"
  MetricMap <- MCMetricMapAll
  Scrapes = {1, 2}
  DbMayHang = FALSE
SPECIFICATION Spec
INVARIANT NoCollectorPanic
CHECK_DEADLOCK FALSE
