CONSTANTS
  Collectors <- MCCollectors
  PG = "pg"
  OwnDB = {"pg_database"}
  DBMap <- MCDBMap
  MonitKey = ":0"
  MetricMap <- MCMetricMap
  Scrapes = {1, 2}
  DbMayHang = TRUE
SPECIFICATION Spec
PROPERTY ScrapeAnswered
CHECK_DEADLOCK FALSE
