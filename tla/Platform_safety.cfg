SPECIFICATION Spec

CONSTANTS
  Actors = {r1, r2}
  Null = Null
  LastDay = 1
  PeriodStart = 1
  MaxContracts = 1
  MaxData = 2
  MaxClock = 6
  BUILD_EPOCH = 1
  REGRESSION_TOLERANCE_S = 1
  RETENTION = 2
  REQUIRE_SYNC_SOURCE = FALSE
  MaxRows = 2
  MinValid = 1
  MaxValid = 2
  Width = 4
  ONEWIRE_FREEZE_STUCK_READS = 3
  STALE_AFTER = 1
  MaxFreeze = 1
  MaxUptime = 2
  Ips = {p1}
  Emails = {p1, p2}
  IP_MAX_ATTEMPTS = 3
  IP_WINDOW_S = 1
  FAIL_MAX_ATTEMPTS = 2
  FAIL_WINDOW_S = 2
  MaxLoginTime = 4
  Plants = {p1, p2}
  Invites = {p1, p2}
  Alerts = {p1, p2}
  MaxHours = 2
  MaxTasks = 2
  MaxMessages = 3
  BACKOFF_MAX = 3
  Runs = {r1, r2, r3}
  MaxVersion = 3
  Amounts = {0, 1, 2, 3, 10, 11, 33, 100, 102, 110, 99999}
  Rates = {0, 5, 12, 18}
  HoursPerDay = 2
  DaysPerMonth = 1
  TRAILING_LOOKBACK_DAYS = 2
  Rupees = {0, 1, 9, 10, 11, 19, 20, 21, 30, 99, 100, 101, 119, 120, 199, 200, 999, 1000, 1001,
            1020, 1099, 1100, 9999, 10000, 10001, 11000, 19099, 20000, 99999, 100000, 100001,
            100099, 100100, 101000, 110000, 199999, 999999, 1000000, 1000001, 1099999, 1100000,
            9999999, 10000000, 10000001, 10000099, 10001000, 10100000, 11000000, 19999999,
            99999999, 100000000, 100000001, 199000019, 1000000000, 1000000001, 1099999999,
            1100100100, 1999999999}
  Paise = {0, 1, 50, 99}
  Years = {1999, 2000, 2026}
  Fees = {3}
  Marks = {5000, 10000}
  Values = {0, 2, 3}
  Ages = {1, 2}
  Counts = {0, 1, 4}
  Thresholds = {1, 2}
  Windows = {2, 3, 5}
  SNAPSHOT_ROWS_PER_SENSOR = 3
  LOOKBACK_SLACK = 1
  MaxReadings = 4
  MaxSamples = 2
  MaxTimestamp = 4
  FRESHNESS_WINDOW_S = 1

INVARIANTS
  TypeOK
  SettledIsReadable
  ClockNeverFarBack
  AttemptsAreLimited
  NothingIsLost
  FiguresAgree

PROPERTIES
  ScopeFollowsRole

CHECK_DEADLOCK FALSE
