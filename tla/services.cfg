CONSTANTS
  HkexDays = 3
  Weekend = {2}
  Series = {"s1", "s2"}
  HkexRun = {1, 2}
  LastDay <- MCLastDay
  Liquid <- MCLiquid
  TbDays = 3
  TbMarket = {"HK", "US"}
  Count = 2
  MaxAttempts = 2
  DcSymbol = {"US"}
  DcKind = {"1w", "options"}
  DaySlots = 3
  DcDays = 2
  HasNotifier = TRUE
  MarketZone <- MCMarketZone
  ServerZone = 1
  Closed <- MCClosed
  EarlyClose <- MCEarlyClose
  NormalReady = 2
  EarlyReady = 1
  WeekAge = 4
  ScanLimit = 5
  DailyAt <- MCDailyAt
  MaxStarts = 2
  WlSymbol = {s1}
  Params = {p, q}
  Editor = {e1, e2, e3}
  MaxVersion = 3
  NoItem = NoItem
  Entry <- MCEntry
  Curve <- MCCurve
  TradePrice = {1, 2, 3, 4, 5, 6, 7}
  CallPct = 2
  Gap = 5
  MinDte = 3
  MaxDte = 6
  MaxWarnings = 1
  Null = Null
  Bindings = 2
  Offered = {x, y}
  Shares = Shares
  MaxRounds = 4
  TotalBudget = 2
  RoundBudget = 1
  Nothing = Nothing
  Agent = {a1, a2}
  RetryMax = 2
  MaxRestarts = 2
  Key = {k1, k2}
  Value = {v1}
  Unset = Unset
  Torn = Torn
  Caller = {c1, c2, c3}
  Stores = {A, B}
  LastMigration = 4
  Redefines = {1, 2, 3}
  Migrator = {m1, m2, m3}
SPECIFICATION ServicesSpec
CHECK_DEADLOCK FALSE
INVARIANTS
  DailyBarsAreFaithful
  SavesAreFaithful
  ConfigFileIsSafe
  SchemaIsReady
PROPERTIES
  BackfillIsFaithful
  ChecksAreHonest
  WatchlistIsConsistent
  AgentPassSound
  RegistryHeals
