CONSTANTS
  Code <- MCCode
  Kind <- MCKind
  Strike <- MCStrike
  Expiry <- MCExpiry
  Lot <- MCLot
  Configs <- MCConfigs
  InitialCash = 73
  Prices <- MCPrices
  Batches <- MCBatches
  NoBatch = NoBatch
  OptionFee = 5
  StockFee = 6
  FeeLot = 4
  MaxTrade = 16
  MaxBars = 5
  BarRows <- MCBarRows
  SnapBatches <- MCSnapBatches
  RunOptions <- MCRunOptions
  Lookback = 1
  MaxIngests = 1
  NTasks = 3
  NWorkers = 2
  Groups <- MCGroups
  BarSets <- MCBarSets
  Scores <- MCScores
  Baselines <- MCBaselines
  DrawnGenes <- MCDrawnGenes
  PopulationSize = 2
  MaxGenerations = 2
  Budgets = {7, 8}
  Patience = 2
  MinImprovement = 1
  RelImprovement = 1
  PruneWindow = 1
  PruneFactor <- MCPruneFactor
  SampleCandidates = 2
  SampleSeeds = 1
  MinSplitBars = 5
  NoScore = NoScore
  BtRequest = {r1, r2}
  BtSymbol = {1, 2, 3}
  WithData = {1, 2}
  NoRequest = NoRequest
  Results <- MCResults
  Command = {c1, c2}
  MaxApprovals = 1
  MaxWindows = 1
  NoReport = NoReport
SPECIFICATION ResearchSpec
CHECK_DEADLOCK FALSE
INVARIANTS
  BooksAreSound
  LegsAreCovered
  ChunkingIsInvisible
  BatchesAreWhole
  ReportsAreHonest
PROPERTIES
  PoolIsSequential
  SearchIsFair
  BuybackKeepsProfit
