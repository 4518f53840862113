SPECIFICATION FairSpec
CONSTANTS
  a = a
  b = b
  c = c
  weth = weth
  Tokens <- MCTokens
  PoolShard <- MCPoolShard
  MapShard <- MCMapShard
  RequestCap = 1
  Workers <- MCWorkers
  Markets <- MCMarkets
  Horizon = 2
  LastBlock = 3
  TaxLimits <- MCTaxLimits
  Amounts <- MCAmounts
  GasPrices <- MCGasPrices
  Wallets <- MCWallets
  Balances <- MCWalletBalances
  MaxWord = 600
  MaxAmount = 4
  MaxByte = 3
  Percentages <- MCPercentages
  MaskBits = 2
  Watched <- MCWatched
  OtherToken = weth
  Factories <- MCFactories
  MaxCreated = 2
INVARIANTS
  HighestIsFound
  TargetIsTradable
  ExitIsWorthIt
  SoldAsAsked
  PairsAreRight
PROPERTIES
  GuardsAreReleased
  SearchEnds
CHECK_DEADLOCK FALSE
