SPECIFICATION FairSpec
CONSTANTS
  launch = launch
  other = other
  trader = trader
  NoTx = NoTx
  Txs <- MCTxs
  Opening <- MCOpening
  PairCreating <- MCPairCreating
  Traders <- MCTraders
  MaxBlock = 3
  RequestCap = 1
INVARIANTS
  TypeOK
  LaunchKeptUntilMined
  ChecksAreDue
PROPERTIES
  SignalsNeverGoBack
  LaunchIsSignalled
  OpenIsSignalled
CHECK_DEADLOCK FALSE
