SPECIFICATION Spec
CONSTANTS
  launch = launch
  other = other
  trader = trader
  NoTx = NoTx
  Txs <- MCTxs
  Opening <- MCOpening
  PairCreating <- MCPairCreating
  Traders <- MCTraders
  MaxBlock = 3
  RequestCap = 1
PROPERTIES
  LaunchIsHandled
CHECK_DEADLOCK FALSE
