------------------------------ MODULE MCParts ------------------------------
(* Small instances of the parts that hold no state of their own beyond one *)
(* call: a behaviour is one of them at work while the others are idle.     *)
EXTENDS MapGuards, MaxBuy, TradeOutlook, ExitDecision, WalletSale, PairSearch

CONSTANTS a, b, c, weth

(* Three tokens: two share a shard of the pool, two one of the map.        *)
MCTokens    == {a, b, c}
MCPoolShard == [t \in MCTokens |-> IF t = c THEN 2 ELSE 1]
MCMapShard  == [t \in MCTokens |-> IF t = a THEN 2 ELSE 1]
MCWorkers   == {2, 3}

(* Balances around the number of intervals, of the tolerance and of the    *)
(* smallest amounts tried; limits from nothing to all.                     *)
MCBalances == {0, 1, 2, 14, 15, 16, 1000, 1999999, 2000000, 20000000}
MCLimits(balance) ==
  { 0, 1, 2, 7, balance, 20000001,
    balance \div 600000, balance \div 295245, balance \div 200000,
    balance \div 19683, balance \div 6000, balance \div 97, balance \div 3,
    balance \div 2 + 1, (balance \div 10) * 9, balance - balance \div 50 }
(* The last market has a purchase that a later round does not find again.  *)
MCMarkets ==
  UNION { [balance : {n}, limit : MCLimits(n), tax : {0, 50, 99}] : n \in MCBalances }
    \cup { [balance |-> 29524500, limit |-> 100, tax |-> 99] }

MCTaxLimits   == {10, 96}
MCAmounts     == {0, 1, 2, 5}
MCGasPrices   == {1, 3}
(* Balances up to the largest amount, beyond it, and some whose sum does   *)
(* not fit into a word; contracts up to one wallet beyond a byte.          *)
MCWallets        == {0, 1, 3, 4}
MCWalletBalances == {0, 1, 2, 4, 5, 400}
MCPercentages == {0, 1, 33, 50, 67, 99, 100, 101, 150}
MCWatched     == << a, b >>
MCFactories   == << "uniswap", "sushiswap" >>

-----------------------------------------------------------------------------

Init ==
  \/ GuardsInit /\ MaxBuyIdle /\ OutlookIdle /\ ExitIdle /\ SaleIdle /\ PairIdle
  \/ GuardsIdle /\ MaxBuyInit /\ OutlookIdle /\ ExitIdle /\ SaleIdle /\ PairIdle
  \/ GuardsIdle /\ MaxBuyIdle /\ OutlookInit /\ ExitIdle /\ SaleIdle /\ PairIdle
  \/ GuardsIdle /\ MaxBuyIdle /\ OutlookIdle /\ ExitInit /\ SaleIdle /\ PairIdle
  \/ GuardsIdle /\ MaxBuyIdle /\ OutlookIdle /\ ExitIdle /\ SaleInit /\ PairIdle
  \/ GuardsIdle /\ MaxBuyIdle /\ OutlookIdle /\ ExitIdle /\ SaleIdle /\ PairInit

GuardsStep  == GuardsNext /\ UNCHANGED << max_buy_vars, outlook_vars, exit_vars, sale_vars, pair_vars >>
MaxBuyStep  == MaxBuyNext /\ UNCHANGED << guards_vars, outlook_vars, exit_vars, sale_vars, pair_vars >>
OutlookStep == OutlookNext /\ UNCHANGED << guards_vars, max_buy_vars, exit_vars, sale_vars, pair_vars >>
ExitStep    == ExitNext /\ UNCHANGED << guards_vars, max_buy_vars, outlook_vars, sale_vars, pair_vars >>
SaleStep    == SaleNext /\ UNCHANGED << guards_vars, max_buy_vars, outlook_vars, exit_vars, pair_vars >>
PairStep    == PairNext /\ UNCHANGED << guards_vars, max_buy_vars, outlook_vars, exit_vars, sale_vars >>

Next ==
  GuardsStep \/ MaxBuyStep \/ OutlookStep \/ ExitStep \/ SaleStep \/ PairStep

vars ==
  << guards_vars, max_buy_vars, outlook_vars, exit_vars, sale_vars, pair_vars >>

FairSpec == Init /\ [][Next]_vars /\ GuardsFair /\ MaxBuyFair
=============================================================================
