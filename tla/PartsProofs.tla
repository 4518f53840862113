----------------------------- MODULE PartsProofs -----------------------------
(***************************************************************************)
(* Proofs about the parts that hold no state beyond one call or one token: *)
(* from simulated trades to an entry, from tested sales to an exit, from a *)
(* percentage to the sales of wallets, from a state difference to pools.   *)
(***************************************************************************)
EXTENDS TradeOutlook, ExitDecision, WalletSale, PairSearch,
        QueueLemmas, FiniteSetTheorems, WellFoundedInduction, TLAPS

(* The least member of a set of naturals that has one.                     *)
LEMMA MinOfNaturals ==
  ASSUME NEW S \in SUBSET Nat, S # {}
  PROVE  Min(S) \in S /\ \A n \in S : Min(S) <= n
<1>1. PICK m \in S : \A n \in S : ~ (<< n, m >> \in OpToRel(<, Nat))
  BY NatLessThanWellFounded, WFMin
<1>2. \A n \in S : ~ (n < m)
  BY <1>1 DEF OpToRel
<1>3. \A n \in S : m <= n
  BY <1>2
<1> QED BY <1>3 DEF Min

(* The highest member of a set of percentages that has one.                *)
LEMMA MaxOfTaxes ==
  ASSUME NEW S \in SUBSET {5, 93, 95, 100}, S # {}
  PROVE  Max(S) \in S /\ \A n \in S : n <= Max(S)
<1>1. \E m \in S : \A n \in S : m >= n
  <2>1. CASE 100 \in S
    BY <2>1
  <2>2. CASE 100 \notin S /\ 95 \in S
    BY <2>2
  <2>3. CASE 100 \notin S /\ 95 \notin S /\ 93 \in S
    BY <2>3
  <2>4. CASE 100 \notin S /\ 95 \notin S /\ 93 \notin S
    <3>1. PICK m \in S : TRUE
      OBVIOUS
    <3>2. \A n \in S : n = 5
      BY <2>4
    <3> QED BY <3>1, <3>2
  <2> QED BY <2>1, <2>2, <2>3, <2>4
<1> QED BY <1>1 DEF Max

-----------------------------------------------------------------------------
(* Entries: TradeOutlook.                                                  *)

(* The highest taxes bound those of each block.                            *)
LEMMA FeeFacts ==
  ASSUME NEW b, NEW sim \in Simulations(b)
  PROVE  /\ Horizon \in Nat \ {0}
         /\ sim.block = b /\ sim.trades \in [1 .. Horizon -> Outcomes]
         /\ \A i \in 1 .. Horizon :
              /\ sim.trades[i].buy_tax <= BuyFee(sim)
              /\ sim.trades[i].sell_tax <= SellFee(sim)
         /\ BuyFee(sim) \in {5, 93, 95, 100} /\ SellFee(sim) \in {5, 93, 95, 100}
<1>1. Horizon \in Nat \ {0}
  BY TradeOutlookAssumption
<1>2. sim.block = b /\ sim.trades \in [1 .. Horizon -> Outcomes]
  BY DEF Simulations
<1>3. \A t \in Outcomes : t.buy_tax \in {5, 93, 95, 100} /\ t.sell_tax \in {5, 93, 95, 100}
  BY DEF Outcomes, Trade
<1> DEFINE buys  == { sim.trades[i].buy_tax : i \in 1 .. Horizon }
           sells == { sim.trades[i].sell_tax : i \in 1 .. Horizon }
<1>4. 1 \in 1 .. Horizon
  BY <1>1
<1>5. /\ buys \in SUBSET {5, 93, 95, 100} /\ buys # {}
      /\ sells \in SUBSET {5, 93, 95, 100} /\ sells # {}
  <2>1. \A i \in 1 .. Horizon : sim.trades[i] \in Outcomes
    BY <1>2
  <2>2. sim.trades[1].buy_tax \in buys /\ sim.trades[1].sell_tax \in sells
    BY <1>4
  <2>3. \A x \in buys : x \in {5, 93, 95, 100}
    BY <1>3, <2>1
  <2>4. \A x \in sells : x \in {5, 93, 95, 100}
    BY <1>3, <2>1
  <2> QED BY <2>2, <2>3, <2>4
<1>6. /\ \A i \in 1 .. Horizon : sim.trades[i].buy_tax \in buys
      /\ \A i \in 1 .. Horizon : sim.trades[i].sell_tax \in sells
  OBVIOUS
<1>7. BuyFee(sim) = Max(buys) /\ SellFee(sim) = Max(sells)
  BY DEF BuyFee, SellFee
<1> HIDE DEF buys, sells
<1>8. Max(buys) \in buys /\ \A n \in buys : n <= Max(buys)
  BY <1>5, MaxOfTaxes
<1>9. Max(sells) \in sells /\ \A n \in sells : n <= Max(sells)
  BY <1>5, MaxOfTaxes
<1>10. /\ BuyFee(sim) \in {5, 93, 95, 100} /\ SellFee(sim) \in {5, 93, 95, 100}
  BY <1>5, <1>7, <1>8, <1>9
<1> QED BY <1>1, <1>2, <1>6, <1>7, <1>8, <1>9, <1>10

(* Where a launch is bought: in the first block whose trade goes through,  *)
(* or in the next one if none does and none reverts.                       *)
LEMMA LaunchFacts ==
  ASSUME NEW b \in Nat, NEW sim \in Simulations(b), BuyValid(sim), SellValid(sim)
  PROVE  LET i == LaunchBlock(sim) - sim.block + 1
         IN  /\ i \in 1 .. Horizon
             /\ ~ sim.trades[i].reverts
             /\ \A j \in 1 .. i - 1 : IsFailed(sim.trades[j])
<1>1. Horizon \in Nat \ {0} /\ sim.block = b
  BY FeeFacts
<1>2. CASE ValidBlocks(sim) = {}
  <2>1. LaunchBlock(sim) - sim.block + 1 = 1
    BY <1>1, <1>2 DEF LaunchBlock
  <2>2. 1 \in 1 .. Horizon /\ ~ sim.trades[1].reverts
    BY <1>1, <1>2 DEF BuyValid, IsReverted
  <2>3. \A j \in 1 .. 1 - 1 : FALSE
    OBVIOUS
  <2> QED BY <2>1, <2>2, <2>3
<1>3. CASE ValidBlocks(sim) # {}
  <2> DEFINE m == Min(ValidBlocks(sim))
  <2>1. ValidBlocks(sim) \in SUBSET Nat
    BY DEF ValidBlocks
  <2>2. m \in ValidBlocks(sim) /\ \A n \in ValidBlocks(sim) : m <= n
    BY <1>3, <2>1, MinOfNaturals
  <2>3. LaunchBlock(sim) = sim.block + m - 1
    BY <1>3 DEF LaunchBlock
  <2> HIDE DEF m
  <2>4. m \in 1 .. Horizon /\ ~ IsFailed(sim.trades[m])
    BY <2>2 DEF ValidBlocks
  <2>5. LaunchBlock(sim) - sim.block + 1 = m
    BY <1>1, <2>3, <2>4
  <2>6. \A j \in 1 .. m - 1 : j \in 1 .. Horizon /\ ~ (m <= j)
    BY <1>1, <2>4
  <2>7. \A j \in 1 .. m - 1 : IsFailed(sim.trades[j])
    BY <2>2, <2>6 DEF ValidBlocks
  <2> QED BY <2>4, <2>5, <2>7 DEF IsFailed
<1> QED BY <1>2, <1>3

(* A simulation of a block up to n, and a launch that was valid when it    *)
(* was made of one.                                                        *)
IsSim(sim, n) == sim.block \in 1 .. n /\ sim \in Simulations(sim.block)

IsLaunch(s, n) ==
  /\ s.kind = "launch"
  /\ IsSim(s.sim, n)
  /\ BuyValid(s.sim) /\ SellValid(s.sim)

(* What the simulator keeps, and what it publishes, in block n.            *)
IsKept(s, n) == s \in {Closed, WasChanged} \/ IsLaunch(s, n)

IsNews(event) ==
  LET s == event.state
  IN  /\ event.block \in Nat
      /\ \/ s.kind = "closed"
         \/ \E n \in Nat : IsLaunch(s, n)
         \/ s.kind = "changed" /\ IsSim(s.sim, event.block)

(* The copy that an entry check was given is old when it is used: what it  *)
(* holds was simulated for a block up to its own.                          *)
OutlookInv ==
  /\ next_block \in Nat
  /\ IsKept(outlook, next_block)
  /\ \/ asked = << >>
     \/ /\ asked = << asked[1] >>
        /\ asked[1].block \in 1 .. next_block
        /\ IsKept(asked[1].state, asked[1].block)
  /\ \/ news = << >>
     \/ news = << news[1] >> /\ IsNews(news[1])

(* A new simulation: a launch that stays, a valid one, or a change.        *)
LEMMA NextStates ==
  ASSUME NEW s, NEW n \in Nat, IsKept(s, n),
         NEW b \in 1 .. n, NEW sim \in Simulations(b)
  PROVE  LET next == NextOutlook(s, sim)
         IN  next = Closed \/ IsLaunch(next, n) \/ next = Changed(sim)
<1>1. sim.block = b
  BY FeeFacts
<1>2. IsSim(sim, n)
  BY <1>1 DEF IsSim
<1>3. CASE s = Closed
  BY <1>2, <1>3 DEF Closed, NextOutlook, Launch, IsLaunch
<1>4. CASE s = WasChanged
  BY <1>4 DEF WasChanged, NextOutlook
<1>5. CASE IsLaunch(s, n)
  BY <1>5 DEF IsLaunch, NextOutlook
<1> QED BY <1>3, <1>4, <1>5 DEF IsKept

(* Every step keeps what the simulator knows at what it has simulated.     *)
LEMMA OutlookStep == OutlookInv /\ [OutlookNext]_outlook_vars => OutlookInv'
<1> SUFFICES ASSUME OutlookInv, [OutlookNext]_outlook_vars PROVE OutlookInv'
  OBVIOUS
<1> DEFINE AskedIsKept ==
             \/ asked = << >>
             \/ /\ asked = << asked[1] >>
                /\ asked[1].block \in 1 .. next_block
                /\ IsKept(asked[1].state, asked[1].block)
           NewsIsNews == news = << >> \/ (news = << news[1] >> /\ IsNews(news[1]))
<1>1. \A s, n : IsKept(s, n)' <=> IsKept(s, n)
  BY DEF IsKept, IsLaunch, IsSim
<1>2. \A s : \A n, m \in Nat : n <= m /\ IsKept(s, n) => IsKept(s, m)
  BY DEF IsKept, IsLaunch, IsSim
<1>3. CASE UNCHANGED outlook_vars
  BY <1>3 DEF outlook_vars, OutlookInv
<1>4. CASE Mined
  <2>1. next_block' \in Nat /\ next_block \in Nat /\ next_block <= next_block'
    BY <1>4 DEF Mined, OutlookInv
  <2>2. IsKept(outlook, next_block')
    BY <1>2, <2>1 DEF OutlookInv
  <2>3. asked' = asked /\ outlook' = outlook /\ news' = news
    BY <1>4 DEF Mined
  <2> QED BY <2>1, <2>2, <2>3 DEF OutlookInv
<1>5. ASSUME NEW b \in 1 .. next_block, NEW sim \in Simulations(b),
             SimulateTransaction(sim), UNCHANGED << next_block, asked >>
      PROVE  OutlookInv'
  <2> DEFINE next == NextOutlook(outlook, sim)
  <2>1. next_block \in Nat /\ b \in Nat /\ sim.block = b
    BY FeeFacts DEF OutlookInv
  <2>2. next = Closed \/ IsLaunch(next, next_block) \/ next = Changed(sim)
    BY <2>1, NextStates DEF OutlookInv
  <2>3. outlook' = Kept(next) /\ Publish(next, b)
    BY <1>5, <2>1 DEF SimulateTransaction
  <2> HIDE DEF next
  <2>4. IsKept(outlook', next_block)
    BY <2>2, <2>3 DEF Kept, IsKept, IsLaunch, Changed, Closed
  <2>5. IsNews([state |-> next, block |-> b])
    BY <2>1, <2>2 DEF IsNews, Closed, Changed, IsSim
  <2>6. news' = << [state |-> next, block |-> b] >>
    BY <2>3 DEF Publish
  <2> QED BY <1>5, <2>4, <2>5, <2>6 DEF OutlookInv
<1>6. ASSUME NEW sim \in Simulations(next_block), next_block > 0,
             SimulateBlock(sim), UNCHANGED << next_block, asked >>
      PROVE  OutlookInv'
  <2> DEFINE next == NextOutlook(outlook', sim)
  <2>1. next_block \in Nat /\ next_block \in 1 .. next_block /\ sim.block = next_block
    BY <1>6, FeeFacts DEF OutlookInv
  <2>2. IsKept(outlook', next_block)
    BY <1>6 DEF SimulateBlock, IsKept, OutlookInv
  <2>3. next = Closed \/ IsLaunch(next, next_block) \/ next = Changed(sim)
    BY <2>1, <2>2, NextStates
  <2>4. news' = news \/ news' = << [state |-> next, block |-> next_block] >>
    BY <1>6, <2>1 DEF SimulateBlock, Publish
  <2> HIDE DEF next
  <2>5. IsNews([state |-> next, block |-> next_block])
    BY <2>1, <2>3 DEF IsNews, Closed, Changed, IsSim
  <2> QED BY <1>6, <2>2, <2>4, <2>5 DEF OutlookInv
<1>7. CASE AskEntryCheck
  <2>1. /\ asked' = << [state |-> outlook, block |-> next_block] >>
        /\ UNCHANGED << next_block, outlook, news >>
        /\ next_block \in 1 .. next_block
    BY <1>7 DEF AskEntryCheck, OutlookInv
  <2> QED BY <2>1 DEF OutlookInv
<1>8. CASE AnswerEntryCheck
  <2>1. PICK sim \in Simulations(asked[1].block) :
          LET s == NextOutlook(asked[1].state, sim)
          IN  Publish(IF s.kind = "launch" THEN Changed(s.sim) ELSE s, asked[1].block)
    BY <1>8 DEF AnswerEntryCheck
  <2> DEFINE n == asked[1].block
             next == NextOutlook(asked[1].state, sim)
             told == IF next.kind = "launch" THEN Changed(next.sim) ELSE next
  <2>2. n \in Nat /\ n \in 1 .. n /\ IsKept(asked[1].state, n) /\ sim.block = n
    BY <1>8, FeeFacts DEF AnswerEntryCheck, OutlookInv
  <2>3. next = Closed \/ IsLaunch(next, n) \/ next = Changed(sim)
    BY <2>2, NextStates
  <2>4. news' = << [state |-> told, block |-> n] >>
    BY <2>1 DEF Publish
  <2> HIDE DEF n, next
  <2>5. IsSim(sim, n)
    BY <2>1, <2>2 DEF n, IsSim
  <2>6. IsNews([state |-> told, block |-> n])
    BY <2>2, <2>3, <2>5 DEF IsNews, IsLaunch, Closed, Changed
  <2>7. UNCHANGED << next_block, outlook >> /\ asked' = << >>
    BY <1>8 DEF AnswerEntryCheck
  <2> QED BY <2>4, <2>6, <2>7 DEF OutlookInv
<1>9. CASE TraderTakes
  BY <1>9 DEF TraderTakes, OutlookInv
<1> QED
  <2>1. CASE Simulate
    <3>1. 1 .. next_block = 1 .. next_block /\ next_block > 0
      BY <2>1 DEF Simulate
    <3> QED BY <1>5, <1>6, <2>1 DEF Simulate
  <2> QED BY <1>3, <1>4, <1>7, <1>8, <1>9, <2>1 DEF OutlookNext

(* Whatever simulations, blocks and entry checks lie between, an order for *)
(* a launch, or of a trader with tax limits, is for a block in which the   *)
(* simulated trade goes through both ways within the limits.               *)
THEOREM EntryIsTradable == OutlookSpec => []TargetIsTradable
<1>1. OutlookInit => OutlookInv
  BY DEF OutlookInit, OutlookInv, IsKept
<1>2. OutlookInv => TargetIsTradable
  <2> SUFFICES
        ASSUME OutlookInv,
               NEW event \in { news[i] : i \in DOMAIN news },
               NEW limit \in TaxLimits \cup {NoTaxLimit},
               Orders(event, limit),
               event.state.kind = "launch" \/ (limit < NoTaxLimit /\ IsFresh(event))
        PROVE  LET sim == event.state.sim
                   i   == TargetBlock(event) - sim.block + 1
               IN  /\ i \in 1 .. Horizon
                   /\ ~ sim.trades[i].reverts
                   /\ sim.trades[i].buy_tax <= limit /\ sim.trades[i].sell_tax <= limit
                   /\ event.state.kind = "launch" =>
                        /\ sim.trades[i].buy_tax < 90 /\ sim.trades[i].sell_tax < 100
                        /\ \A j \in 1 .. i - 1 : IsFailed(sim.trades[j])
    BY DEF TargetIsTradable
  <2> DEFINE sim == event.state.sim
             i   == TargetBlock(event) - sim.block + 1
  <2>1. IsNews(event)
    <3>1. PICK k \in DOMAIN news : event = news[k]
      OBVIOUS
    <3>2. news # << >>
      BY <3>1
    <3>3. news = << news[1] >> /\ IsNews(news[1])
      BY <3>2 DEF OutlookInv
    <3>4. k = 1
      BY <3>1, <3>3
    <3> QED BY <3>1, <3>3, <3>4
  <2>2. sim.block \in Nat /\ sim \in Simulations(sim.block)
    BY <2>1 DEF IsNews, IsLaunch, IsSim, Orders
  <2>3. /\ Horizon \in Nat \ {0}
        /\ sim.trades \in [1 .. Horizon -> Outcomes]
        /\ \A k \in 1 .. Horizon :
             /\ sim.trades[k].buy_tax <= BuyFee(sim)
             /\ sim.trades[k].sell_tax <= SellFee(sim)
        /\ BuyFee(sim) \in {5, 93, 95, 100} /\ SellFee(sim) \in {5, 93, 95, 100}
    BY <2>2, FeeFacts
  <2>4. \A k \in 1 .. Horizon :
          /\ sim.trades[k].buy_tax \in Nat /\ sim.trades[k].sell_tax \in Nat
          /\ sim.trades[k].buy_tax <= 100 /\ sim.trades[k].sell_tax <= 100
          /\ sim.trades[k].reverts => sim.trades[k].sell_tax = 100
    <3>1. \A t \in Outcomes :
            /\ t.buy_tax \in Nat /\ t.sell_tax \in Nat
            /\ t.buy_tax <= 100 /\ t.sell_tax <= 100
            /\ t.reverts => t.sell_tax = 100
      BY DEF Outcomes, Trade
    <3> QED BY <2>3, <3>1
  <2>5. limit \in 0 .. 99 \/ limit = 100
    BY TradeOutlookAssumption DEF NoTaxLimit
  <2>6. limit = 100 \/ (BuyFee(sim) <= limit /\ SellFee(sim) <= limit)
    BY DEF Orders, WithinTaxes, NoTaxLimit
  <2> HIDE DEF sim, i
  <2>7. \A k \in 1 .. Horizon :
          sim.trades[k].buy_tax <= limit /\ sim.trades[k].sell_tax <= limit
    <3> SUFFICES ASSUME NEW k \in 1 .. Horizon
                 PROVE  sim.trades[k].buy_tax <= limit /\ sim.trades[k].sell_tax <= limit
      OBVIOUS
    <3>1. /\ sim.trades[k].buy_tax \in Nat /\ sim.trades[k].sell_tax \in Nat
          /\ sim.trades[k].buy_tax <= 100 /\ sim.trades[k].sell_tax <= 100
          /\ sim.trades[k].buy_tax <= BuyFee(sim) /\ sim.trades[k].sell_tax <= SellFee(sim)
      BY <2>3, <2>4
    <3>2. CASE limit = 100
      BY <3>1, <3>2
    <3>3. CASE limit \in 0 .. 99
      <4>1. BuyFee(sim) \in Nat /\ SellFee(sim) \in Nat
        BY <2>3
      <4> QED BY <2>6, <3>1, <3>3, <4>1
    <3> QED BY <2>5, <3>2, <3>3
  <2>8. CASE event.state.kind = "launch"
    <3>1. BuyValid(sim) /\ SellValid(sim)
      BY <2>1, <2>8 DEF IsNews, IsLaunch, sim
    <3>2. /\ i \in 1 .. Horizon
          /\ ~ sim.trades[i].reverts
          /\ \A j \in 1 .. i - 1 : IsFailed(sim.trades[j])
      <4>1. i = LaunchBlock(sim) - sim.block + 1
        BY <2>8 DEF TargetBlock, sim, i
      <4> QED BY <2>2, <3>1, <4>1, LaunchFacts
    <3>3. BuyFee(sim) < 90 /\ SellFee(sim) <= 99
      BY <3>1 DEF BuyValid, SellValid
    <3>4. sim.trades[i].buy_tax < 90 /\ sim.trades[i].sell_tax < 100
      BY SMTT(30), <2>3, <2>4, <3>2, <3>3
    <3>5. sim.trades[i].buy_tax <= limit /\ sim.trades[i].sell_tax <= limit
      BY <2>7, <3>2
    <3> QED BY <3>2, <3>4, <3>5 DEF sim, i
  <2>9. CASE event.state.kind # "launch"
    <3>1. /\ limit < 100 /\ event.block < sim.block + Horizon
          /\ event.block \in Nat /\ sim.block \in 1 .. event.block
      BY <2>1, <2>9 DEF IsNews, IsLaunch, IsSim, IsFresh, NoTaxLimit, Orders, sim
    <3>2. i = event.block - sim.block + 1
      BY <2>9 DEF TargetBlock, sim, i
    <3>3. i \in 1 .. Horizon
      BY <2>2, <2>3, <3>1, <3>2
    <3>4. sim.trades[i].buy_tax <= limit /\ sim.trades[i].sell_tax <= limit
      BY <2>7, <3>3
    <3>5. ~ sim.trades[i].reverts
      BY <2>4, <2>5, <3>1, <3>3, <3>4
    <3> QED BY <2>9, <3>3, <3>4, <3>5 DEF sim, i
  <2> QED BY <2>8, <2>9
<1> QED BY <1>1, <1>2, OutlookStep, PTL DEF OutlookSpec

-----------------------------------------------------------------------------
(* Exits: ExitDecision.                                                    *)

(* Why the portfolio makes an order of a tested sale.                      *)
Exits ==
  /\ armed
  /\ IsHoneypot \/ IsOverTaxLimits
  /\ SellTransactionCost < tested.frontrun.change

(* What is tested is what the EVM would answer, as far as the provider     *)
(* lets it; what is ordered follows from what is tested.                   *)
ExitInv ==
  /\ stage \in {"untested", "tested", "decided"}
  /\ truth \in [before : Sales, after : Sales, gas_price : GasPrices,
                faults : SUBSET {"before", "after"}]
  /\ state \in States
  /\ stage # "untested" =>
       tested = [frontrun |-> BalanceChange(SimulateProfit),
                 backrun |-> BalanceChange(SimulateRug)]
  /\ stage = "decided" => (exit_order # << >> <=> Exits)

(* A sale that fails leaves no change, and costs nothing.                  *)
LEMMA ChangeFacts ==
  ASSUME NEW sale \in Sales
  PROVE  /\ sale \in Int /\ sale >= -1
         /\ sale = Fails => BalanceChange(sale) = [error |-> TRUE, gas_used |-> 0, change |-> 0]
         /\ sale # Fails =>
              /\ sale \in Nat
              /\ BalanceChange(sale) = [error |-> FALSE, gas_used |-> 1, change |-> sale]
  BY ExitDecisionAssumption DEF Sales, Fails, BalanceChange

(* A decision made from the two tests is right, whichever test failed.     *)
LEMMA DecidedFacts ==
  ASSUME ExitInv, stage = "decided"
  PROVE  ExitIsWorthIt
<1>1. /\ truth.before \in Sales /\ truth.after \in Sales
      /\ truth.gas_price \in Nat
      /\ truth.faults \in SUBSET {"before", "after"}
  BY ExitDecisionAssumption DEF ExitInv
<1>2. tested = [frontrun |-> BalanceChange(SimulateProfit),
                backrun |-> BalanceChange(SimulateRug)]
  BY DEF ExitInv
<1>3. exit_order # << >> <=> Exits
  BY DEF ExitInv
<1>4. Fails \in Sales /\ Fails = -1
  BY DEF Sales, Fails
<1>5. ASSUME Exits PROVE Worth
  <2>1. SimulateProfit \in Sales
    BY <1>1, <1>4 DEF SimulateProfit
  <2>2. CASE SimulateProfit = Fails
    <3>1. tested.frontrun.gas_used = 0 /\ tested.frontrun.change = 0
      BY <1>2, <2>1, <2>2, ChangeFacts
    <3>2. SellTransactionCost = 0
      BY <1>1, <3>1 DEF SellTransactionCost
    <3> QED BY <1>5, <3>1, <3>2 DEF Exits
  <2>3. CASE SimulateProfit # Fails
    <3>1. tested.frontrun.gas_used = 1 /\ tested.frontrun.change = truth.before
      BY <1>2, <2>1, <2>3, ChangeFacts DEF SimulateProfit
    <3>2. SellTransactionCost = truth.gas_price
      BY <1>1, <3>1 DEF SellTransactionCost
    <3>3. truth.before \in Int
      BY <1>1, ChangeFacts
    <3> QED BY <1>1, <1>5, <3>1, <3>2, <3>3 DEF Exits, Worth
  <2> QED BY <2>2, <2>3
<1>6. ASSUME truth.faults = {}, Worth
      PROVE  /\ truth.before \in Nat \ {0} /\ truth.after \in Int
             /\ tested.frontrun = [error |-> FALSE, gas_used |-> 1, change |-> truth.before]
             /\ SellTransactionCost < tested.frontrun.change
             /\ tested.backrun = IF truth.after = -1
                                 THEN [error |-> TRUE, gas_used |-> 0, change |-> 0]
                                 ELSE [error |-> FALSE, gas_used |-> 1, change |-> truth.after]
             /\ truth.after = -1 \/ truth.after \in Nat
  <2>1. SimulateProfit = truth.before /\ SimulateRug = truth.after
    BY <1>6 DEF SimulateProfit, SimulateRug
  <2>2. truth.before \in Nat \ {0} /\ truth.before # Fails
    <3>1. truth.before \in Int /\ truth.before > truth.gas_price
      BY <1>1, <1>6, ChangeFacts DEF Worth
    <3> QED BY <1>1, <1>4, <3>1
  <2>3. tested.frontrun = [error |-> FALSE, gas_used |-> 1, change |-> truth.before]
    BY <1>1, <1>2, <2>1, <2>2, ChangeFacts
  <2>4. SellTransactionCost = truth.gas_price
    BY <1>1, <2>3 DEF SellTransactionCost
  <2>5. SellTransactionCost < tested.frontrun.change
    BY <1>6, <2>2, <2>3, <2>4 DEF Worth
  <2>6. /\ truth.after \in Int
        /\ truth.after = -1 \/ truth.after \in Nat
        /\ tested.backrun = IF truth.after = -1
                            THEN [error |-> TRUE, gas_used |-> 0, change |-> 0]
                            ELSE [error |-> FALSE, gas_used |-> 1, change |-> truth.after]
    BY <1>1, <1>2, <1>4, <2>1, ChangeFacts
  <2> QED BY <2>2, <2>3, <2>5, <2>6
<1>7. ASSUME armed, truth.faults = {}, Worth, Trap PROVE Exits
  <2>1. IsHoneypot
    <3>1. CASE truth.after = -1 \/ truth.after = 0
      <4>1. ~ ChangeFailed(tested.frontrun) /\ ChangeFailed(tested.backrun)
        BY <1>6, <1>7, <3>1 DEF ChangeFailed
      <4> QED BY <4>1 DEF IsHoneypot, IsSellFailed
    <3>2. CASE truth.after \in Nat \ {0}
      <4>1. tested.frontrun.change = truth.before /\ tested.backrun.change = truth.after
        BY <1>6, <1>7, <3>2
      <4>2. IsSellPriceImpactTooBig
        BY <1>6, <1>7, <4>1 DEF IsSellPriceImpactTooBig, Trap
      <4> QED BY <4>2 DEF IsHoneypot
    <3> QED BY <1>6, <1>7, <3>1, <3>2
  <2> QED BY <1>6, <1>7, <2>1 DEF Exits
<1>8. ASSUME truth.faults = {}, Healthy, ~ Trap, Exits PROVE FALSE
  <2>1. Worth
    BY <1>5, <1>8
  <2>2. truth.after \in Nat \ {0} /\ ~ (100 * truth.after < 40 * truth.before)
    BY <1>6, <1>8, <2>1 DEF Trap
  <2>3. tested.frontrun.change = truth.before /\ tested.backrun.change = truth.after
        /\ ~ tested.backrun.error
    BY <1>6, <1>8, <2>1, <2>2
  <2>4. ~ IsSellFailed
    BY <1>8, <2>2, <2>3 DEF IsSellFailed, ChangeFailed, HasError, Healthy
  <2>5. ~ IsSellPriceImpactTooBig
    BY <2>2, <2>3 DEF IsSellPriceImpactTooBig
  <2>6. ~ IsMaxTxZero /\ ~ IsLiquidityManipulated /\ ~ IsOverTaxLimits
    BY <1>8 DEF Healthy, IsMaxTxZero, IsLiquidityManipulated, IsOverTaxLimits
  <2> QED BY <1>8, <2>4, <2>5, <2>6 DEF Exits, IsHoneypot
<1> QED BY <1>3, <1>5, <1>7, <1>8 DEF ExitIsWorthIt

(* For any amounts and gas prices: no exit costs more than it brings, and  *)
(* without faults traps are escaped and healthy tokens kept.               *)
THEOREM ExitPaysOff == ExitSpec => []ExitIsWorthIt
<1>1. ExitInit => ExitInv
  BY DEF ExitInit, ExitInv
<1>2. ExitInv /\ [ExitNext]_exit_vars => ExitInv'
  <2> SUFFICES ASSUME ExitInv, [ExitNext]_exit_vars PROVE ExitInv'
    OBVIOUS
  <2>1. CASE SimulateSell
    BY <2>1 DEF SimulateSell, ExitInv, SimulateProfit, SimulateRug, BalanceChange
  <2>2. CASE GenerateExitOrder
    <3>1. /\ exit_order' = IF Exits THEN << StateTx >> ELSE << >>
          /\ stage = "tested" /\ stage' = "decided"
          /\ UNCHANGED << truth, state, armed, tested >>
      BY <2>2 DEF GenerateExitOrder, Exits
    <3>2. Exits' <=> Exits
      BY <3>1
      DEF Exits, IsHoneypot, IsOverTaxLimits, SellTransactionCost, IsMaxTxZero,
          IsLiquidityManipulated, IsSellFailed, HasError, IsSellPriceImpactTooBig
    <3>3. exit_order' # << >> <=> Exits
      BY <3>1
    <3> QED
      BY <3>1, <3>2, <3>3 DEF ExitInv, SimulateProfit, SimulateRug
  <2>3. CASE UNCHANGED exit_vars
    BY <2>3
    DEF exit_vars, ExitInv, Exits, IsHoneypot, IsOverTaxLimits, SellTransactionCost,
        IsMaxTxZero, IsLiquidityManipulated, IsSellFailed, HasError,
        IsSellPriceImpactTooBig, SimulateProfit, SimulateRug
  <2> QED BY <2>1, <2>2, <2>3 DEF ExitNext
<1>3. ExitInv => ExitIsWorthIt
  BY DecidedFacts DEF ExitIsWorthIt
<1> QED BY <1>1, <1>2, <1>3, PTL DEF ExitSpec

-----------------------------------------------------------------------------
(* Partial sales: WalletSale.                                              *)

(* Natural induction, from the least number that is not in the set.        *)
LEMMA Induction ==
  ASSUME NEW S \in SUBSET Nat, 0 \in S, \A n \in S : n + 1 \in S
  PROVE  \A n \in Nat : n \in S
<1> SUFFICES ASSUME Nat \ S # {} PROVE FALSE
  OBVIOUS
<1>1. PICK m \in Nat \ S : \A n \in Nat \ S : m <= n
  <2>1. Nat \ S \in SUBSET Nat
    OBVIOUS
  <2> QED BY <2>1, MinOfNaturals
<1>2. m # 0
  BY <1>1
<1>3. m - 1 \in Nat /\ (m - 1) + 1 = m /\ ~ (m <= m - 1)
  BY <1>2
<1>4. m - 1 \in S
  BY <1>1, <1>3
<1> QED BY <1>1, <1>3, <1>4

(* f is the sums of s up to its n-th member.                               *)
IsSum(f, s, n) ==
  f = [i \in 0 .. n |-> IF i = 0 THEN 0 ELSE f[i - 1] + s[i]]

(* The sums of a sequence of naturals exist, and are naturals.             *)
LEMMA SumsExist ==
  ASSUME NEW s \in Seq(Nat), NEW n \in 0 .. Len(s)
  PROVE  \E f \in [0 .. n -> Nat] : IsSum(f, s, n)
<1> DEFINE S == { m \in Nat : m <= Len(s) => \E f \in [0 .. m -> Nat] : IsSum(f, s, m) }
<1>1. 0 \in S
  <2> DEFINE f == [i \in 0 .. 0 |-> 0]
  <2>1. f \in [0 .. 0 -> Nat] /\ IsSum(f, s, 0)
    BY DEF IsSum
  <2> QED BY <2>1
<1>2. ASSUME NEW m \in S PROVE m + 1 \in S
  <2> SUFFICES ASSUME m + 1 <= Len(s)
               PROVE  \E g \in [0 .. m + 1 -> Nat] : IsSum(g, s, m + 1)
    BY SMTT(30)
  <2>1. Len(s) \in Nat /\ m \in Nat
    BY LenProperties
  <2>2. s[m + 1] \in Nat
    <3>1. m + 1 \in 1 .. Len(s)
      BY <2>1
    <3> QED BY <3>1, ElementOfSeq
  <2>3. PICK f \in [0 .. m -> Nat] : IsSum(f, s, m)
    <3>1. m <= Len(s) => \E f \in [0 .. m -> Nat] : IsSum(f, s, m)
      OBVIOUS
    <3>2. m <= Len(s)
      BY <2>1
    <3> QED BY <3>1, <3>2
  <2> DEFINE g == [i \in 0 .. m + 1 |-> IF i = m + 1 THEN f[m] + s[m + 1] ELSE f[i]]
  <2>4. g \in [0 .. m + 1 -> Nat]
    BY SMTT(30), <2>1, <2>2
  <2>5. \A i \in 0 .. m + 1 : g[i] = IF i = 0 THEN 0 ELSE g[i - 1] + s[i]
    <3> SUFFICES ASSUME NEW i \in 0 .. m + 1
                 PROVE  g[i] = IF i = 0 THEN 0 ELSE g[i - 1] + s[i]
      OBVIOUS
    <3>1. CASE i = m + 1
      <4>1. i # 0 /\ i - 1 = m /\ i - 1 # m + 1 /\ i - 1 \in 0 .. m + 1
        BY <2>1, <3>1
      <4> QED BY <3>1, <4>1
    <3>2. CASE i # m + 1
      <4>1. i \in 0 .. m
        BY <2>1, <3>2
      <4>2. f[i] = IF i = 0 THEN 0 ELSE f[i - 1] + s[i]
        BY <2>3, <4>1 DEF IsSum
      <4>3. i # 0 => i - 1 \in 0 .. m + 1 /\ i - 1 # m + 1
        BY <2>1, <4>1
      <4> QED BY <3>2, <4>2, <4>3
    <3> QED BY <3>1, <3>2
  <2>6. IsSum(g, s, m + 1)
    BY <2>5 DEF IsSum
  <2> QED BY <2>4, <2>6
<1>3. S \in SUBSET Nat
  OBVIOUS
<1> HIDE DEF S
<1>4. \A m \in Nat : m \in S
  BY <1>1, <1>2, <1>3, Induction
<1>5. n \in Nat /\ n <= Len(s)
  BY LenProperties
<1> QED BY <1>4, <1>5 DEF S

(* What the recursive definition of the sums says.                         *)
LEMMA SumsFacts ==
  ASSUME NEW s \in Seq(Nat)
  PROVE  /\ Sums(s) \in [0 .. Len(s) -> Nat]
         /\ Sums(s)[0] = 0
         /\ \A i \in 1 .. Len(s) : Sums(s)[i] = Sums(s)[i - 1] + s[i]
<1> DEFINE P(g) == g = [n \in 0 .. Len(s) |-> IF n = 0 THEN 0 ELSE g[n - 1] + s[n]]
<1>0. Len(s) \in Nat /\ Len(s) \in 0 .. Len(s)
  BY LenProperties
<1>1. Sums(s) = CHOOSE g : P(g)
  BY DEF Sums
<1>2. PICK f \in [0 .. Len(s) -> Nat] : P(f)
  BY <1>0, SumsExist DEF IsSum
<1>3. P(Sums(s))
  BY <1>1, <1>2
<1>4. 0 \in 0 .. Len(s) /\ \A i \in 1 .. Len(s) : i \in 0 .. Len(s) /\ i # 0
  BY <1>0
<1>5. Sums(s)[0] = 0 /\ \A i \in 1 .. Len(s) : Sums(s)[i] = Sums(s)[i - 1] + s[i]
  BY <1>3, <1>4
<1>6. \A g : P(g) => \A i \in Nat : i <= Len(s) => g[i] = f[i]
  <2> SUFFICES ASSUME NEW g, P(g)
               PROVE  \A i \in Nat : i <= Len(s) => g[i] = f[i]
    OBVIOUS
  <2> DEFINE S == { i \in Nat : i <= Len(s) => g[i] = f[i] }
  <2>1. 0 \in S
    BY <1>2, <1>4
  <2>2. ASSUME NEW i \in S PROVE i + 1 \in S
    <3> SUFFICES ASSUME i + 1 <= Len(s) PROVE g[i + 1] = f[i + 1]
      OBVIOUS
    <3>1. i + 1 \in 0 .. Len(s) /\ i + 1 # 0 /\ (i + 1) - 1 = i /\ i <= Len(s)
      BY <1>0
    <3>2. g[i] = f[i]
      BY <3>1
    <3>3. g[i + 1] = g[i] + s[i + 1] /\ f[i + 1] = f[i] + s[i + 1]
      BY <1>2, <3>1
    <3> QED BY <3>2, <3>3
  <2>3. S \in SUBSET Nat
    OBVIOUS
  <2> HIDE DEF S
  <2>4. \A i \in Nat : i \in S
    BY <2>1, <2>2, <2>3, Induction
  <2> QED BY <2>4 DEF S
<1>7. Sums(s) \in [0 .. Len(s) -> Nat]
  <2>1. \A i \in 0 .. Len(s) : Sums(s)[i] = f[i]
    <3> HIDE DEF P
    <3>1. \A i \in Nat : i <= Len(s) => Sums(s)[i] = f[i]
      BY <1>3, <1>6
    <3> QED BY <1>0, <3>1
  <2>2. DOMAIN Sums(s) = 0 .. Len(s) /\ Sums(s) = [i \in 0 .. Len(s) |-> Sums(s)[i]]
    BY <1>3
  <2>3. \A i \in 0 .. Len(s) : Sums(s)[i] \in Nat
    BY <1>2, <2>1
  <2> QED BY <2>2, <2>3
<1> QED BY <1>5, <1>7

(* The sums of naturals grow.                                              *)
LEMMA SumsGrow ==
  ASSUME NEW s \in Seq(Nat)
  PROVE  \A i, j \in 0 .. Len(s) : i <= j => Sums(s)[i] <= Sums(s)[j]
<1>0. Len(s) \in Nat
  BY LenProperties
<1> SUFFICES ASSUME NEW i \in 0 .. Len(s)
             PROVE  \A j \in 0 .. Len(s) : i <= j => Sums(s)[i] <= Sums(s)[j]
  OBVIOUS
<1> DEFINE S == { d \in Nat : i + d <= Len(s) => Sums(s)[i] <= Sums(s)[i + d] }
<1>1. 0 \in S
  <2>1. i + 0 = i /\ Sums(s)[i] \in Nat
    BY SumsFacts
  <2> QED BY <2>1
<1>2. ASSUME NEW d \in S PROVE d + 1 \in S
  <2> SUFFICES ASSUME i + (d + 1) <= Len(s) PROVE Sums(s)[i] <= Sums(s)[i + (d + 1)]
    OBVIOUS
  <2>1. PICK k \in 1 .. Len(s) : k = i + (d + 1) /\ k - 1 = i + d /\ i + d <= Len(s)
    BY <1>0
  <2>2. k \in 0 .. Len(s) /\ k - 1 \in 0 .. Len(s)
    BY <1>0
  <2>3. /\ Sums(s)[k] = Sums(s)[k - 1] + s[k] /\ s[k] \in Nat
        /\ Sums(s)[k] \in Nat /\ Sums(s)[k - 1] \in Nat /\ Sums(s)[i] \in Nat
    BY <2>2, SumsFacts, ElementOfSeq
  <2>4. Sums(s)[i] <= Sums(s)[k - 1]
    BY <2>1
  <2>5. Sums(s)[i] <= Sums(s)[k]
    <3>1. PICK x, y, z, w \in Nat :
            x = Sums(s)[i] /\ y = Sums(s)[k - 1] /\ z = s[k] /\ w = Sums(s)[k]
      BY <2>3
    <3>2. w = y + z /\ x <= y
      BY <2>3, <2>4, <3>1
    <3>3. x <= w
      BY <3>2
    <3> QED BY <3>1, <3>3
  <2> QED BY <2>1, <2>5
<1>3. S \in SUBSET Nat
  OBVIOUS
<1> HIDE DEF S
<1>4. \A d \in Nat : d \in S
  BY <1>1, <1>2, <1>3, Induction
<1>5. ASSUME NEW j \in 0 .. Len(s), i <= j PROVE Sums(s)[i] <= Sums(s)[j]
  <2>1. j - i \in Nat /\ i + (j - i) = j /\ j <= Len(s)
    BY <1>0, <1>5
  <2> QED BY <1>4, <2>1 DEF S
<1> QED BY <1>5

(* The sums of two sequences agree up to where the sequences do.           *)
LEMMA SumsAgree ==
  ASSUME NEW s \in Seq(Nat), NEW q \in Seq(Nat), NEW n \in Nat,
         n <= Len(s), n <= Len(q), \A i \in 1 .. n : s[i] = q[i]
  PROVE  \A i \in 0 .. n : Sums(s)[i] = Sums(q)[i]
<1> DEFINE S == { i \in Nat : i <= n => Sums(s)[i] = Sums(q)[i] }
<1>0. Len(s) \in Nat /\ Len(q) \in Nat
  BY LenProperties
<1>1. 0 \in S
  BY SumsFacts
<1>2. ASSUME NEW i \in S PROVE i + 1 \in S
  <2> SUFFICES ASSUME i + 1 <= n PROVE Sums(s)[i + 1] = Sums(q)[i + 1]
    OBVIOUS
  <2>1. PICK k \in 1 .. n : k = i + 1 /\ k - 1 = i /\ i <= n
    OBVIOUS
  <2>2. k \in 1 .. Len(s) /\ k \in 1 .. Len(q)
    BY <1>0
  <2>3. Sums(s)[k] = Sums(s)[k - 1] + s[k] /\ Sums(q)[k] = Sums(q)[k - 1] + q[k]
    BY <2>2, SumsFacts
  <2> QED BY <2>1, <2>3
<1>3. S \in SUBSET Nat
  OBVIOUS
<1> HIDE DEF S
<1>4. \A i \in Nat : i \in S
  BY <1>1, <1>2, <1>3, Induction
<1> QED BY <1>4 DEF S

(* After the last member that is not zero the sum stays.                   *)
LEMMA SumsStay ==
  ASSUME NEW s \in Seq(Nat), NEW n \in 0 .. Len(s), \A i \in n + 1 .. Len(s) : s[i] = 0
  PROVE  Sums(s)[Len(s)] = Sums(s)[n]
<1> DEFINE S == { d \in Nat : n + d <= Len(s) => Sums(s)[n + d] = Sums(s)[n] }
<1>0. Len(s) \in Nat /\ n \in Nat
  BY LenProperties
<1>1. 0 \in S
  BY <1>0
<1>2. ASSUME NEW d \in S PROVE d + 1 \in S
  <2> SUFFICES ASSUME n + (d + 1) <= Len(s) PROVE Sums(s)[n + (d + 1)] = Sums(s)[n]
    OBVIOUS
  <2>1. PICK k \in 1 .. Len(s) :
          k = n + (d + 1) /\ k - 1 = n + d /\ n + d <= Len(s) /\ k \in n + 1 .. Len(s)
    BY <1>0
  <2>2. k - 1 \in 0 .. Len(s)
    BY <1>0
  <2>3. Sums(s)[k] = Sums(s)[k - 1] + s[k] /\ s[k] = 0 /\ Sums(s)[k - 1] \in Nat
    BY <2>1, <2>2, SumsFacts
  <2>4. Sums(s)[k - 1] = Sums(s)[n]
    BY <2>1
  <2> QED BY <2>1, <2>3, <2>4
<1>3. S \in SUBSET Nat
  OBVIOUS
<1> HIDE DEF S
<1>4. \A d \in Nat : d \in S
  BY <1>1, <1>2, <1>3, Induction
<1>5. Len(s) - n \in Nat /\ n + (Len(s) - n) = Len(s) /\ Len(s) <= Len(s)
  BY <1>0
<1> QED BY <1>4, <1>5 DEF S

(* A sale from wallet i of the balances b: the wallet is the nonce.         *)
IsSale(b, t, i) ==
  /\ t.nonce = i /\ t.wallet = i
  /\ i \in 1 .. Len(b)
  /\ t.amount \in Nat /\ t.amount <= b[i]

(* The first n sales of a list bring in a: all but the last take the whole *)
(* wallet, and the last one takes something.                               *)
Complete(b, a, list, n) ==
  /\ n \in 1 .. Len(b)
  /\ \A i \in 1 .. n : IsSale(b, list[i], i)
  /\ \A i \in 1 .. n - 1 : list[i].amount = b[i]
  /\ list[n].amount > 0
  /\ Sums(b)[n - 1] + list[n].amount = a

(* The first n sales of a list empty their wallets, and left is to be sold. *)
Begun(b, a, list, n, left) ==
  /\ n \in 0 .. Len(b)
  /\ \A i \in 1 .. n : IsSale(b, list[i], i) /\ list[i].amount = b[i]
  /\ left + Sums(b)[n] = a

(* The one transaction of a full sale.                                     *)
Full == Len(txs) = 1 /\ txs[1].wallet = 0

(* Each of n sales is in the order c times, next to each other.            *)
Repeats(order, list, n, c) ==
  order = [k \in 1 .. n * c |-> list[((k - 1) \div c) + 1]]

(* A partial sale whose loop has ended.                                    *)
Planned ==
  /\ \E S : txs \in Seq(S)
  /\ Complete(balances, AmountToSell, txs, Len(txs))

(* A partial sale in the order, each sale once or as often as there are.   *)
Estimated ==
  \E list : \E n \in Nat \ {0} :
    /\ Complete(balances, AmountToSell, list, n)
    /\ Repeats(txs, list, n, 1) \/ Repeats(txs, list, n, n)

(* A partial sale of nothing.                                              *)
Nothing == txs = << >> /\ AmountToSell = 0

(* Why the loop may panic.                                                 *)
SaleIsTooLarge ==
  \/ percentage > 100
  \/ \E n \in DOMAIN balances : balances[n] > MaxAmount
  \/ Len(balances) > MaxByte

(* What the loop keeps, and what its end and the estimate leave of it.     *)
SaleInv ==
  /\ balances \in Seq(Nat) /\ percentage \in Nat /\ to_sell \in Nat
  /\ step = "plan" => txs = << >>
  /\ step = "sell" =>
       /\ \E S : txs \in Seq(S)
       /\ \/ /\ to_sell > 0 \/ txs = << >>
             /\ Begun(balances, AmountToSell, txs, Len(txs), to_sell)
          \/ to_sell = 0 /\ Planned
  /\ step = "priced" => Nothing \/ Full \/ Planned
  /\ step = "sent" =>
       \/ Nothing
       \/ txs # << >> /\ txs[1].wallet = 0
       \/ Estimated
  /\ cause = "sale" => SaleIsTooLarge

(* What a quotient is.                                                     *)
LEMMA Quotients ==
  ASSUME NEW k \in Nat, NEW c \in Nat \ {0}
  PROVE  k \div c \in Nat /\ \A i \in Nat : k \div c = i <=> i * c <= k /\ k < i * c + c
<1>1. PICK q \in Nat : q = k \div c /\ q * c <= k /\ k < q * c + c
  OBVIOUS
<1> SUFFICES ASSUME NEW i \in Nat
             PROVE  k \div c = i <=> i * c <= k /\ k < i * c + c
  BY <1>1
<1>2. ASSUME i * c <= k, k < i * c + c, q < i PROVE FALSE
  <2>1. q + 1 <= i /\ (q + 1) * c <= i * c
    BY <1>2
  <2> QED BY <1>1, <1>2, <2>1
<1>3. ASSUME i * c <= k, k < i * c + c, i < q PROVE FALSE
  <2>1. i + 1 <= q /\ (i + 1) * c <= q * c
    BY <1>3
  <2> QED BY <1>1, <1>3, <2>1
<1> QED BY <1>1, <1>2, <1>3

(* The places of the i-th sale.                                            *)
LEMMA Places ==
  ASSUME NEW n \in Nat \ {0}, NEW c \in Nat \ {0}
  PROVE  /\ \A k \in 1 .. n * c : ((k - 1) \div c) + 1 \in 1 .. n
         /\ \A i \in 1 .. n :
              { k \in 1 .. n * c : ((k - 1) \div c) + 1 = i } = (i - 1) * c + 1 .. (i - 1) * c + c
         /\ \A i \in 1 .. n : (i - 1) * c + 1 \in 1 .. n * c
<1>1. \A k \in Nat : /\ k \div c \in Nat
                     /\ (k \div c) * c <= k /\ k < (k \div c) * c + c
  BY Quotients
<1>2. ASSUME NEW k \in Nat, NEW i \in Nat
      PROVE  k \div c = i <=> i * c <= k /\ k < i * c + c
  BY Quotients
<1>3. \A i \in 1 .. n : /\ (i - 1) * c \in Nat
                        /\ (i - 1) * c + c <= n * c
  <2> SUFFICES ASSUME NEW i \in 1 .. n
               PROVE  (i - 1) * c \in Nat /\ (i - 1) * c + c <= n * c
    OBVIOUS
  <2>1. i * c <= n * c /\ i * c = (i - 1) * c + c /\ (i - 1) * c \in Nat
    OBVIOUS
  <2> QED BY <2>1
<1>4. ASSUME NEW k \in 1 .. n * c PROVE ((k - 1) \div c) + 1 \in 1 .. n
  <2>1. k - 1 \in Nat /\ k - 1 < n * c
    OBVIOUS
  <2>2. PICK q \in Nat : q = (k - 1) \div c /\ q * c <= k - 1
    BY <1>1, <2>1
  <2>3. ASSUME n <= q PROVE FALSE
    <3>1. n * c <= q * c
      BY <2>3
    <3> QED BY <2>1, <2>2, <3>1
  <2> QED BY <2>2, <2>3
<1>5. ASSUME NEW i \in 1 .. n
      PROVE  { k \in 1 .. n * c : ((k - 1) \div c) + 1 = i } = (i - 1) * c + 1 .. (i - 1) * c + c
  <2>1. PICK j \in Nat : j = i - 1 /\ j * c \in Nat /\ j * c + c <= n * c
    BY <1>3
  <2>2. ASSUME NEW k \in 1 .. n * c
        PROVE  ((k - 1) \div c) + 1 = i <=> k \in j * c + 1 .. j * c + c
    <3>1. k - 1 \in Nat /\ (k - 1) \div c \in Nat
      BY <1>1
    <3>2. (k - 1) \div c = j <=> j * c <= k - 1 /\ k - 1 < j * c + c
      BY <1>2, <3>1
    <3> QED BY <2>1, <3>1, <3>2
  <2>3. j * c + 1 .. j * c + c \subseteq 1 .. n * c
    BY <2>1
  <2> QED BY <2>1, <2>2, <2>3
<1> QED BY <1>3, <1>4, <1>5

(* An order that repeats each sale equally often.                          *)
LEMMA RepeatedFacts ==
  ASSUME NEW list, NEW n \in Nat \ {0}, NEW c \in Nat \ {0},
         \A i \in 1 .. n : IsSale(balances, list[i], i), Repeats(txs, list, n, c)
  PROVE  /\ Len(txs) = n * c /\ DOMAIN txs = 1 .. n * c
         /\ ToSet(txs) = { list[i] : i \in 1 .. n }
         /\ Cardinality(ToSet(txs)) = n
         /\ Cardinality({ t.nonce : t \in ToSet(txs) }) = n
         /\ \A t \in ToSet(txs) :
              t.wallet \in 1 .. Len(balances) /\ t.amount <= balances[t.wallet]
<1> DEFINE sales == { list[i] : i \in 1 .. n }
<1>1. n * c \in Nat
  OBVIOUS
<1>2. DOMAIN txs = 1 .. n * c
  BY DEF Repeats
<1>3. Len(txs) = n * c
  <2>1. txs \in [1 .. n * c -> { txs[k] : k \in 1 .. n * c }]
    BY <1>2 DEF Repeats
  <2>2. txs \in Seq({ txs[k] : k \in 1 .. n * c })
    BY <1>1, <2>1, SeqDef
  <2> QED BY <1>1, <1>2, <2>2, LenProperties
<1>4. \A i \in 1 .. n : list[i].nonce = i /\ IsSale(balances, list[i], i)
  BY DEF IsSale
<1>5. ToSet(txs) = sales
  <2>1. ToSet(txs) = { txs[k] : k \in 1 .. n * c }
    BY <1>2 DEF ToSet
  <2>2. \A k \in 1 .. n * c : txs[k] = list[((k - 1) \div c) + 1]
    BY DEF Repeats
  <2>3. \A k \in 1 .. n * c : txs[k] \in sales
    BY <2>2, Places
  <2>4. ASSUME NEW i \in 1 .. n PROVE \E k \in 1 .. n * c : txs[k] = list[i]
    <3>1. (i - 1) * c + 1 \in (i - 1) * c + 1 .. (i - 1) * c + c
      OBVIOUS
    <3>2. { k \in 1 .. n * c : ((k - 1) \div c) + 1 = i } = (i - 1) * c + 1 .. (i - 1) * c + c
      BY Places
    <3>3. PICK k \in 1 .. n * c : ((k - 1) \div c) + 1 = i
      BY <3>1, <3>2
    <3> QED BY <2>2, <3>3
  <2> QED BY <2>1, <2>3, <2>4
<1>6. IsFiniteSet(1 .. n) /\ Cardinality(1 .. n) = n
  <2>1. 1 \in Int /\ n \in Int /\ ~ (1 > n)
    OBVIOUS
  <2>2. /\ IsFiniteSet(1 .. n)
        /\ Cardinality(1 .. n) = IF 1 > n THEN 0 ELSE n - 1 + 1
    BY <2>1, FS_Interval
  <2> QED BY <2>1, <2>2
<1>7. Cardinality(sales) = n
  <2> DEFINE f == [i \in 1 .. n |-> list[i]]
  <2>1. \A i, j \in 1 .. n : list[i] = list[j] => i = j
    BY <1>4
  <2>2. f \in Bijection(1 .. n, sales)
    BY <2>1 DEF Bijection, Injection, Surjection, IsInjective
  <2> QED BY <1>6, <2>2, FS_Bijection DEF ExistsBijection
<1>8. { t.nonce : t \in sales } = 1 .. n
  BY <1>4
<1>9. \A t \in sales :
        t.wallet \in 1 .. Len(balances) /\ t.amount <= balances[t.wallet]
  BY <1>4 DEF IsSale
<1> QED BY <1>2, <1>3, <1>5, <1>6, <1>7, <1>8, <1>9

(* The amount is a natural, and no more than the whole up to 100 percent.  *)
LEMMA AmountFacts ==
  ASSUME balances \in Seq(Nat), percentage \in Nat
  PROVE  /\ Total \in Nat /\ AmountToSell \in Nat
         /\ percentage <= 100 => AmountToSell <= Total
         /\ percentage * Total <= MaxWord => AmountToSell = (percentage * Total) \div 100
         /\ AmountToSell = 0 => percentage * Total < 100 \/ percentage * Total > MaxWord
<1>1. Total \in Nat
  <2>1. Len(balances) \in 0 .. Len(balances)
    BY LenProperties
  <2> QED BY <2>1, SumsFacts DEF Total
<1>2. PICK p, t, k \in Nat : p = percentage /\ t = Total /\ k = p * t
  BY <1>1
<1>3. k \div 100 \in Nat /\ (k \div 100) * 100 <= k
  BY Quotients
<1>4. ASSUME p <= 100 PROVE k \div 100 <= t
  <2>1. p * t <= 100 * t
    BY <1>4
  <2>2. PICK q \in Nat : q = k \div 100 /\ q * 100 <= 100 * t
    BY <1>2, <1>3, <2>1
  <2>3. q <= t
    BY <2>2
  <2> QED BY <2>2, <2>3
<1>5. AmountToSell = IF k > MaxWord THEN 0 ELSE k \div 100
  BY <1>2 DEF AmountToSell, Share
<1>6. k \div 100 = 0 => k < 100
  BY Quotients
<1>7. CASE k > MaxWord
  <2>1. AmountToSell = 0 /\ ~ (k <= MaxWord)
    BY <1>2, <1>5, <1>7, WalletSaleAssumption
  <2> QED BY <1>1, <1>2, <1>7, <2>1
<1>8. CASE ~ (k > MaxWord)
  BY <1>1, <1>2, <1>3, <1>4, <1>5, <1>6, <1>8
<1> QED BY <1>7, <1>8

(* The order starts out empty, and the balances are a sequence.            *)
LEMMA SaleStarts == SaleInit => SaleInv
<1> SUFFICES ASSUME SaleInit PROVE SaleInv
  OBVIOUS
<1>1. PICK n \in Wallets : balances \in [1 .. n -> Balances]
  BY DEF SaleInit
<1>2. n \in Nat /\ balances \in [1 .. n -> Nat]
  <2>1. \A x \in Balances : x \in Nat
    BY WalletSaleAssumption
  <2>2. n \in Nat
    BY WalletSaleAssumption
  <2> QED BY <1>1, <2>1, <2>2
<1>3. balances \in Seq(Nat)
  BY <1>2, SeqDef
<1>4. percentage \in Nat
  BY WalletSaleAssumption DEF SaleInit
<1> QED BY <1>3, <1>4 DEF SaleInit, SaleInv

(* A round of the loop: it empties one more wallet, or it was the last, or *)
(* it panics on a sale that is too large.                                  *)
LEMMA RoundOfSale == SaleInv /\ (SellFromNextWallet \/ SaleDoesNotFit) => SaleInv'
<1> SUFFICES ASSUME SaleInv, SellFromNextWallet \/ SaleDoesNotFit PROVE SaleInv'
  OBVIOUS
<1> DEFINE a == AmountToSell
           b == balances
           m == Len(txs)
<1>1. /\ step = "sell" /\ to_sell > 0
      /\ balances' = b /\ percentage' = percentage
      /\ b \in Seq(Nat) /\ percentage \in Nat /\ to_sell \in Nat
  BY DEF SellFromNextWallet, SaleDoesNotFit, SaleInv
<1>2. a \in Nat /\ a' = a
  BY <1>1, AmountFacts DEF AmountToSell, Total
<1>3. (\E S : txs \in Seq(S)) /\ Begun(b, a, txs, m, to_sell)
  BY <1>1 DEF SaleInv
<1>4. PICK S : txs \in Seq(S)
  BY <1>3
<1>5. m \in Nat /\ Len(b) \in Nat /\ DOMAIN b = 1 .. Len(b)
  BY <1>1, <1>4, LenProperties
<1>6. /\ m \in 0 .. Len(b) /\ Sums(b)[m] \in Nat
      /\ \A i \in 1 .. m : IsSale(b, txs[i], i) /\ txs[i].amount = b[i]
      /\ to_sell + Sums(b)[m] = a
  BY <1>1, <1>3, SumsFacts DEF Begun
<1>7. CASE SaleDoesNotFit
  <2>1. /\ step' = "panic" /\ cause' = "sale" /\ to_sell' = to_sell
        /\ ~ Fits(m + 1)
    BY <1>7 DEF SaleDoesNotFit, Panic
  <2>2. ASSUME m + 1 \notin DOMAIN b PROVE SaleIsTooLarge
    <3>1. m = Len(b)
      BY <1>5, <1>6, <2>2
    <3>2. a > Total
      BY <1>1, <1>6, <3>1, AmountFacts DEF Total
    <3>3. percentage > 100
      BY <1>1, <1>2, <3>2, AmountFacts
    <3> QED BY <3>3 DEF SaleIsTooLarge
  <2>3. ASSUME m + 1 \in DOMAIN b, ~ (AmountFrom(m + 1) <= MaxAmount)
        PROVE  SaleIsTooLarge
    <3>1. b[m + 1] \in Nat /\ MaxAmount \in Nat
      BY <1>1, <2>3, ElementOfSeq, WalletSaleAssumption
    <3>2. b[m + 1] > MaxAmount
      BY <1>1, <2>3, <3>1 DEF AmountFrom
    <3>3. \E i \in DOMAIN balances : balances[i] > MaxAmount
      BY <2>3, <3>2
    <3> QED BY <3>3 DEF SaleIsTooLarge
  <2>4. ASSUME m + 1 \in DOMAIN b, ~ (m + 1 <= MaxByte) PROVE SaleIsTooLarge
    <3>1. Len(balances) > MaxByte
      BY <1>5, <2>4, WalletSaleAssumption
    <3> QED BY <3>1 DEF SaleIsTooLarge
  <2>5. SaleIsTooLarge
    BY <2>1, <2>2, <2>3, <2>4 DEF Fits
  <2> QED BY <1>1, <2>1, <2>5 DEF SaleInv, SaleIsTooLarge
<1>8. CASE SellFromNextWallet
  <2> DEFINE n == m + 1
             amount == AmountFrom(n)
             tx == [nonce |-> n, wallet |-> n, amount |-> amount]
  <2>1. /\ txs' = Append(txs, tx) /\ to_sell' = to_sell - amount /\ step' = "sell"
        /\ n \in DOMAIN b /\ cause' = cause
        /\ cause = "sale" => SaleIsTooLarge'
    <3>1. cause = "sale" => SaleIsTooLarge
      BY DEF SaleInv
    <3> QED BY <1>1, <1>8, <3>1 DEF SellFromNextWallet, Fits, SaleIsTooLarge
  <2>2. n \in 1 .. Len(b) /\ n - 1 = m /\ b[n] \in Nat
    BY <1>1, <1>5, <2>1, ElementOfSeq
  <2>3. /\ amount \in Nat /\ amount <= b[n] /\ amount <= to_sell
        /\ to_sell - amount \in Nat
        /\ to_sell - amount = 0 => amount > 0 /\ amount = to_sell
        /\ to_sell - amount > 0 => amount = b[n]
    <3>1. CASE b[n] > to_sell
      <4>1. amount = to_sell
        BY <3>1 DEF AmountFrom
      <4> HIDE DEF amount
      <4> QED BY <1>1, <2>2, <3>1, <4>1
    <3>2. CASE ~ (b[n] > to_sell)
      <4>1. amount = b[n]
        BY <3>2 DEF AmountFrom
      <4>2. PICK x, y \in Nat : x = b[n] /\ y = to_sell /\ ~ (x > y)
        BY <1>1, <2>2, <3>2
      <4>3. /\ x <= x /\ x <= y /\ y - x \in Nat
            /\ y - x = 0 => x > 0 /\ x = y
        BY <1>1, <4>2
      <4> HIDE DEF amount
      <4>4. amount = x
        BY <4>1, <4>2
      <4> QED BY <4>2, <4>3, <4>4
    <3> QED BY <3>1, <3>2
  <2> HIDE DEF amount
  <2>4. IsSale(b, tx, n) /\ tx.amount = amount
    BY <2>2, <2>3 DEF IsSale
  <2>5. txs \in Seq(S \cup {tx}) /\ tx \in S \cup {tx}
    BY <1>4
  <2> HIDE DEF tx
  <2>6. /\ txs' \in Seq(S \cup {tx}) /\ Len(txs') = n /\ txs'[n] = tx
        /\ \A i \in 1 .. m : txs'[i] = txs[i]
        /\ \A i \in 1 .. n : i \in 1 .. m \/ i = n
    BY <2>1, <2>5, Enqueued
  <2> HIDE DEF n
  <2>7. \A i \in 1 .. n : IsSale(b, txs'[i], i)
    BY <1>6, <2>4, <2>6
  <2>8. \A i \in 1 .. m : txs'[i].amount = b[i]
    BY <1>6, <2>6
  <2>9. to_sell' \in Nat /\ b' = b /\ b' \in Seq(Nat) /\ percentage' \in Nat
    BY <1>1, <2>1, <2>3
  <2>10. CASE to_sell - amount = 0
    <3>1. txs'[n].amount > 0 /\ Sums(b)[n - 1] + txs'[n].amount = a
      BY <1>6, <2>2, <2>3, <2>4, <2>6, <2>10
    <3>2. Complete(b, a, txs', n)
      BY <2>2, <2>7, <2>8, <3>1 DEF Complete
    <3>3. Planned'
      BY <1>1, <1>2, <2>6, <3>2 DEF Planned
    <3>4. to_sell' = 0
      BY <2>1, <2>10
    <3> QED BY <2>1, <2>6, <2>9, <3>3, <3>4 DEF SaleInv
  <2>11. CASE to_sell - amount > 0
    <3>1. Sums(b)[n] = Sums(b)[m] + b[n] /\ amount = b[n]
      BY <1>1, <2>2, <2>3, <2>11, SumsFacts
    <3>2. to_sell' + Sums(b)[n] = a
      <4>1. PICK x, y, z \in Nat : x = to_sell /\ y = Sums(b)[m] /\ z = b[n]
        BY <1>1, <1>6, <2>2
      <4>2. to_sell' = x - z /\ Sums(b)[n] = y + z /\ x + y = a
        BY <1>6, <2>1, <3>1, <4>1
      <4>3. (x - z) + (y + z) = x + y
        OBVIOUS
      <4> QED BY <4>2, <4>3
    <3>3. \A i \in 1 .. n : txs'[i].amount = b[i]
      BY <2>4, <2>6, <2>8, <3>1
    <3>4. n \in 0 .. Len(b)
      BY <1>5, <2>2
    <3>5. Begun(b, a, txs', n, to_sell')
      BY <2>7, <3>2, <3>3, <3>4 DEF Begun
    <3>6. to_sell' > 0
      BY <2>1, <2>11
    <3> QED BY <1>1, <1>2, <2>1, <2>6, <2>9, <3>5, <3>6 DEF SaleInv
  <2>12. to_sell - amount = 0 \/ to_sell - amount > 0
    BY <2>3
  <2> QED BY <2>10, <2>11, <2>12
<1> QED BY <1>7, <1>8

(* The estimate leaves a planned sale as it is, or repeats its sales.      *)
LEMMA EstimateOfSale == SaleInv /\ EstimateGas => SaleInv'
<1> SUFFICES ASSUME SaleInv, EstimateGas PROVE SaleInv'
  OBVIOUS
<1>1. /\ step' = "sent"
      /\ txs' = Paired \/ txs' = txs
      /\ balances' = balances /\ percentage' = percentage /\ to_sell' = to_sell
      /\ balances \in Seq(Nat) /\ percentage \in Nat /\ to_sell \in Nat
      /\ Nothing \/ Full \/ Planned
      /\ cause' = "sale" => SaleIsTooLarge'
  BY DEF EstimateGas, SaleInv, SaleIsTooLarge
<1>2. AmountToSell' = AmountToSell
  BY <1>1 DEF AmountToSell, Total
<1>3. CASE Nothing
  <2>1. Len(txs) = 0 /\ Len(txs) * Len(txs) = 0
    BY <1>3, EmptySeq DEF Nothing
  <2>2. Paired \in [1 .. 0 -> {}]
    BY <2>1 DEF Paired
  <2>3. Paired \in Seq({}) /\ Len(Paired) = 0
    BY <2>2, SeqDef, LenProperties
  <2>4. Paired = << >>
    BY <2>3, EmptySeq
  <2>5. Nothing'
    BY <1>1, <1>2, <1>3, <2>4 DEF Nothing
  <2> QED BY <1>1, <2>5 DEF SaleInv
<1>4. CASE Full
  <2>1. 1 \in 1 .. 1 /\ ((1 - 1) \div 1) + 1 = 1 /\ 1 * 1 = 1
    OBVIOUS
  <2>2. Paired[1] = txs[1]
    BY <1>4, <2>1 DEF Full, Paired
  <2>3. txs'[1].wallet = 0
    BY <1>1, <1>4, <2>2 DEF Full
  <2>4. 1 \in DOMAIN Paired
    <3>1. DOMAIN Paired = 1 .. Len(txs) * Len(txs)
      BY DEF Paired
    <3>2. Len(txs) = 1
      BY <1>4 DEF Full
    <3> QED BY <2>1, <3>1, <3>2
  <2>5. txs' # << >>
    <3>1. Paired # << >>
      BY <2>4
    <3>2. txs # << >>
      BY <1>4, EmptySeq DEF Full
    <3> QED BY <1>1, <3>1, <3>2
  <2> QED BY <1>1, <2>3, <2>5 DEF SaleInv
<1>5. CASE Planned
  <2>1. PICK S : txs \in Seq(S)
    BY <1>5 DEF Planned
  <2>2. PICK list, n : list = txs /\ n = Len(txs)
    OBVIOUS
  <2>3. Complete(balances, AmountToSell, list, n)
    BY <1>5, <2>2 DEF Planned
  <2>4. n \in Nat \ {0} /\ DOMAIN txs = 1 .. n /\ n * 1 = n
    <3>1. n \in Nat /\ DOMAIN txs = 1 .. n
      BY <2>1, <2>2, LenProperties
    <3>2. n # 0
      BY <2>3 DEF Complete
    <3> QED BY <3>1, <3>2
  <2>5. CASE txs' = txs
    <3>1. \A k \in 1 .. n : ((k - 1) \div 1) + 1 = k
      OBVIOUS
    <3>2. txs = [k \in 1 .. n |-> txs[k]]
      BY <2>1, <2>4
    <3>3. Repeats(txs', list, n, 1)
      BY <2>2, <2>4, <2>5, <3>1, <3>2 DEF Repeats
    <3>4. Estimated'
      BY <1>1, <1>2, <2>3, <2>4, <3>3 DEF Estimated
    <3> QED BY <1>1, <3>4 DEF SaleInv
  <2>6. CASE txs' = Paired
    <3>1. Repeats(txs', list, n, n)
      BY <2>2, <2>6 DEF Repeats, Paired
    <3>2. Estimated'
      BY <1>1, <1>2, <2>3, <2>4, <3>1 DEF Estimated
    <3> QED BY <1>1, <3>2 DEF SaleInv
  <2> QED BY <1>1, <2>5, <2>6
<1> QED BY <1>1, <1>3, <1>4, <1>5

(* Every step keeps what is true of the order.                             *)
LEMMA SaleStep == SaleInv /\ [SaleNext]_sale_vars => SaleInv'
<1> SUFFICES ASSUME SaleInv, [SaleNext]_sale_vars PROVE SaleInv'
  OBVIOUS
<1>1. CASE UNCHANGED sale_vars
  BY <1>1 DEF sale_vars, SaleInv, Nothing, Full, Planned, Estimated, SaleIsTooLarge,
              AmountToSell, Total
<1>2. CASE PlanTakeProfit
  <2>1. /\ step' = "sell" /\ txs' = << >> /\ to_sell' = AmountToSell
        /\ balances' = balances /\ percentage' = percentage /\ cause' = cause
        /\ balances \in Seq(Nat) /\ percentage \in Nat
    BY <1>2 DEF PlanTakeProfit, SaleInv
  <2>2. AmountToSell' = AmountToSell /\ AmountToSell \in Nat
    BY <2>1, AmountFacts DEF AmountToSell, Total
  <2>3. txs' \in Seq({}) /\ Len(txs') = 0
    BY <2>1, EmptySeq
  <2>4. 0 \in 0 .. Len(balances) /\ Sums(balances)[0] = 0
    BY <2>1, SumsFacts, LenProperties
  <2>5. Begun(balances, AmountToSell, txs', 0, AmountToSell)
    BY <2>2, <2>4 DEF Begun
  <2>6. cause' = "sale" => SaleIsTooLarge'
    BY <2>1 DEF SaleInv, SaleIsTooLarge
  <2> QED BY <2>1, <2>2, <2>3, <2>5, <2>6 DEF SaleInv
<1>3. CASE SellFromNextWallet \/ SaleDoesNotFit
  BY <1>3, RoundOfSale
<1>4. CASE TakeProfitIsPlanned
  <2>1. /\ step = "sell" /\ to_sell = 0 /\ step' = "priced"
        /\ UNCHANGED << balances, percentage, to_sell, txs, mask, cause >>
        /\ balances \in Seq(Nat)
    BY <1>4 DEF TakeProfitIsPlanned, SaleInv
  <2>2. Nothing \/ Planned
    <3>1. CASE Begun(balances, AmountToSell, txs, Len(txs), to_sell) /\ txs = << >>
      <4>1. Len(txs) = 0 /\ Sums(balances)[0] = 0
        BY <2>1, <3>1, EmptySeq, SumsFacts
      <4> QED BY <2>1, <3>1, <4>1 DEF Begun, Nothing
    <3> QED BY <2>1, <3>1 DEF SaleInv
  <2>3. Nothing' \/ Planned'
    BY <2>1, <2>2 DEF Nothing, Planned, AmountToSell, Total
  <2>4. cause' = "sale" => SaleIsTooLarge'
    BY <2>1 DEF SaleInv, SaleIsTooLarge
  <2> QED BY <2>1, <2>3, <2>4 DEF SaleInv
<1>5. CASE PlanForceExit
  <2>1. UNCHANGED << balances, percentage, to_sell >>
    BY <1>5 DEF PlanForceExit
  <2>2. CASE /\ txs' = << [nonce |-> 1, wallet |-> 0, amount |-> 0] >>
             /\ step' = "priced" /\ cause' = cause
    <3>1. Full'
      <4> DEFINE tx == [nonce |-> 1, wallet |-> 0, amount |-> 0]
      <4>1. tx.wallet = 0 /\ txs' = << tx >>
        BY <2>2
      <4> HIDE DEF tx
      <4>2. Len(<< tx >>) = 1 /\ << tx >>[1] = tx
        OBVIOUS
      <4> QED BY <4>1, <4>2 DEF Full
    <3>2. cause' = "sale" => SaleIsTooLarge'
      BY <2>1, <2>2 DEF SaleInv, SaleIsTooLarge
    <3> QED BY <2>1, <2>2, <3>1, <3>2 DEF SaleInv
  <2>3. CASE step' = "panic" /\ cause' = "mask"
    BY <2>1, <2>3 DEF SaleInv
  <2> QED BY <1>5, <2>2, <2>3 DEF PlanForceExit, Panic
<1>6. CASE SetupFails \/ TotalOverflows
  BY <1>6 DEF SetupFails, TotalOverflows, Panic, SaleInv
<1>7. CASE EstimateGas
  BY <1>7, EstimateOfSale
<1> QED BY <1>1, <1>2, <1>3, <1>4, <1>5, <1>6, <1>7 DEF SaleNext

(* A planned sale that is in the order is the sale that was asked for.     *)
LEMMA OrderIsAsAsked ==
  ASSUME balances \in Seq(Nat), percentage \in Nat,
         NEW list, NEW n \in Nat \ {0}, NEW c \in {1, n},
         Complete(balances, AmountToSell, list, n), Repeats(txs, list, n, c)
  PROVE  /\ LET sales == ToSet(txs)
            IN  /\ \A t \in sales : t.wallet \in DOMAIN balances /\ t.amount <= balances[t.wallet]
                /\ Cardinality({ t.nonce : t \in sales }) = Cardinality(sales)
                /\ Len(txs) = Cardinality(sales) * c
                /\ Cardinality(sales) \in Nat
         /\ txs # << >>
         /\ LET sold == Sums([i \in 1 .. Len(balances) |-> SoldFrom(i)])
            IN  /\ sold[Len(balances)] = (percentage * Total) \div 100
                /\ \A t \in ToSet(txs) :
                     t.wallet > 1 => sold[t.wallet - 1] < sold[Len(balances)]
<1> DEFINE b == balances
           s == [i \in 1 .. Len(b) |-> SoldFrom(i)]
<1>1. /\ n \in 1 .. Len(b) /\ Len(b) \in Nat /\ DOMAIN b = 1 .. Len(b)
      /\ \A i \in 1 .. n : IsSale(b, list[i], i)
      /\ \A i \in 1 .. n - 1 : list[i].amount = b[i]
      /\ list[n].amount > 0
      /\ Sums(b)[n - 1] + list[n].amount = AmountToSell
  BY LenProperties DEF Complete
<1>2. c \in Nat \ {0}
  OBVIOUS
<1>3. /\ Len(txs) = n * c /\ DOMAIN txs = 1 .. n * c
      /\ ToSet(txs) = { list[i] : i \in 1 .. n }
      /\ Cardinality(ToSet(txs)) = n
      /\ Cardinality({ t.nonce : t \in ToSet(txs) }) = n
      /\ \A t \in ToSet(txs) :
           t.wallet \in 1 .. Len(b) /\ t.amount <= b[t.wallet]
  BY <1>1, <1>2, RepeatedFacts
<1>4. AmountToSell = (percentage * Total) \div 100
  <2>1. Total \in Nat /\ percentage * Total \in Nat /\ MaxWord \in Nat
    BY AmountFacts, WalletSaleAssumption
  <2>2. AmountToSell # 0
    <3>1. n - 1 \in 0 .. Len(b)
      BY <1>1
    <3>2. PICK x, y \in Nat : x = Sums(b)[n - 1] /\ y = list[n].amount
      <4>1. n \in 1 .. n
        OBVIOUS
      <4>2. list[n].amount \in Nat
        BY <1>1, <4>1 DEF IsSale
      <4> QED BY <1>1, <3>1, <4>2, SumsFacts
    <3> QED BY SMTT(30), <1>1, <3>2
  <2>3. percentage * Total <= MaxWord
    BY <2>1, <2>2 DEF AmountToSell, Share
  <2> QED BY <2>3, AmountFacts
<1>5. ASSUME NEW i \in 1 .. n PROVE SoldFrom(i) = list[i].amount
  <2>1. \A j \in 1 .. n : list[j].wallet = j
    BY <1>1 DEF IsSale
  <2>2. { t \in ToSet(txs) : t.wallet = i } = { list[i] }
    BY <1>3, <2>1
  <2> QED BY <2>2 DEF SoldFrom
<1>6. ASSUME NEW i \in n + 1 .. Len(b) PROVE SoldFrom(i) = 0
  <2>1. \A j \in 1 .. n : list[j].wallet = j /\ j # i
    BY <1>1 DEF IsSale
  <2>2. { t \in ToSet(txs) : t.wallet = i } = {}
    BY <1>3, <2>1
  <2> QED BY <2>2 DEF SoldFrom
<1>7. \A i \in 1 .. Len(b) : SoldFrom(i) \in Nat
  <2>1. \A i \in 1 .. Len(b) : i \in 1 .. n \/ i \in n + 1 .. Len(b)
    BY <1>1
  <2>2. \A i \in 1 .. n : list[i].amount \in Nat
    BY <1>1 DEF IsSale
  <2>3. ASSUME NEW i \in 1 .. n PROVE SoldFrom(i) \in Nat
    <3>1. SoldFrom(i) = list[i].amount
      BY <1>5
    <3> QED BY <2>2, <3>1
  <2>4. ASSUME NEW i \in n + 1 .. Len(b) PROVE SoldFrom(i) \in Nat
    <3>1. SoldFrom(i) = 0
      BY <1>6
    <3> QED BY <3>1
  <2>5. TAKE i \in 1 .. Len(b)
  <2>6. CASE i \in 1 .. n
    BY <2>3, <2>6
  <2>7. CASE i \in n + 1 .. Len(b)
    BY <2>4, <2>7
  <2> QED BY <2>1, <2>6, <2>7
<1>8. s \in Seq(Nat) /\ Len(s) = Len(b) /\ \A i \in 1 .. Len(b) : s[i] = SoldFrom(i)
  <2>1. s \in [1 .. Len(b) -> Nat]
    BY <1>7
  <2>2. s \in Seq(Nat)
    BY <1>1, <2>1, SeqDef
  <2>3. DOMAIN s = 1 .. Len(b)
    OBVIOUS
  <2>4. Len(s) = Len(b)
    BY <1>1, <2>2, <2>3, LenProperties
  <2> QED BY <2>2, <2>4
<1> HIDE DEF s
<1>9. Sums(s)[n - 1] = Sums(b)[n - 1]
  <2>1. n - 1 \in Nat /\ n - 1 <= Len(s) /\ n - 1 <= Len(b) /\ n - 1 \in 0 .. n - 1
    BY <1>1, <1>8
  <2>2. \A i \in 1 .. n - 1 : i \in 1 .. n /\ i \in 1 .. Len(b)
    BY <1>1
  <2>3. \A i \in 1 .. n - 1 : s[i] = b[i]
    BY <1>1, <1>5, <1>8, <2>2
  <2> QED BY <1>8, <2>1, <2>3, SumsAgree
<1>10. Sums(s)[n] = AmountToSell
  <2>1. n \in 1 .. Len(s) /\ n \in 1 .. n
    BY <1>1, <1>8
  <2>2. Sums(s)[n] = Sums(s)[n - 1] + s[n] /\ s[n] = list[n].amount
    BY <1>1, <1>5, <1>8, <2>1, SumsFacts
  <2> QED BY <1>1, <1>9, <2>2
<1>11. Sums(s)[Len(b)] = AmountToSell
  <2>1. n \in 0 .. Len(s) /\ \A i \in n + 1 .. Len(s) : s[i] = 0
    <3>1. \A i \in n + 1 .. Len(b) : i \in 1 .. Len(b)
      BY <1>1
    <3> QED BY SMTT(30), <1>1, <1>6, <1>8, <3>1
  <2> QED BY <1>8, <1>10, <2>1, SumsStay
<1>12. ASSUME NEW t \in ToSet(txs), t.wallet > 1
       PROVE  Sums(s)[t.wallet - 1] < Sums(s)[Len(b)]
  <2>1. PICK j \in 1 .. n : t = list[j] /\ t.wallet = j
    <3>1. \A i \in 1 .. n : list[i].wallet = i
      BY <1>1 DEF IsSale
    <3>2. PICK j \in 1 .. n : t = list[j]
      BY <1>3
    <3> QED BY <3>1, <3>2
  <2>2. j - 1 \in 0 .. Len(s) /\ n - 1 \in 0 .. Len(s) /\ j - 1 <= n - 1
    BY <1>1, <1>8
  <2>3. PICK x, y \in Nat : x = Sums(s)[j - 1] /\ y = Sums(s)[n - 1]
    BY <1>8, <2>2, SumsFacts
  <2>4. PICK z \in Nat : z = list[n].amount /\ z > 0
    BY <1>1 DEF IsSale
  <2>5. Sums(s)[Len(b)] = y + z
    BY <1>1, <1>9, <1>11, <2>3, <2>4
  <2>6. x <= y
    <3>1. Sums(s)[j - 1] <= Sums(s)[n - 1]
      BY <1>8, <2>2, SumsGrow
    <3> QED BY <2>3, <3>1
  <2>7. z > 0
    BY <2>4
  <2>8. x < y + z
    BY <2>6, <2>7
  <2> QED BY <2>1, <2>3, <2>5, <2>8
<1>13. LET sales == ToSet(txs)
       IN  /\ \A t \in sales : t.wallet \in DOMAIN balances /\ t.amount <= balances[t.wallet]
           /\ Cardinality({ t.nonce : t \in sales }) = Cardinality(sales)
           /\ Len(txs) = Cardinality(sales) * c
           /\ Cardinality(sales) \in Nat
  BY <1>1, <1>3
<1>14. txs # << >>
  <2>1. n * c # 0
    BY <1>2
  <2> QED BY <1>3, <2>1, EmptySeq
<1>15. LET sold == Sums([i \in 1 .. Len(balances) |-> SoldFrom(i)])
       IN  /\ sold[Len(balances)] = (percentage * Total) \div 100
           /\ \A t \in ToSet(txs) :
                t.wallet > 1 => sold[t.wallet - 1] < sold[Len(balances)]
  BY <1>4, <1>11, <1>12 DEF s
<1> QED BY <1>13, <1>14, <1>15

(* For any contract, balances, percentage and widths, as long as nothing   *)
(* panics: the distinct sales of a partial order add up to the share that  *)
(* was asked for, each within its wallet and with a nonce of its own, and  *)
(* there are none only if the share is less than one or overflows.  And    *)
(* the loop panics only for the three reasons named.                       *)
THEOREM SaleIsAsAsked == SaleSpec => []SoldAsAsked
<1>1. SaleInv => SoldAsAsked
  <2> SUFFICES ASSUME SaleInv PROVE SoldAsAsked
    OBVIOUS
  <2>1. balances \in Seq(Nat) /\ percentage \in Nat
    BY DEF SaleInv
  <2>2. cause = "sale" =>
          \/ percentage > 100
          \/ \E n \in DOMAIN balances : balances[n] > MaxAmount
          \/ Len(balances) > MaxByte
    BY DEF SaleInv, SaleIsTooLarge
  <2>3. ASSUME step = "priced", Planned
        PROVE  \E list : \E n \in Nat \ {0} :
                 Complete(balances, AmountToSell, list, n) /\ Repeats(txs, list, n, 1)
    <3>1. PICK S : txs \in Seq(S)
      BY <2>3 DEF Planned
    <3>2. PICK n : n = Len(txs)
      OBVIOUS
    <3>3. Complete(balances, AmountToSell, txs, n)
      BY <2>3, <3>2 DEF Planned
    <3>4. n \in Nat \ {0} /\ DOMAIN txs = 1 .. n /\ n * 1 = n
      <4>1. n \in Nat /\ DOMAIN txs = 1 .. n
        BY <3>1, <3>2, LenProperties
      <4>2. n # 0
        BY <3>3 DEF Complete
      <4> QED BY <4>1, <4>2
    <3>5. \A k \in 1 .. n : ((k - 1) \div 1) + 1 = k
      OBVIOUS
    <3>6. txs = [k \in 1 .. n |-> txs[k]]
      BY <3>1, <3>4
    <3>7. Repeats(txs, txs, n, 1)
      BY <3>4, <3>5, <3>6 DEF Repeats
    <3> QED BY <3>3, <3>4, <3>7
  <2>4. ASSUME step \in {"priced", "sent"}, Partial
        PROVE  \E list : \E n \in Nat \ {0} : \E c \in {1, n} :
                 /\ Complete(balances, AmountToSell, list, n) /\ Repeats(txs, list, n, c)
                 /\ step = "priced" => c = 1
    <3>1. txs # << >> /\ txs[1].wallet # 0
      BY <2>4 DEF Partial
    <3>2. CASE step = "sent"
      BY <3>1, <3>2 DEF SaleInv, Nothing, Estimated
    <3>3. CASE step = "priced"
      <4>1. Planned
        BY <3>1, <3>3 DEF SaleInv, Nothing, Full
      <4> QED BY <2>3, <3>3, <4>1
    <3> QED BY <2>4, <3>2, <3>3
  <2>5. SalesAreApart
    <3> SUFFICES ASSUME step \in {"priced", "sent"}, Partial
                 PROVE  LET sales == ToSet(txs)
                        IN  /\ \A t \in sales :
                                 t.wallet \in DOMAIN balances /\ t.amount <= balances[t.wallet]
                            /\ Cardinality({ t.nonce : t \in sales }) = Cardinality(sales)
                            /\ step = "priced" => Len(txs) = Cardinality(sales)
      BY DEF SalesAreApart
    <3>1. PICK list : \E n \in Nat \ {0} : \E c \in {1, n} :
            /\ Complete(balances, AmountToSell, list, n) /\ Repeats(txs, list, n, c)
            /\ step = "priced" => c = 1
      BY <2>4
    <3>2. PICK n \in Nat \ {0} : \E c \in {1, n} :
            /\ Complete(balances, AmountToSell, list, n) /\ Repeats(txs, list, n, c)
            /\ step = "priced" => c = 1
      BY <3>1
    <3>3. PICK c \in {1, n} :
            /\ Complete(balances, AmountToSell, list, n) /\ Repeats(txs, list, n, c)
            /\ step = "priced" => c = 1
      BY <3>2
    <3>4. LET sales == ToSet(txs)
          IN  /\ \A t \in sales : t.wallet \in DOMAIN balances /\ t.amount <= balances[t.wallet]
              /\ Cardinality({ t.nonce : t \in sales }) = Cardinality(sales)
              /\ Len(txs) = Cardinality(sales) * c
              /\ Cardinality(sales) \in Nat
      BY <2>1, <3>3, OrderIsAsAsked
    <3> QED BY <3>3, <3>4
  <2>6. ASSUME step \in {"priced", "sent"}, Partial
        PROVE  LET sold == Sums([i \in 1 .. Len(balances) |-> SoldFrom(i)])
               IN  /\ sold[Len(balances)] = (percentage * Total) \div 100
                   /\ \A t \in ToSet(txs) :
                        t.wallet > 1 => sold[t.wallet - 1] < sold[Len(balances)]
    BY <2>1, <2>4, <2>6, OrderIsAsAsked
  <2>7. ASSUME step \in {"priced", "sent"}, txs = << >>
        PROVE  percentage * Total < 100 \/ percentage * Total > MaxWord
    <3>1. ~ Full
      BY <2>7, EmptySeq DEF Full
    <3>2. ~ (step = "priced" /\ Planned)
      BY <2>1, <2>3, <2>7, OrderIsAsAsked
    <3>3. ~ Estimated
      BY <2>1, <2>7, OrderIsAsAsked DEF Estimated
    <3>4. AmountToSell = 0
      BY <2>7, <3>1, <3>2, <3>3 DEF SaleInv, Nothing
    <3> QED BY <2>1, <3>4, AmountFacts
  <2> QED BY <2>2, <2>5, <2>6, <2>7 DEF SoldAsAsked
<1>2. SaleSpec => []SaleInv
  BY SaleStarts, SaleStep, PTL DEF SaleSpec
<1> QED BY <1>1, <1>2, PTL

-----------------------------------------------------------------------------
(* New pools: PairSearch.                                                  *)

(* The first pair that a factory gets is one of this token's.              *)
IsFirst(f, token) ==
  diffs[f].length = "changed" /\ token \in diffs[f].pairs[1]

(* The rounds of both loops that are over.                                 *)
Visited(i, f) == i < at_token \/ (i = at_token /\ f < at_factory)

SearchInv ==
  /\ searching \in {"yes", "some", "none"}
  /\ diffs \in [DOMAIN Factories -> FactoryDiffs]
  /\ at_token \in Nat \ {0} /\ at_factory \in DOMAIN Factories
  /\ DOMAIN pools_created = WatchedTokens
  /\ \A t \in WatchedTokens : pools_created[t] = NoPool \/ pools_created[t] \in CreatedFor(t)
  /\ \A t \in WatchedTokens : pools_created[t] # NoPool => pools_created[t].pair = 1
  /\ \A i \in DOMAIN Watched, f \in DOMAIN Factories :
       Visited(i, f) /\ IsFirst(f, Watched[i]) =>
         pools_created[Watched[i]] # NoPool /\ f <= pools_created[Watched[i]].factory
  /\ \A i \in DOMAIN Watched, f \in DOMAIN Factories :
       Visited(i, f) => diffs[f].length # "absent"
  /\ searching = "some" => at_token > Len(Watched)
  /\ searching = "none" => \E f \in DOMAIN Factories : diffs[f].length = "absent"

(* Tokens and factories are lists, and there is a factory.                 *)
LEMMA ListFacts ==
  /\ Len(Watched) \in Nat /\ DOMAIN Watched = 1 .. Len(Watched)
  /\ Len(Factories) \in Nat \ {0} /\ DOMAIN Factories = 1 .. Len(Factories)
  /\ 1 \in DOMAIN Factories
<1>1. /\ Len(Watched) \in Nat /\ DOMAIN Watched = 1 .. Len(Watched)
      /\ Len(Factories) \in Nat /\ DOMAIN Factories = 1 .. Len(Factories)
  BY PairSearchAssumption, LenProperties
<1>2. Len(Factories) # 0
  BY PairSearchAssumption, EmptySeq
<1> QED BY <1>1, <1>2

(* A factory that gets pairs gets at least one.                            *)
LEMMA DiffFacts ==
  ASSUME NEW f \in DOMAIN Factories, diffs \in [DOMAIN Factories -> FactoryDiffs]
  PROVE  /\ diffs[f].length = "changed" =>
              /\ 1 \in DOMAIN diffs[f].pairs
              /\ 1 \in 1 .. MaxCreated
         /\ diffs[f].length # "changed" => diffs[f].pairs = << >>
         /\ diffs[f].length \in {"untouched", "absent", "born", "changed"}
<1>1. diffs[f] \in FactoryDiffs
  OBVIOUS
<1>2. ASSUME diffs[f].length = "changed"
      PROVE  1 \in DOMAIN diffs[f].pairs /\ 1 \in 1 .. MaxCreated
  <2>1. diffs[f].pairs \in Created
    BY <1>1, <1>2 DEF FactoryDiffs
  <2>2. PICK n \in 1 .. MaxCreated : diffs[f].pairs \in [1 .. n -> Pairs]
    BY <2>1 DEF Created
  <2> QED BY <2>2, PairSearchAssumption
<1> QED BY <1>1, <1>2 DEF FactoryDiffs

(* The loops go on to the next factory, or to the next token's first.      *)
LEMMA LoopFacts ==
  ASSUME SearchInv, Continue
  PROVE  /\ at_token' \in Nat \ {0} /\ at_factory' \in DOMAIN Factories
         /\ \A i \in DOMAIN Watched, f \in DOMAIN Factories :
              Visited(i, f)' => Visited(i, f) \/ (i = at_token /\ f = at_factory)
  BY ListFacts DEF SearchInv, Continue, Visited

(* Every round of the loops keeps the search's invariant.                  *)
LEMMA SearchNext == SearchInv /\ [PairNext]_pair_vars => SearchInv'
<1> SUFFICES ASSUME SearchInv, [PairNext]_pair_vars PROVE SearchInv'
  OBVIOUS
<1> USE DEF SearchInv
<1>1. CASE UNCHANGED pair_vars
  BY <1>1 DEF pair_vars, Visited, IsFirst, CreatedFor
<1>2. ASSUME UNCHANGED diffs
      PROVE  /\ \A t : CreatedFor(t)' = CreatedFor(t)
             /\ \A f, t : IsFirst(f, t)' <=> IsFirst(f, t)
  BY <1>2 DEF CreatedFor, IsFirst
<1>3. CASE PassFactory
  <2>1. Continue /\ UNCHANGED << searching, diffs, pools_created >> /\ searching = "yes"
    BY <1>3 DEF PassFactory, Looking
  <2>2. (\A t : ~ IsFirst(at_factory, t)) /\ diffs[at_factory].length # "absent"
    BY <1>3 DEF PassFactory, Looking, IsFirst
  <2> QED BY SMTT(30), <1>2, <2>1, <2>2, LoopFacts
<1>4. CASE LengthAbsent
  <2>1. /\ searching' = "none" /\ UNCHANGED << diffs, at_token, at_factory, pools_created >>
        /\ diffs[at_factory].length = "absent"
    BY <1>4 DEF LengthAbsent, Looking
  <2> QED BY <1>2, <2>1 DEF Visited
<1>5. CASE ReadPair
  <2> DEFINE t    == Watched[at_token]
             pool == [factory |-> at_factory, pair |-> 1]
  <2>1. /\ Continue /\ UNCHANGED << searching, diffs >> /\ searching = "yes"
        /\ diffs[at_factory].length = "changed"
        /\ at_token <= Len(Watched)
        /\ pools_created' = IF t \in diffs[at_factory].pairs[1]
                            THEN [pools_created EXCEPT ![t] = pool]
                            ELSE pools_created
    BY <1>5 DEF ReadPair, Looking, IsOfToken, FoundPair
  <2>2. 1 \in DOMAIN diffs[at_factory].pairs /\ 1 \in 1 .. MaxCreated
    BY <2>1, DiffFacts
  <2>3. pool # NoPool
    BY DEF NoPool
  <2>4. t \in diffs[at_factory].pairs[1] => pool \in CreatedFor(t)
    BY <2>2 DEF CreatedFor
  <2>5. /\ DOMAIN pools_created' = WatchedTokens
        /\ \A u \in WatchedTokens :
             pools_created'[u] = NoPool \/ pools_created'[u] \in CreatedFor(u)
        /\ \A u \in WatchedTokens : pools_created'[u] # NoPool => pools_created'[u].pair = 1
        /\ \A u \in WatchedTokens :
             \/ pools_created'[u] = pools_created[u]
             \/ u = t /\ pools_created'[u] = pool
        /\ t \in diffs[at_factory].pairs[1] => pools_created'[t] = pool
    <3>1. at_token \in DOMAIN Watched
      BY <2>1, ListFacts
    <3>2. t \in WatchedTokens
      BY <3>1 DEF WatchedTokens
    <3> QED BY SMTT(30), <2>1, <2>3, <2>4, <3>2
  <2>6. \A f \in DOMAIN Factories : \A i \in DOMAIN Watched :
          /\ Visited(i, f)' /\ IsFirst(f, Watched[i])
          => pools_created'[Watched[i]] # NoPool /\ f <= pools_created'[Watched[i]].factory
    <3> SUFFICES ASSUME NEW f \in DOMAIN Factories, NEW i \in DOMAIN Watched,
                        Visited(i, f)', IsFirst(f, Watched[i])
                 PROVE  /\ pools_created'[Watched[i]] # NoPool
                        /\ f <= pools_created'[Watched[i]].factory
      OBVIOUS
    <3>1. Watched[i] \in WatchedTokens
      BY DEF WatchedTokens
    <3>2. CASE Visited(i, f)
      <4>1. pools_created[Watched[i]] # NoPool /\ f <= pools_created[Watched[i]].factory
        BY <3>2
      <4>2. CASE pools_created'[Watched[i]] = pools_created[Watched[i]]
        BY <4>1, <4>2
      <4>3. CASE Watched[i] = t /\ pools_created'[Watched[i]] = pool
        <5>1. i = at_token
          <6>1. at_token \in DOMAIN Watched /\ Watched[i] = Watched[at_token]
            BY <2>1, <4>3, ListFacts
          <6> QED BY <6>1, PairSearchAssumption
        <5>2. f <= at_factory
          BY <3>2, <5>1, ListFacts DEF Visited
        <5> QED BY <2>3, <4>3, <5>2
      <4> QED BY <2>5, <3>1, <4>2, <4>3
    <3>3. CASE i = at_token /\ f = at_factory
      <4>1. pools_created'[Watched[i]] = pool
        BY <2>5, <3>3 DEF IsFirst
      <4>2. pool.factory = f /\ f <= f
        BY <3>3, ListFacts
      <4> QED BY <2>3, <4>1, <4>2
    <3> QED BY <2>1, <3>2, <3>3, LoopFacts
  <2> QED BY SMTT(30), <1>2, <2>1, <2>5, <2>6, LoopFacts
<1>6. CASE ReturnPools
  <2>1. /\ searching' = "some" /\ UNCHANGED << diffs, at_token, at_factory, pools_created >>
        /\ at_token > Len(Watched)
    BY <1>6 DEF ReturnPools
  <2> QED BY <1>2, <2>1 DEF Visited
<1> QED BY <1>1, <1>3, <1>4, <1>5, <1>6 DEF PairNext

(* For any tokens, factories and number of pairs that a transaction        *)
(* creates: a search that returns pools gives each watched token the first *)
(* new pair of the last factory whose first new pair is the token's, and   *)
(* no pool if there is no such factory; it returns no pools only if some   *)
(* factory was touched and got no pair, and always if a token is watched.  *)
THEOREM FoundPairsAreRight == PairSpec => []PairsAreRight
<1>1. PairInit => SearchInv
  BY ListFacts DEF PairInit, SearchInv, Visited
<1>2. SearchInv => PairsAreRight
  <2> SUFFICES ASSUME SearchInv PROVE PairsAreRight
    OBVIOUS
  <2>1. ASSUME searching = "some", NEW t \in WatchedTokens,
               NEW p \in CreatedFor(t), p.pair = 1
        PROVE  pools_created[t] # NoPool /\ p.factory <= pools_created[t].factory
    <3>1. PICK i \in DOMAIN Watched : t = Watched[i]
      BY DEF WatchedTokens
    <3>2. /\ p.factory \in DOMAIN Factories
          /\ 1 \in DOMAIN diffs[p.factory].pairs
          /\ t \in diffs[p.factory].pairs[1]
      BY <2>1 DEF CreatedFor
    <3>3. diffs[p.factory].length = "changed"
      BY <3>2, DiffFacts DEF SearchInv
    <3>4. Visited(i, p.factory)
      BY <2>1, ListFacts DEF SearchInv, Visited
    <3> QED BY <3>1, <3>2, <3>3, <3>4 DEF SearchInv, IsFirst
  <2>2. ASSUME searching = "some", Watched # << >>, NEW f \in DOMAIN Factories
        PROVE  diffs[f].length # "absent"
    <3>1. 1 \in DOMAIN Watched
      <4>1. Len(Watched) # 0
        BY <2>2, PairSearchAssumption, EmptySeq
      <4> QED BY <4>1, ListFacts
    <3>2. Visited(1, f)
      BY <2>2, <3>1, ListFacts DEF SearchInv, Visited
    <3> QED BY <3>1, <3>2 DEF SearchInv
  <2> QED BY <2>1, <2>2 DEF PairsAreRight, SearchInv
<1> QED BY <1>1, <1>2, SearchNext, PTL DEF PairSpec

=============================================================================
