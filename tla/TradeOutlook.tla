---------------------------- MODULE TradeOutlook ----------------------------
(***************************************************************************)
(* From simulated trades to an entry order.  simulate_token_trade buys and *)
(* sells a token in each of the next blocks; From<Vec<SimulationData>> and *)
(* buy_valid, sell_valid (simulation/mod.rs) read the outcomes; the        *)
(* simulator makes its state of them (simulator.rs), which it publishes;   *)
(* a trader without a position makes an order of what is published         *)
(* (generate_order_from_simulation_event in portfolio.rs).                 *)
(***************************************************************************)
EXTENDS Naturals, FiniteSetsExt

CONSTANTS
  Horizon,          (* Blocks a trade is simulated in (10 in the code).    *)
  LastBlock,        (* Bound: blocks that are simulated for.               *)
  TaxLimits         (* The limits a profile may set, in percent.           *)

ASSUME TradeOutlookAssumption ==
  /\ Horizon \in Nat \ {0}
  /\ LastBlock \in Nat \ {0}
  /\ TaxLimits \subseteq 0 .. 99

VARIABLES
  next_block,       (* The block that is simulated for; 0 when idle.       *)
  outlook,          (* SimulationState of the simulator.                   *)
  asked,            (* The copy an entry check was given, and its block.   *)
  news              (* The published event a trader has not seen yet.      *)

outlook_vars == << next_block, outlook, asked, news >>

-----------------------------------------------------------------------------

(* The trade in one block; the taxes are 100 until they are measured.      *)
Trade(reverts, buy_tax, sell_tax) ==
  [reverts |-> reverts, buy_tax |-> buy_tax, sell_tax |-> sell_tax]

Outcomes ==
  { Trade(TRUE, 100, 100),     (* The purchase reverts.                    *)
    Trade(TRUE, 5, 100),       (* The sale reverts.                        *)
    Trade(FALSE, 5, 100),      (* The sale returns nothing.                *)
    Trade(FALSE, 5, 95), Trade(FALSE, 93, 5), Trade(FALSE, 5, 5) }

(* What the trades of one simulation came to, and whether the share of the *)
(* supply in the pair is a sane one.                                       *)
Simulations(block) ==
  [block : {block}, trades : [1 .. Horizon -> Outcomes], liquid : BOOLEAN]

(* SimulationData::is_failed                                               *)
IsFailed(trade) ==
  trade.reverts \/ trade.buy_tax > 90 \/ trade.sell_tax > 90

(* buy_fee and sell_fee: the highest of all blocks.                        *)
BuyFee(sim)  == Max({ sim.trades[i].buy_tax : i \in 1 .. Horizon })
SellFee(sim) == Max({ sim.trades[i].sell_tax : i \in 1 .. Horizon })

ValidBlocks(sim) == { i \in 1 .. Horizon : ~ IsFailed(sim.trades[i]) }

(* Mutant of LaunchBlock: the last valid block.                            *)
LastValidBlock(sim) ==
  IF ValidBlocks(sim) = {} THEN sim.block
  ELSE sim.block + Max(ValidBlocks(sim)) - 1

(* first_valid_block.unwrap_or(block)                                      *)
LaunchBlock(sim) ==
  IF ValidBlocks(sim) = {} THEN sim.block
  ELSE sim.block + Min(ValidBlocks(sim)) - 1

(* The error of the first valid block, which has none, or of the first.    *)
IsReverted(sim) == ValidBlocks(sim) = {} /\ sim.trades[1].reverts

BuyValid(sim)  == BuyFee(sim) < 90 /\ ~ IsReverted(sim) /\ sim.liquid
SellValid(sim) == SellFee(sim) <= 99 /\ ~ IsReverted(sim)

-----------------------------------------------------------------------------
(* The simulator.                                                          *)

Closed == [kind |-> "closed"]

(* What a Changed state holds is never published again: the simulator      *)
(* only publishes the simulation that replaces it.                         *)
WasChanged == [kind |-> "changed"]

Launch(sim)  == [kind |-> "launch", sim |-> sim]
Changed(sim) == [kind |-> "changed", sim |-> sim]

OutlookInit ==
  /\ next_block = 1
  /\ outlook = Closed
  /\ asked = << >>
  /\ news = << >>

OutlookIdle ==
  /\ next_block = 0
  /\ outlook = Closed
  /\ asked = << >>
  /\ news = << >>

(* generate_state                                                          *)
NextOutlook(state, sim) ==
  CASE state.kind = "closed" ->
         IF BuyValid(sim) /\ SellValid(sim) THEN Launch(sim) ELSE Closed
    [] state.kind = "changed" -> Changed(sim)
    [] state.kind = "launch" -> state

Publish(state, block) == news' = << [state |-> state, block |-> block] >>

Kept(state) == IF state.kind = "changed" THEN WasChanged ELSE state

Mined ==
  /\ next_block \in 1 .. LastBlock - 1
  /\ next_block' = next_block + 1
  /\ UNCHANGED << outlook, asked, news >>

(* A pending transaction, for the block that was next when it was sent to  *)
(* the simulator: the new state is kept and published.                     *)
SimulateTransaction(sim) ==
  /\ outlook' = Kept(NextOutlook(outlook, sim))
  /\ Publish(NextOutlook(outlook, sim), sim.block)

(* A block: the launch may have been mined in it.  What is simulated then  *)
(* is not kept, and published unless the token is open already.            *)
SimulateBlock(sim) ==
  /\ \/ UNCHANGED outlook
     \/ outlook.kind = "launch" /\ outlook' = WasChanged
  /\ IF outlook'.kind = "changed"
     THEN UNCHANGED news
     ELSE Publish(NextOutlook(outlook', sim), sim.block)

Simulate ==
  /\ next_block > 0
  /\ news = << >>
  /\ \/ \E block \in 1 .. next_block : \E sim \in Simulations(block) :
          SimulateTransaction(sim)
     \/ \E sim \in Simulations(next_block) : SimulateBlock(sim)
  /\ UNCHANGED << next_block, asked >>

(* A trader's entry check gets a copy of the state and runs beside the     *)
(* simulator.                                                              *)
AskEntryCheck ==
  /\ next_block > 0
  /\ asked = << >>
  /\ asked' = << [state |-> outlook, block |-> next_block] >>
  /\ UNCHANGED << next_block, outlook, news >>

(* Its simulation is not kept, and a launch, old or new, is answered as a  *)
(* change, because the transaction behind it is not known.                 *)
AnswerEntryCheck ==
  /\ asked # << >>
  /\ news = << >>
  /\ \E sim \in Simulations(asked[1].block) :
       LET state == NextOutlook(asked[1].state, sim)
       IN  Publish(IF state.kind = "launch" THEN Changed(state.sim) ELSE state,
                   asked[1].block)
  /\ asked' = << >>
  /\ UNCHANGED << next_block, outlook >>

TraderTakes ==
  /\ news # << >>
  /\ news' = << >>
  /\ UNCHANGED << next_block, outlook, asked >>

OutlookNext ==
  Mined \/ Simulate \/ AskEntryCheck \/ AnswerEntryCheck \/ TraderTakes

OutlookSpec == OutlookInit /\ [][OutlookNext]_outlook_vars

-----------------------------------------------------------------------------
(* The trader's portfolio.                                                 *)

NoTaxLimit == 100

WithinTaxes(sim, limit) == BuyFee(sim) <= limit /\ SellFee(sim) <= limit

(* Without taxes in the profile every Launch and every Changed is bought.  *)
Orders(event, limit) ==
  /\ event.state.kind \in {"launch", "changed"}
  /\ limit = NoTaxLimit \/ WithinTaxes(event.state.sim, limit)

TargetBlock(event) ==
  IF event.state.kind = "launch" THEN LaunchBlock(event.state.sim) ELSE event.block

(* What an order is made from was simulated for its block.  A launch that  *)
(* stays is older at last, and an entry check answers with it as a change. *)
IsFresh(event) == event.block < event.state.sim.block + Horizon

(* An order for a launch, or of a trader with tax limits, is for a block   *)
(* in which the simulated trade went through both ways and cost no more    *)
(* than the limits, however many simulations, blocks and entry checks lie  *)
(* between; a launch order waits for no block that is worse than one it    *)
(* passes over.  (A change without limits in the profile is bought unseen: *)
(* nobody asks buy_valid and sell_valid of SimulationState.)               *)
TargetIsTradable ==
  \A event \in { news[i] : i \in DOMAIN news }, limit \in TaxLimits \cup {NoTaxLimit} :
    /\ Orders(event, limit)
    /\ event.state.kind = "launch" \/ (limit < NoTaxLimit /\ IsFresh(event))
    =>
      LET sim == event.state.sim
          i   == TargetBlock(event) - sim.block + 1
      IN  /\ i \in 1 .. Horizon
          /\ ~ sim.trades[i].reverts
          /\ sim.trades[i].buy_tax <= limit /\ sim.trades[i].sell_tax <= limit
          /\ event.state.kind = "launch" =>
               /\ sim.trades[i].buy_tax < 90 /\ sim.trades[i].sell_tax < 100
               /\ \A j \in 1 .. i - 1 : IsFailed(sim.trades[j])

=============================================================================
