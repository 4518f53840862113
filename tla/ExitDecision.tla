---------------------------- MODULE ExitDecision ----------------------------
(***************************************************************************)
(* Whether a trader sells in front of a transaction.  The simulator tests  *)
(* the trader's sale before and after the transaction (simulate_sell), the *)
(* event made of both says whether the token is a honeypot (event.rs), and *)
(* the portfolio makes an order if the sale is worth its gas               *)
(* (generate_exit_order in portfolio.rs).                                  *)
(*                                                                         *)
(* What the EVM would answer is in truth; a fault of the provider hides it *)
(* from either test.                                                       *)
(***************************************************************************)
EXTENDS Integers

CONSTANTS
  Amounts,          (* What a sale may bring.                              *)
  GasPrices         (* What its gas may cost.                              *)

ASSUME ExitDecisionAssumption ==
  /\ Amounts \subseteq Nat
  /\ GasPrices \subseteq Nat

VARIABLES
  stage,            (* idle, untested, tested, decided.                    *)
  truth,            (* What the sales would bring, and the provider's      *)
                    (* faults.                                             *)
  state,            (* What the event knows of SimulationState.            *)
  armed,            (* The trader has a position and anti_rug set.         *)
  tested,           (* SellSimulationResult                                *)
  exit_order        (* The order: the transaction in front of which the    *)
                    (* trader sells.                                       *)

exit_vars == << stage, truth, state, armed, tested, exit_order >>

-----------------------------------------------------------------------------

(* The sale reverts, halts or cannot be run.                               *)
Fails == -1

Sales == Amounts \cup {Fails}

(* Only a simulation that was not reverted, of a pair with a sane share of *)
(* the supply, makes a launch.                                             *)
States ==
  [kind : {"closed"}]
    \cup [kind : {"launch"}, liquid : {TRUE}, error : {FALSE},
          max_tx_zero : BOOLEAN, over_taxes : BOOLEAN]
    \cup [kind : {"changed"}, liquid : BOOLEAN, error : BOOLEAN,
          max_tx_zero : BOOLEAN, over_taxes : BOOLEAN]

Untested == [error |-> FALSE, gas_used |-> 0, change |-> 0]
NoTest   == [frontrun |-> Untested, backrun |-> Untested]

ExitInit ==
  /\ stage = "untested"
  /\ truth \in [before : Sales, after : Sales, gas_price : GasPrices,
                faults : SUBSET {"before", "after"}]
  /\ state \in States
  /\ armed \in BOOLEAN
  /\ tested = NoTest
  /\ exit_order = << >>

ExitIdle ==
  /\ stage = "idle"
  /\ truth = [before |-> 0, after |-> 0, gas_price |-> 0, faults |-> {}]
  /\ state = [kind |-> "closed"]
  /\ armed = FALSE
  /\ tested = NoTest
  /\ exit_order = << >>

-----------------------------------------------------------------------------
(* The simulator.                                                          *)

(* simulate_profit: the sale alone, and simulate_rug: the sale behind the  *)
(* transaction.  Either ends at the first call that fails, for whatever    *)
(* reason, and gives what the contract has gained otherwise.               *)
SimulateProfit == IF "before" \in truth.faults THEN Fails ELSE truth.before
SimulateRug    == IF "after" \in truth.faults THEN Fails ELSE truth.after

(* SellBalanceChange::from: an error leaves the amounts at zero.           *)
BalanceChange(sale) ==
  IF sale = Fails
  THEN [error |-> TRUE, gas_used |-> 0, change |-> 0]
  ELSE [error |-> FALSE, gas_used |-> 1, change |-> sale]

SimulateSell ==
  /\ stage = "untested"
  /\ tested' = [frontrun |-> BalanceChange(SimulateProfit),
                backrun |-> BalanceChange(SimulateRug)]
  /\ stage' = "tested"
  /\ UNCHANGED << truth, state, armed, exit_order >>

(* SellBalanceChange::is_sell_failed                                       *)
ChangeFailed(balance_change) == balance_change.error \/ balance_change.change = 0

HasError == state.kind # "closed" /\ state.error

(* Only a sale that the transaction makes impossible counts.               *)
IsSellFailed ==
  \/ ~ ChangeFailed(tested.frontrun) /\ ChangeFailed(tested.backrun)
  \/ HasError

(* Mutant of IsSellPriceImpactTooBig: the two sales are mixed up.          *)
IsSellPriceGainTooBig ==
  /\ tested.backrun.change > 0
  /\ 100 * tested.frontrun.change < 40 * tested.backrun.change

(* A quotient of two zeros, or by zero, is not below 40.                   *)
IsSellPriceImpactTooBig ==
  /\ tested.frontrun.change > 0
  /\ 100 * tested.backrun.change < 40 * tested.frontrun.change

(* A closed token has a liquidity of zero and no limit on transactions.    *)
IsLiquidityManipulated == state.kind = "closed" \/ ~ state.liquid

IsMaxTxZero == state.kind # "closed" /\ state.max_tx_zero

IsOverTaxLimits == state.kind # "closed" /\ state.over_taxes

IsHoneypot ==
  \/ IsMaxTxZero
  \/ IsLiquidityManipulated
  \/ IsSellFailed
  \/ IsSellPriceImpactTooBig

-----------------------------------------------------------------------------
(* The trader's portfolio.                                                 *)

SellTransactionCost == tested.frontrun.gas_used * truth.gas_price

(* get_tx: a launch keeps its own transaction, whatever is simulated       *)
(* behind it; a change has the simulated one, a closed token none.         *)
StateTx ==
  CASE state.kind = "closed"  -> "none"
    [] state.kind = "launch"  -> "launch"
    [] state.kind = "changed" -> "simulated"

GenerateExitOrder ==
  /\ stage = "tested"
  /\ exit_order' =
       IF /\ armed
          /\ IsHoneypot \/ IsOverTaxLimits
          /\ SellTransactionCost < tested.frontrun.change
       THEN << StateTx >>
       ELSE << >>
  /\ stage' = "decided"
  /\ UNCHANGED << truth, state, armed, tested >>

ExitNext == SimulateSell \/ GenerateExitOrder

ExitSpec == ExitInit /\ [][ExitNext]_exit_vars

-----------------------------------------------------------------------------

(* What the sale brings beyond its gas.                                    *)
Worth == truth.before > truth.gas_price

(* After the transaction the sale fails or brings less than two fifths.    *)
Trap == 100 * truth.after < 40 * truth.before

Healthy ==
  /\ state.kind # "closed"
  /\ state.liquid /\ ~ state.max_tx_zero /\ ~ state.error /\ ~ state.over_taxes

(* No exit costs more than it brings, whatever fails; without faults every *)
(* trap that is worth escaping is escaped, and a position in a healthy     *)
(* token is kept.  (With a fault of the second test only, a healthy token  *)
(* looks like a trap and is sold.)                                         *)
ExitIsWorthIt ==
  stage = "decided" =>
    /\ exit_order # << >> => Worth
    /\ armed /\ truth.faults = {} /\ Worth /\ Trap => exit_order # << >>
    /\ truth.faults = {} /\ Healthy /\ ~ Trap => exit_order = << >>

=============================================================================
