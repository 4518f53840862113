----------------------------- MODULE WalletSale -----------------------------
(***************************************************************************)
(* How a sale is spread over the wallets of a trader's contract            *)
(* (portfolio/builder.rs, utils/encode_packed.rs), and how the gas         *)
(* estimate puts its transactions back into the order (trader.rs).         *)
(***************************************************************************)
EXTENDS Naturals, SequencesExt, FiniteSets

CONSTANTS
  Wallets,          (* Numbers of wallets a contract may have.             *)
  Balances,         (* Tokens that may be in one wallet (words of 256 bit).*)
  Percentages,      (* Percentages to sell (a u8; a command sets it).      *)
  MaskBits,         (* Bits of the mask of wallets (16 in the code).       *)
  MaxWord,          (* The largest U256.                                   *)
  MaxAmount,        (* The largest u128: the amount in a payload.          *)
  MaxByte           (* The largest u8: the wallet number in a payload.     *)

ASSUME WalletSaleAssumption ==
  /\ Wallets \subseteq Nat
  /\ Balances \subseteq 0 .. MaxWord
  /\ Percentages \subseteq 0 .. 255
  /\ MaskBits \in Nat \ {0}
  /\ MaxWord \in Nat /\ MaxAmount \in Nat /\ MaxByte \in Nat

VARIABLES
  step,             (* idle, plan, sell, priced, sent, panic.              *)
  balances,         (* Chain: the tokens in each wallet, in order.         *)
  percentage,       (* sell_percentage                                     *)
  to_sell,          (* What is left to sell.                               *)
  txs,              (* The transactions of the order.                      *)
  mask,             (* The wallets a full sale names.                      *)
  cause             (* What panicked: provider, total, sale, mask.         *)

sale_vars == << step, balances, percentage, to_sell, txs, mask, cause >>

-----------------------------------------------------------------------------

SaleInit ==
  /\ step = "plan"
  /\ balances \in UNION { [1 .. n -> Balances] : n \in Wallets }
  /\ percentage \in Percentages
  /\ to_sell = 0
  /\ txs = << >>
  /\ mask = {}
  /\ cause = "none"

SaleIdle ==
  /\ step = "idle"
  /\ balances = << >>
  /\ percentage = 0 /\ to_sell = 0
  /\ txs = << >>
  /\ mask = {}
  /\ cause = "none"

(* The sums of the first members of a sequence of numbers.                 *)
Sums(s) ==
  LET sum[n \in 0 .. Len(s)] == IF n = 0 THEN 0 ELSE sum[n - 1] + s[n]
  IN  sum

(* total_balances                                                          *)
Total == Sums(balances)[Len(balances)]

(* Whatever panics takes the trader's task with it.                        *)
Panic(by) == step' = "panic" /\ cause' = by

-----------------------------------------------------------------------------
(* Both sales start with the client, the key, the nonce and the balances,  *)
(* all of them unwrapped.                                                  *)
SetupFails ==
  /\ step = "plan"
  /\ Panic("provider")
  /\ UNCHANGED << balances, percentage, to_sell, txs, mask >>

-----------------------------------------------------------------------------
(* A partial sale: generate_take_profit_transactions.                      *)

(* checked_mul, checked_div: nothing is sold when the product overflows.   *)
Share(product) == IF product > MaxWord THEN 0 ELSE product \div 100

(* Mutant of AmountToSell: the rest is rounded up.                         *)
AmountRoundedUp == Share(percentage * Total + 99)

AmountToSell == Share(percentage * Total)

PlanTakeProfit ==
  /\ step = "plan"
  /\ Total <= MaxWord
  /\ to_sell' = AmountToSell
  /\ step' = "sell"
  /\ UNCHANGED << balances, percentage, txs, mask, cause >>

(* The sum of the balances is not checked: U256 panics on overflow.        *)
TotalOverflows ==
  /\ step = "plan"
  /\ Total > MaxWord
  /\ Panic("total")
  /\ UNCHANGED << balances, percentage, to_sell, txs, mask >>

(* What is sold from wallet n when the loop comes to it.                   *)
AmountFrom(n) == IF balances[n] > to_sell THEN to_sell ELSE balances[n]

(* The index of the balances, as_u128 of the amount and the number of the  *)
(* wallet as a byte all panic when they do not fit.                        *)
Fits(n) ==
  /\ n \in DOMAIN balances
  /\ AmountFrom(n) <= MaxAmount
  /\ n <= MaxByte

(* One round of the loop.  Wallet numbers start at 1 in the payload; an    *)
(* empty wallet gets a transaction too.                                    *)
SellFromNextWallet ==
  /\ step = "sell"
  /\ to_sell > 0
  /\ LET n == Len(txs) + 1
     IN  /\ Fits(n)
         /\ txs' = Append(txs, [nonce |-> n, wallet |-> n, amount |-> AmountFrom(n)])
         /\ to_sell' = to_sell - AmountFrom(n)
  /\ UNCHANGED << step, balances, percentage, mask, cause >>

SaleDoesNotFit ==
  /\ step = "sell"
  /\ to_sell > 0
  /\ ~ Fits(Len(txs) + 1)
  /\ Panic("sale")
  /\ UNCHANGED << balances, percentage, to_sell, txs, mask >>

TakeProfitIsPlanned ==
  /\ step = "sell"
  /\ to_sell = 0
  /\ step' = "priced"
  /\ UNCHANGED << balances, percentage, to_sell, txs, mask, cause >>

-----------------------------------------------------------------------------
(* A full sale: generate_frontrun_transactions, one transaction for all.   *)

(* u8::try_from(index).unwrap_or_default(): wallets count from zero.       *)
IndexOf(wallet) == IF wallet - 1 > MaxByte THEN 0 ELSE wallet - 1

(* 1 << v of a u16 wraps in a release build.                               *)
Shift(wallet) == IndexOf(wallet) % MaskBits

Holders == { n \in DOMAIN balances : balances[n] > 0 }

(* In a build with overflow checks a shift beyond the mask panics.         *)
PlanForceExit ==
  /\ step = "plan"
  /\ \/ /\ mask' = { Shift(n) : n \in Holders }
        /\ txs' = << [nonce |-> 1, wallet |-> 0, amount |-> 0] >>
        /\ step' = "priced"
        /\ UNCHANGED cause
     \/ /\ \E n \in Holders : IndexOf(n) >= MaskBits
        /\ Panic("mask")
        /\ UNCHANGED << txs, mask >>
  /\ UNCHANGED << balances, percentage, to_sell >>

-----------------------------------------------------------------------------
(* The gas estimate, take_profit and force_exit_position of the trader.    *)

(* Each estimated transaction is paired with the signer of every one, and  *)
(* these are all the trader's own: each transaction is in the order once   *)
(* for each.                                                               *)
Paired == [k \in 1 .. Len(txs) * Len(txs) |-> txs[((k - 1) \div Len(txs)) + 1]]

(* Without an estimate the order is sent as it is.                         *)
EstimateGas ==
  /\ step = "priced"
  /\ \/ txs' = Paired
     \/ UNCHANGED txs
  /\ step' = "sent"
  /\ UNCHANGED << balances, percentage, to_sell, mask, cause >>

SaleNext ==
  \/ SetupFails
  \/ PlanTakeProfit \/ TotalOverflows
  \/ SellFromNextWallet \/ SaleDoesNotFit \/ TakeProfitIsPlanned
  \/ PlanForceExit
  \/ EstimateGas

SaleSpec == SaleInit /\ [][SaleNext]_sale_vars

-----------------------------------------------------------------------------

Partial == txs # << >> /\ txs[1].wallet > 0

(* Every sale of a partial sale is from a wallet that holds it; no two     *)
(* have the same nonce, and none is planned twice.                         *)
SalesAreApart ==
  step \in {"priced", "sent"} /\ Partial =>
    LET sales == ToSet(txs)
    IN  /\ \A t \in sales : t.wallet \in DOMAIN balances /\ t.amount <= balances[t.wallet]
        /\ Cardinality({ t.nonce : t \in sales }) = Cardinality(sales)
        /\ step = "priced" => Len(txs) = Cardinality(sales)

(* What the order sells from a wallet.                                     *)
SoldFrom(n) ==
  LET sales == { t \in ToSet(txs) : t.wallet = n }
  IN  IF sales = {} THEN 0 ELSE (CHOOSE t \in sales : TRUE).amount

(* The distinct sales of a partial sale add up to what was asked for,      *)
(* rounded down once; it is at the last wallet only if it needs that one.  *)
(* The gas estimate loses none of these sales and adds no other (how often *)
(* it repeats them is not the matter here).  No sale at all means that     *)
(* less than one token was asked for, or that the product overflowed.  The *)
(* loop panics only for more than the whole, a balance above 128 bit or a  *)
(* contract of more wallets than a byte counts.                            *)
SoldAsAsked ==
  /\ SalesAreApart
  /\ step \in {"priced", "sent"} /\ Partial =>
       LET sold == Sums([n \in 1 .. Len(balances) |-> SoldFrom(n)])
       IN  /\ sold[Len(balances)] = (percentage * Total) \div 100
           /\ \A t \in ToSet(txs) :
                t.wallet > 1 => sold[t.wallet - 1] < sold[Len(balances)]
  /\ step \in {"priced", "sent"} /\ txs = << >> =>
       percentage * Total < 100 \/ percentage * Total > MaxWord
  /\ cause = "sale" =>
       \/ percentage > 100
       \/ \E n \in DOMAIN balances : balances[n] > MaxAmount
       \/ Len(balances) > MaxByte

=============================================================================
