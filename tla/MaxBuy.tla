------------------------------- MODULE MaxBuy -------------------------------
(***************************************************************************)
(* simulate_token_max_buy (token_simulation.rs): the search for the        *)
(* largest amount of a token that one transaction can buy.  The interval   *)
(* of amounts is cut in fifteen, the purchase of every bound is simulated, *)
(* and the search goes on between the neighbours of the best one.          *)
(*                                                                         *)
(* A simulated purchase returns what the buyer gets: the amount without    *)
(* its tax up to the token's limit, nothing above it (the transaction      *)
(* reverts) and nothing when the provider fails (unwrap_or_default).       *)
(***************************************************************************)
EXTENDS Integers

CONSTANTS
  Markets           (* Tokens to search: the pair's balance, the largest   *)
                    (* purchase the token allows, its tax in percent.      *)

ASSUME MaxBuyAssumption ==
  Markets \subseteq [balance : Nat, limit : Nat, tax : 0 .. 99]

Parts == 15          (* number_of_intervals                                *)
Base  == 1000000     (* The tolerance is a millionth of half the balance.  *)
Tries == 10          (* Rounds without a purchase before giving up.        *)

(* Bound: rounds beyond this one are not told apart.                       *)
MaxRounds == Tries + 1

VARIABLES
  phase,            (* idle, search, done.                                 *)
  token,            (* The market searched; never changes.                 *)
  provider,         (* up or down.                                         *)
  lower, upper,     (* lower_bound and upper_bound.                        *)
  round,            (* counter                                             *)
  highest,          (* highest_amount_out                                  *)
  max_tx            (* The result: an amount, or NoLimit (None).           *)

max_buy_vars ==
  << phase, token, provider, lower, upper, round, highest, max_tx >>

-----------------------------------------------------------------------------

NoLimit == -1

MaxBuyInit ==
  /\ token \in Markets
  /\ provider = "up"
  /\ phase = "search"
  /\ lower = 0
  /\ upper = token.balance
  /\ round = 0
  /\ highest = 0
  /\ max_tx = NoLimit

MaxBuyIdle ==
  /\ phase = "idle"
  /\ token = [balance |-> 0, limit |-> 0, tax |-> 0]
  /\ provider = "up"
  /\ lower = 0 /\ upper = 0 /\ round = 0 /\ highest = 0
  /\ max_tx = NoLimit

Tolerance == (token.balance \div 2) \div Base

(* simulate_max_buy: what the buyer has afterwards.  A pair cannot be      *)
(* emptied, and a swap of nothing reverts.                                 *)
Bought(amount) ==
  IF provider = "up" /\ amount \in 1 .. token.limit /\ amount < token.balance
  THEN (amount * (100 - token.tax)) \div 100
  ELSE 0

(* intervals[i]                                                            *)
Point(i) == lower + ((upper - lower) * i) \div Parts

(* Mutant of LeftIntervalLower: the interval below the best is dropped.    *)
DropLeftInterval(i) == Point(i) + 1

(* left_interval_lower                                                     *)
LeftIntervalLower(i) == Point(i - 1) + 1

(* right_interval_upper                                                    *)
RightIntervalUpper(i) == Point(i + 1) - 1

(* highest_amount_out_index: max_by returns the last of several maxima.    *)
IsBest(i) ==
  LET best == Bought(Point(i))
  IN  /\ best > 0
      /\ \A j \in 0 .. i - 1 : Bought(Point(j)) <= best
      /\ \A j \in i + 1 .. Parts : Bought(Point(j)) < best

(* Mutant of Terminates: only an empty interval ends the search.           *)
TerminatesEmpty == lower > upper

(* should_loop_terminate                                                   *)
Terminates == lower > upper \/ upper - lower < Tolerance

-----------------------------------------------------------------------------

(* The balance is zero, or its lookup failed.                              *)
NoBalance ==
  /\ phase = "search"
  /\ round = 0
  /\ token.balance = 0 \/ provider = "down"
  /\ max_tx' = 0
  /\ phase' = "done"
  /\ UNCHANGED << token, provider, lower, upper, round, highest >>

NextRound ==
  /\ phase = "search"
  /\ token.balance > 0
  /\ round > 0 \/ provider = "up"
  /\ ~ Terminates
  /\ round' = IF round < MaxRounds THEN round + 1 ELSE round

(* Some purchase works: search next to the best one.                       *)
Narrow ==
  /\ NextRound
  /\ \E i \in 0 .. Parts :
       /\ IsBest(i)
       /\ highest' = Point(i)
       /\ lower' = IF i = 0 THEN lower ELSE LeftIntervalLower(i)
       /\ upper' = IF i = Parts THEN upper ELSE RightIntervalUpper(i)
  /\ UNCHANGED << phase, token, provider, max_tx >>

(* No purchase works: all are the best, and the last of them is taken.     *)
Shrink ==
  /\ NextRound
  /\ \A i \in 0 .. Parts : Bought(Point(i)) = 0
  /\ highest' = Point(Parts)
  /\ IF round + 1 = Tries
     THEN /\ max_tx' = 0
          /\ phase' = "done"
          /\ UNCHANGED upper
     ELSE /\ upper' = Point((Parts + 1) \div 3)
          /\ UNCHANGED << phase, max_tx >>
  /\ UNCHANGED << token, provider, lower >>

(* The loop is left.  From nine tenths of the balance on there is no limit.*)
Finish ==
  /\ phase = "search"
  /\ round > 0
  /\ Terminates
  /\ max_tx' = IF 10 * highest >= 9 * token.balance THEN NoLimit ELSE highest
  /\ phase' = "done"
  /\ UNCHANGED << token, provider, lower, upper, round, highest >>

(* The provider of the fork's data is gone, for the rest of the search.    *)
ProviderFails ==
  /\ phase = "search"
  /\ provider = "up"
  /\ provider' = "down"
  /\ UNCHANGED << phase, token, lower, upper, round, highest, max_tx >>

-----------------------------------------------------------------------------

SearchStep == NoBalance \/ Narrow \/ Shrink \/ Finish

MaxBuyNext == SearchStep \/ ProviderFails

(* The search is a loop of one task that waits for nothing but replies.    *)
MaxBuyFair == WF_max_buy_vars(SearchStep)

MaxBuySpec == MaxBuyInit /\ [][MaxBuyNext]_max_buy_vars /\ MaxBuyFair

-----------------------------------------------------------------------------

(* The largest amount that can be bought.                                  *)
Largest ==
  IF token.limit < token.balance THEN token.limit ELSE token.balance - 1

(* The search ends, except that a small pair (no tolerance) and a provider *)
(* that fails late (the tries are over) make it run for ever: no round     *)
(* after the tenth can give up, and the interval stops shrinking at one    *)
(* amount.                                                                 *)
SearchEnds ==
  (phase = "search" /\ (provider = "up" \/ Tolerance > 0 \/ round < Tries))
    ~> (phase = "done" \/ (provider = "down" /\ Tolerance = 0 /\ round >= Tries))

(* With the provider up, the answer is the largest purchase the token      *)
(* allows, up to the tolerance: never more than can be bought, None only   *)
(* for nine tenths of the pair, and zero, which traders read as a          *)
(* honeypot, only for tokens whose largest purchase is less than the       *)
(* smallest amount ever tried.  (Where the tax leaves a single unit of the *)
(* largest purchase, or nothing, a later round may miss what an earlier    *)
(* one has found, and the answer may be any.)                              *)
HighestIsFound ==
  phase = "done" /\ provider = "up" /\ token.balance > 0 =>
    \/ /\ max_tx = NoLimit
       /\ 10 * Largest >= 9 * token.balance
    \/ /\ max_tx \in 1 .. Largest
       /\ Largest - max_tx <= Tolerance
    \/ /\ max_tx = 0
       /\ Largest <= token.balance \div 295245
    \/ Bought(Largest) <= 1

=============================================================================
