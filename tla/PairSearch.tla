----------------------------- MODULE PairSearch -----------------------------
(***************************************************************************)
(* update_pairs_for_tokens (utils/state_diff.rs): which of the tokens      *)
(* without a pool get one from a pending transaction.  Its state           *)
(* difference is read for each token and each factory it touches: the      *)
(* change of the number of pairs, the pair at the old number, and the two  *)
(* tokens of that pair.                                                    *)
(***************************************************************************)
EXTENDS Naturals, Sequences

CONSTANTS
  Watched,          (* Tokens without a pool, in the order of the list.    *)
  OtherToken,       (* A token nobody watches, such as WETH.               *)
  Factories,        (* Known factories, in the order of their addresses.   *)
  MaxCreated        (* Bound: pairs one transaction creates in a factory.  *)

ASSUME PairSearchAssumption ==
  /\ Watched \in Seq({ Watched[i] : i \in DOMAIN Watched })
  /\ \A i, j \in DOMAIN Watched : Watched[i] = Watched[j] => i = j
  /\ Factories \in Seq({ Factories[i] : i \in DOMAIN Factories })
  /\ Factories # << >>      (* main.rs adds the factory of Uniswap V2.     *)
  /\ MaxCreated \in Nat

VARIABLES
  searching,        (* idle, yes, and the result: some, none.              *)
  diffs,            (* What the transaction does to each factory.          *)
  at_token,         (* The round of the outer loop.                        *)
  at_factory,       (* The round of the inner loop.                        *)
  pools_created     (* The pools found: factory and pair of a token.       *)

pair_vars == << searching, diffs, at_token, at_factory, pools_created >>

-----------------------------------------------------------------------------

WatchedTokens == { Watched[i] : i \in DOMAIN Watched }

(* The two tokens of a pair.                                               *)
Pairs == { p \in SUBSET (WatchedTokens \cup {OtherToken}) :
             \E a, b \in p : a # b /\ p = {a, b} }

(* A factory has one pair for two tokens.                                  *)
Created ==
  { s \in UNION { [1 .. n -> Pairs] : n \in 1 .. MaxCreated } :
      \A i, j \in DOMAIN s : s[i] = s[j] => i = j }

(* A factory is not touched; touched, and the number of pairs left alone;  *)
(* deployed by the transaction (the number is Born, not Changed); or it    *)
(* gets new pairs.                                                         *)
FactoryDiffs ==
  [length : {"untouched", "absent", "born"}, pairs : {<< >>}]
    \cup [length : {"changed"}, pairs : Created]

NoPool == [factory |-> 0, pair |-> 0]

PairInit ==
  /\ searching = "yes"
  /\ diffs \in [DOMAIN Factories -> FactoryDiffs]
  /\ at_token = 1
  /\ at_factory = 1
  /\ pools_created = [t \in WatchedTokens |-> NoPool]

PairIdle ==
  /\ searching = "idle"
  /\ diffs = [f \in DOMAIN Factories |-> [length |-> "untouched", pairs |-> << >>]]
  /\ at_token = 1
  /\ at_factory = 1
  /\ pools_created = [t \in WatchedTokens |-> NoPool]

-----------------------------------------------------------------------------

Continue ==
  IF at_factory < Len(Factories)
  THEN at_factory' = at_factory + 1 /\ UNCHANGED at_token
  ELSE at_factory' = 1 /\ at_token' = at_token + 1

Looking(length) ==
  /\ searching = "yes"
  /\ at_token <= Len(Watched)
  /\ diffs[at_factory].length = length

(* Mutant of FoundPair: the pair at the new number minus one.              *)
LastPair(f) == Len(diffs[f].pairs)

(* c.from, the number before the transaction, and no minus one: the first  *)
(* pair created, also where the comments speak of the new length.          *)
FoundPair(f) == 1

(* [token0, token1].contains(&token.address)                               *)
IsOfToken(pair, token) == token \in pair

(* Not in the difference, or deployed with it: the next factory.           *)
PassFactory ==
  /\ Looking("untouched") \/ Looking("born")
  /\ Continue
  /\ UNCHANGED << searching, diffs, pools_created >>

(* get(&pair_length_storage_key)? returns None, from the function.         *)
LengthAbsent ==
  /\ Looking("absent")
  /\ searching' = "none"
  /\ UNCHANGED << diffs, at_token, at_factory, pools_created >>

ReadPair ==
  /\ Looking("changed")
  /\ LET token == Watched[at_token]
         n     == FoundPair(at_factory)
     IN  pools_created' =
           IF IsOfToken(diffs[at_factory].pairs[n], token)
           THEN [pools_created EXCEPT ![token] = [factory |-> at_factory, pair |-> n]]
           ELSE pools_created
  /\ Continue
  /\ UNCHANGED << searching, diffs >>

ReturnPools ==
  /\ searching = "yes"
  /\ at_token > Len(Watched)
  /\ searching' = "some"
  /\ UNCHANGED << diffs, at_token, at_factory, pools_created >>

PairNext == PassFactory \/ LengthAbsent \/ ReadPair \/ ReturnPools

PairSpec == PairInit /\ [][PairNext]_pair_vars

-----------------------------------------------------------------------------

(* The pairs of a token that the transaction creates.                      *)
CreatedFor(token) ==
  { p \in [factory : DOMAIN Factories, pair : 1 .. MaxCreated] :
      /\ p.pair \in DOMAIN diffs[p.factory].pairs
      /\ token \in diffs[p.factory].pairs[p.pair] }

(* A search that returns pools gives each token, of the factories whose    *)
(* first new pair is the token's, the pair of the last one.  A second pair *)
(* of a factory is not looked at: the comments beside the code speak of    *)
(* the "new length" (state_diff.rs:216,224), whose last pair it would be,  *)
(* but the old one is read.  A later factory overwrites an earlier one.  A *)
(* search that returns none has met a factory that was touched and got no  *)
(* pair; one that returns pools, for any token, has not.                   *)
PairsAreRight ==
  /\ searching = "some" =>
       /\ \A t \in WatchedTokens :
            /\ pools_created[t] # NoPool =>
                 pools_created[t] \in CreatedFor(t) /\ pools_created[t].pair = 1
            /\ \A p \in CreatedFor(t) :
                 p.pair = 1 =>
                   pools_created[t] # NoPool /\ p.factory <= pools_created[t].factory
       /\ Watched # << >> => \A f \in DOMAIN Factories : diffs[f].length # "absent"
  /\ searching = "none" => \E f \in DOMAIN Factories : diffs[f].length = "absent"

=============================================================================
