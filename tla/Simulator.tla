----------------------------- MODULE Simulator -----------------------------
(***************************************************************************)
(* The simulator of one token and the dispatch of pending transactions to  *)
(* it by the SimulatorEngine.  The simulator takes a request or a block,   *)
(* simulates a trade on a fork of the chain and broadcasts what it found:  *)
(* the token is closed, a known pending transaction launches it, or it has *)
(* been launched.                                                          *)
(*                                                                         *)
(* What the EVM finds is abstracted to whether a trade works; the requests *)
(* TradeSimulation and EstimateGas are left out, they spawn a task and     *)
(* change nothing in the simulator.                                        *)
(***************************************************************************)
EXTENDS Naturals, Sequences

CONSTANTS
  Txs,              (* Transactions that touch the token, by hash.         *)
  Opening,          (* Those after which the token can be traded.          *)
  PairCreating,     (* Those whose state difference shows a new pool.      *)
  Traders,          (* Traders with a handle of this simulator.            *)
  MaxBlock,         (* Bound: the last block of the chain.                 *)
  RequestCap,       (* Capacity of the request channel (10).               *)
  NoTx              (* Transaction::default().                             *)

ASSUME SimulatorAssumption ==
  /\ Opening \subseteq Txs
  /\ PairCreating \subseteq Txs
  /\ MaxBlock \in Nat \ {0}
  /\ RequestCap \in Nat \ {0}
  /\ NoTx \notin Txs

VARIABLES
  height,           (* Newest block of the chain.                          *)
  minedAt,          (* The block of each transaction, 0 while pending.     *)
  openAt,           (* The block that opened the token for trading, or 0.  *)
  oracle,           (* The block in the watch channel.                     *)
  changed,          (* The simulator has not seen the watch's value.       *)
  pool,             (* The token pool knows the token's pool.              *)
  seen,             (* Pending transactions the engine has received.       *)
  dispatching,      (* What the engine is about to send, as a sequence.    *)
  requests,         (* The request channel.                                *)
  enlisted,         (* Traders that registered last, not withdrew.         *)
  receivers,        (* Traders that hold a receiver of the broadcast.      *)
  pc,               (* Where the simulator is in its loop.                 *)
  event_q,          (* The simulator's own queue.                          *)
  sell_check,       (* Traders whose sale is tested on each transaction.   *)
  state,            (* What the simulator knows about the token.           *)
  signal,           (* The last state that was broadcast.                  *)
  announced,        (* Transactions broadcast as the token's launch.       *)
  failed            (* A simulation has failed.                            *)

chain_vars  == << height, minedAt, openAt, oracle >>
engine_vars == << pool, seen, dispatching >>
trader_vars == << enlisted, receivers >>
found_vars  == << state, signal, announced, failed >>
vars == << chain_vars, changed, engine_vars, requests, trader_vars, pc,
           event_q, sell_check, found_vars >>

-----------------------------------------------------------------------------

(* TransactionNew, with the oracle at the time of its dispatch; `due' are  *)
(* the traders whose registration was sent before it.                      *)
Transactions == [type : {"Transaction"}, tx : Txs, oracle : 1 .. MaxBlock,
                 due : SUBSET Traders]

Registrations == [type : {"RegisterAntiRug", "DeRegisterAntiRug"},
                  trader : Traders]

BlockConfirmed == [type |-> "BlockConfirmed"]

(* SimulationState; the data of Changed is abstracted.                     *)
Closed     == [kind |-> "Closed", tx |-> NoTx]
Launch(tx) == [kind |-> "Launch", tx |-> tx]
Changed    == [kind |-> "Changed", tx |-> NoTx]

States == {Closed, Changed} \cup { Launch(tx) : tx \in Txs \cup {NoTx} }

Init ==
  /\ height = 1
  /\ minedAt = [tx \in Txs |-> 0]
  /\ openAt \in {0, 1}
  /\ oracle = 1
  /\ changed \in BOOLEAN
  /\ pool \in BOOLEAN /\ (openAt # 0 => pool)
  /\ seen = {}
  /\ dispatching = << >>
  /\ requests = << >>
  /\ enlisted = {}
  /\ receivers = Traders
  /\ pc = "select"
  /\ event_q = << >>
  /\ sell_check = {}
  /\ state = Closed
  /\ signal = Closed
  /\ announced = {}
  /\ failed = FALSE

-----------------------------------------------------------------------------
(* The chain and the block stream.                                         *)

(* A block takes pending transactions, and private ones may open the token.*)
MineBlock ==
  /\ height < MaxBlock
  /\ height' = height + 1
  /\ \E block \in SUBSET { tx \in Txs : minedAt[tx] = 0 },
        private \in BOOLEAN :
       /\ minedAt' = [tx \in Txs |-> IF tx \in block THEN height + 1
                                                     ELSE minedAt[tx]]
       /\ openAt' = IF openAt = 0 /\ (private \/ block \cap Opening # {})
                    THEN height + 1 ELSE openAt
  /\ UNCHANGED << oracle, changed, engine_vars, requests, trader_vars,
                  pc, event_q, sell_check, found_vars >>

(* The stream sends a block it has fetched; others it failed to fetch, and *)
(* the watch keeps the last one only.                                      *)
PublishBlock ==
  /\ oracle' \in oracle + 1 .. height
  /\ changed' = TRUE
  /\ UNCHANGED << height, minedAt, openAt, engine_vars, requests, trader_vars,
                  pc, event_q, sell_check, found_vars >>

-----------------------------------------------------------------------------
(* SimulatorEngine::run, the branch for pending transactions.              *)

Running == pc \in {"select", "events"}

(* update_pairs_for_tokens: the state difference of the transaction shows  *)
(* the pool of a token that had none.                                      *)
PoolAfter(tx) == pool \/ tx \in PairCreating

(* The oracle is read, the transaction is traced, a new pool is recorded;  *)
(* a touched token without a pool is skipped.                              *)
StartDispatch(tx) ==
  /\ dispatching = << >>
  /\ tx \notin seen
  /\ seen' = seen \cup {tx}
  /\ pool' = PoolAfter(tx)
  /\ dispatching' = IF pool' THEN << [tx |-> tx, oracle |-> oracle] >>
                             ELSE << >>
  /\ UNCHANGED << chain_vars, changed, requests, trader_vars, pc, event_q,
                  sell_check, found_vars >>

(* sim_sender.send(..).await: waits for room, fails when nobody receives.  *)
SendTransaction ==
  /\ dispatching # << >>
  /\ IF Running
     THEN /\ Len(requests) < RequestCap
          /\ requests' = Append(requests,
               [type |-> "Transaction", tx |-> dispatching[1].tx,
                oracle |-> dispatching[1].oracle,
                due |-> enlisted])
     ELSE UNCHANGED requests
  /\ dispatching' = << >>
  /\ UNCHANGED << chain_vars, changed, pool, seen, trader_vars, pc, event_q,
                  sell_check, found_vars >>

-----------------------------------------------------------------------------
(* The traders' side.                                                      *)

Request(t, type) ==
  /\ t \in receivers
  /\ Running
  /\ Len(requests) < RequestCap
  /\ requests' = Append(requests, [type |-> type, trader |-> t])
  /\ enlisted' = IF type = "RegisterAntiRug" THEN enlisted \cup {t}
                                             ELSE enlisted \ {t}
  /\ UNCHANGED << chain_vars, changed, engine_vars, receivers, pc, event_q,
                  sell_check, found_vars >>

Leave(t) ==
  /\ t \in receivers
  /\ receivers' = receivers \ {t}
  /\ UNCHANGED << chain_vars, changed, engine_vars, requests, enlisted, pc,
                  event_q, sell_check, found_vars >>

-----------------------------------------------------------------------------
(* Simulator::run.                                                         *)

(* After each branch of the select!: without receivers the loop ends, else *)
(* the queue is drained.                                                   *)
AfterSelect ==
  pc' = CASE receivers = {}   -> "closed"
          [] event_q' = << >> -> "select"
          [] OTHER            -> "events"

(* Mutant of TakeRequest: a trader that withdraws stays registered.        *)
TakeRequestOnly ==
  /\ pc = "select"
  /\ requests # << >>
  /\ requests' = Tail(requests)
  /\ event_q' = IF Head(requests).type = "Transaction"
                THEN Append(event_q, Head(requests)) ELSE event_q
  /\ sell_check' = IF Head(requests).type = "RegisterAntiRug"
                   THEN sell_check \cup {Head(requests).trader} ELSE sell_check
  /\ AfterSelect
  /\ UNCHANGED << chain_vars, changed, engine_vars, trader_vars, found_vars >>

(* requests.recv()                                                         *)
TakeRequest ==
  /\ pc = "select"
  /\ requests # << >>
  /\ requests' = Tail(requests)
  /\ event_q' = IF Head(requests).type = "Transaction"
                THEN Append(event_q, Head(requests)) ELSE event_q
  /\ sell_check' =
       CASE Head(requests).type = "RegisterAntiRug" ->
              sell_check \cup {Head(requests).trader}
         [] Head(requests).type = "DeRegisterAntiRug" ->
              sell_check \ {Head(requests).trader}
         [] OTHER -> sell_check
  /\ AfterSelect
  /\ UNCHANGED << chain_vars, changed, engine_vars, trader_vars, found_vars >>

(* block_stream.changed()                                                  *)
TakeBlock ==
  /\ pc = "select"
  /\ changed
  /\ changed' = FALSE
  /\ event_q' = Append(event_q, BlockConfirmed)
  /\ AfterSelect
  /\ UNCHANGED << chain_vars, engine_vars, requests, trader_vars, sell_check,
                  found_vars >>

(* Mutant of Works: the pending transactions are not applied first.        *)
WorksNow(txs, n) == openAt \in 1 .. n + 1

(* A trade works after these transactions on the fork at block n + 1: the  *)
(* provider answers for a block to come with the newest state.             *)
Works(txs, n) == txs \cap Opening # {} \/ openAt \in 1 .. n + 1

(* Mutant of GenerateState: a launch that still waits is found anew.       *)
Regenerate(prev, works, tx) ==
  CASE prev.kind = "Changed" -> Changed
    [] OTHER                 -> IF works THEN Launch(tx) ELSE prev

(* generate_state                                                          *)
GenerateState(prev, works, tx) ==
  CASE prev = Closed         -> IF works THEN Launch(tx) ELSE Closed
    [] prev.kind = "Launch"  -> prev
    [] prev.kind = "Changed" -> Changed

(* event_q.pop_front()                                                     *)
TakeEvent(type) ==
  /\ pc = "events"
  /\ Head(event_q).type = type
  /\ event_q' = Tail(event_q)
  /\ pc' = IF event_q' = << >> THEN "select" ELSE "events"
  /\ UNCHANGED << chain_vars, changed, engine_vars, requests, trader_vars,
                  sell_check >>

(* simulation_tx.send: the traders hear the state, maybe with a launch.    *)
Broadcast(found) ==
  /\ signal' = found
  /\ announced' = IF found.kind = "Launch" THEN announced \cup {found.tx}
                                           ELSE announced

(* Event::TransactionNew with a pool, the simulations succeed.             *)
HandleTransaction ==
  LET e     == Head(event_q)
      txs   == {e.tx} \cup (IF state.kind = "Launch" THEN {state.tx} ELSE {})
      found == GenerateState(state, Works(txs, e.oracle), e.tx)
  IN  /\ TakeEvent("Transaction")
      /\ pool
      /\ state' = found
      /\ Broadcast(found)
      /\ UNCHANGED failed

(* prepare_database or simulate_token fails; the tested sales are dropped. *)
TransactionFails ==
  /\ TakeEvent("Transaction")
  /\ pool
  /\ failed' = TRUE
  /\ UNCHANGED << state, signal, announced >>

(* Mutant of Confirmed: any block ends a launch.                           *)
ConfirmedByAny == IF state.kind = "Launch" THEN Changed ELSE state

(* Event::BlockConfirmed: a launch is over when its transaction is in the  *)
(* block of the watch.                                                     *)
Confirmed ==
  IF state.kind = "Launch" /\ minedAt[state.tx] = oracle THEN Changed
                                                        ELSE state

(* Mutant of HandleBlock: the state found is kept.                         *)
KeepFound ==
  LET found == GenerateState(Confirmed, Works({}, oracle), NoTx)
  IN  /\ TakeEvent("BlockConfirmed")
      /\ pool
      /\ state' = found
      /\ IF Confirmed = Changed THEN UNCHANGED << signal, announced >>
                                ELSE Broadcast(found)
      /\ UNCHANGED failed

(* Mutant of HandleBlock: nothing is said of a token that is not launched. *)
QuietBlock ==
  /\ TakeEvent("BlockConfirmed")
  /\ pool
  /\ state' = Confirmed
  /\ IF Confirmed.kind = "Launch" THEN Broadcast(Confirmed)
                                  ELSE UNCHANGED << signal, announced >>
  /\ UNCHANGED failed

(* The state found on a block is broadcast unless the token has launched,  *)
(* and never kept.                                                         *)
HandleBlock ==
  LET found == GenerateState(Confirmed, Works({}, oracle), NoTx)
  IN  /\ TakeEvent("BlockConfirmed")
      /\ pool
      /\ state' = Confirmed
      /\ IF Confirmed = Changed THEN UNCHANGED << signal, announced >>
                                ELSE Broadcast(found)
      /\ UNCHANGED failed

BlockFails ==
  /\ TakeEvent("BlockConfirmed")
  /\ pool
  /\ state' = Confirmed
  /\ failed' = TRUE
  /\ UNCHANGED << signal, announced >>

(* Without a pool the launch is looked for and nothing is simulated.       *)
SkipBlock ==
  /\ TakeEvent("BlockConfirmed")
  /\ ~pool
  /\ state' = Confirmed
  /\ UNCHANGED << signal, announced, failed >>

(* An unwrapped error of the provider (to_cache_db), or a balance of more  *)
(* than 128 bits (as_u128): the task ends.                                 *)
SimulationPanics ==
  /\ pc = "events"
  /\ pool
  /\ pc' = "closed"
  /\ failed' = TRUE
  /\ UNCHANGED << chain_vars, changed, engine_vars, requests, trader_vars,
                  event_q, sell_check, state, signal, announced >>

-----------------------------------------------------------------------------

ChainNext  == MineBlock \/ PublishBlock
EngineNext == SendTransaction \/ \E tx \in Txs : StartDispatch(tx)
TraderNext ==
  \E t \in Traders :
    \/ Request(t, "RegisterAntiRug")
    \/ Request(t, "DeRegisterAntiRug")
    \/ Leave(t)
EventNext ==
  \/ HandleTransaction \/ TransactionFails
  \/ HandleBlock \/ BlockFails \/ SkipBlock
  \/ SimulationPanics
RunNext == TakeRequest \/ TakeBlock \/ EventNext

Next == ChainNext \/ EngineNext \/ TraderNext \/ RunNext

Spec == Init /\ [][Next]_vars

(* The simulator is a task that runs when it can, and select! polls its    *)
(* branches in random order: a block gets its turn among any number of     *)
(* requests (and a request its own among the finitely many blocks).        *)
(* Blocks keep coming, and the newest one is fetched in the end.           *)
Fairness ==
  /\ WF_vars(MineBlock)
  /\ WF_vars(PublishBlock)
  /\ WF_vars(RunNext)
  /\ SF_vars(TakeBlock)

FairSpec == Spec /\ Fairness

-----------------------------------------------------------------------------

TypeOK ==
  /\ height \in 1 .. MaxBlock
  /\ minedAt \in [Txs -> 0 .. height]
  /\ openAt \in 0 .. height
  /\ oracle \in 1 .. height
  /\ changed \in BOOLEAN
  /\ pool \in BOOLEAN
  /\ seen \subseteq Txs
  /\ Len(dispatching) <= 1
  /\ requests \in Seq(Transactions \cup Registrations)
  /\ Len(requests) <= RequestCap
  /\ enlisted \subseteq Traders
  /\ receivers \subseteq Traders
  /\ pc \in {"select", "events", "closed"}
  /\ event_q \in Seq(Transactions \cup {BlockConfirmed})
  /\ sell_check \subseteq Traders
  /\ state \in States \ {Launch(NoTx)}
  /\ signal \in States
  /\ announced \subseteq Txs \cup {NoTx}
  /\ failed \in BOOLEAN

(* A transaction that the traders were told to follow stays the one that   *)
(* the simulator (and its gas estimate) puts before their own, until it is *)
(* in a block: whatever is dispatched or confirmed meanwhile.              *)
LaunchKeptUntilMined ==
  \A tx \in announced \ {NoTx} : minedAt[tx] # 0 \/ state = Launch(tx)

(* A sale is tested with a pending transaction exactly for the traders     *)
(* that were registered when the engine sent it, in spite of the blocks,   *)
(* registrations and withdrawals around it.                                *)
ChecksAreDue ==
  pc = "events" /\ Head(event_q).type = "Transaction"
    => sell_check = Head(event_q).due

(* What the traders hear never goes back: nothing but Changed after        *)
(* Changed, and no launch by another transaction after a launch by one.    *)
SignalsNeverGoBack ==
  [][/\ signal = Changed => signal' = Changed
     /\ signal.tx # NoTx => signal' \in {signal, Changed}]_vars

(* A pending transaction that opens the token is told to the traders once  *)
(* it is sent, while somebody listens and the simulations succeed.         *)
LaunchIsSignalled ==
  (\E i \in DOMAIN requests :
     requests[i].type = "Transaction" /\ requests[i].tx \in Opening)
    ~> announced # {} \/ failed \/ receivers = {}

(* So is a token that nobody was seen to open (by a private transaction),  *)
(* on one of the blocks to come.                                           *)
OpenIsSignalled ==
  openAt # 0 /\ pool /\ height < MaxBlock
    ~> announced # {} \/ failed \/ receivers = {}

(* `SimulationState::Launch is handled in the new block': when the         *)
(* simulator handles a block after the launch, the launch is over.         *)
LaunchIsHandled ==
  [][\A tx \in Txs :
       state = Launch(tx) /\ minedAt[tx] \in 1 .. oracle /\ HandleBlock
         => state' = Changed]_vars

=============================================================================
