----------------------------- MODULE MapGuards -----------------------------
(***************************************************************************)
(* The guards of two DashMaps that the SimulatorEngine holds over an await *)
(* (simulator/mod.rs): the write guard of a shard of token_pool while a    *)
(* token is created, and the read guard of a shard of simulators while a   *)
(* transaction is sent to a simulator.  Who wants the shard in the         *)
(* meantime blocks the thread it runs on, and the runtime has only so many *)
(* threads: simulators and traders look their token up in token_pool, the  *)
(* task that waits for a simulator removes it from simulators.             *)
(***************************************************************************)
EXTENDS Naturals, FiniteSets

CONSTANTS
  Tokens,           (* Tokens the engine is told of.                       *)
  PoolShard,        (* The shard of token_pool that each token falls into. *)
  MapShard,         (* The shard of simulators that each token falls into. *)
  RequestCap,       (* Capacity of a request channel (10 in mod.rs).       *)
  Workers           (* Numbers of worker threads to look at.               *)

ASSUME MapGuardsAssumption ==
  /\ RequestCap \in Nat \ {0}
  /\ Workers \subseteq Nat \ {0}

VARIABLES
  workers,          (* Worker threads of the runtime; never changes.       *)
  engine,           (* What the engine awaits, and for which token.        *)
  pool,             (* Tokens with an entry in token_pool.                 *)
  simulator,        (* The simulator of each token.                        *)
  queued,           (* Requests in each simulator's channel.               *)
  reading           (* Tasks blocked in token_pool.get.                    *)

guards_vars == << workers, engine, pool, simulator, queued, reading >>

-----------------------------------------------------------------------------

Idle == [at |-> "idle"]

(* Who reads token_pool: each token's simulator, and its trader's          *)
(* portfolio.                                                              *)
Readers == Tokens \X {"simulator", "trader"}

GuardsInit ==
  /\ workers \in Workers
  /\ engine = Idle
  /\ pool = {}
  /\ simulator = [t \in Tokens |-> "none"]
  /\ queued = [t \in Tokens |-> 0]
  /\ reading = {}

(* No thread: nothing runs.                                                *)
GuardsIdle ==
  /\ workers = 0
  /\ engine = Idle
  /\ pool = {}
  /\ simulator = [t \in Tokens |-> "none"]
  /\ queued = [t \in Tokens |-> 0]
  /\ reading = {}

(* A blocked task keeps its thread; the others share the rest.             *)
Removing == { t \in Tokens : simulator[t] = "removing" }

FreeWorker == Cardinality(reading) + Cardinality(Removing) < workers

(* Mutant of PoolHeld: the entry is kept until the transaction is sent.    *)
PoolHeldLonger(t) ==
  engine # Idle /\ PoolShard[engine.token] = PoolShard[t]

(* token_pool's entry guard lives from entry() to the end of the match.    *)
PoolHeld(t) ==
  engine.at = "creating" /\ PoolShard[engine.token] = PoolShard[t]

(* simulators' guard m lives to the end of the loop body.                  *)
MapHeld(t) ==
  engine.at = "sending" /\ MapShard[engine.token] = MapShard[t]

-----------------------------------------------------------------------------
(* SimulatorEngine.                                                        *)

(* Command::AddToken for a token that is not in the pool.                  *)
CreateToken(t) ==
  /\ FreeWorker
  /\ engine = Idle
  /\ t \notin pool
  /\ engine' = [at |-> "creating", token |-> t]
  /\ UNCHANGED << workers, pool, simulator, queued, reading >>

(* Token::create has answered.                                             *)
TokenCreated ==
  /\ FreeWorker
  /\ engine.at = "creating"
  /\ pool' = pool \cup {engine.token}
  /\ simulator' = [simulator EXCEPT ![engine.token] = "running"]
  /\ engine' = Idle
  /\ UNCHANGED << workers, queued, reading >>

(* Command::AddToken for a token of the pool.  An entry of simulators,     *)
(* served or not, is subscribed to: nothing changes here.                  *)
StartSimulator(t) ==
  /\ FreeWorker
  /\ engine = Idle
  /\ t \in pool
  /\ simulator[t] = "none"
  /\ simulator' = [simulator EXCEPT ![t] = "running"]
  /\ UNCHANGED << workers, engine, pool, queued, reading >>

(* A pending transaction touches the token: simulators.get(..).            *)
Dispatch(t) ==
  /\ FreeWorker
  /\ engine = Idle
  /\ simulator[t] # "none"
  /\ engine' = [at |-> "sending", token |-> t]
  /\ UNCHANGED << workers, pool, simulator, queued, reading >>

(* sim_sender.send(..).await: there is room, or no receiver any more.      *)
Dispatched ==
  /\ FreeWorker
  /\ engine.at = "sending"
  /\ LET t == engine.token
     IN  \/ /\ simulator[t] \in {"ended", "removing"}
            /\ UNCHANGED queued
         \/ /\ simulator[t] = "running"
            /\ queued[t] < RequestCap
            /\ queued' = [queued EXCEPT ![t] = @ + 1]
  /\ engine' = Idle
  /\ UNCHANGED << workers, pool, simulator, reading >>

-----------------------------------------------------------------------------
(* Simulators and traders.                                                 *)

Runs(t) == simulator[t] = "running" /\ << t, "simulator" >> \notin reading

(* A trader's request; the channel's waiters are served in order, so none  *)
(* passes the engine.                                                      *)
TraderRequest(t) ==
  /\ FreeWorker
  /\ simulator[t] = "running"
  /\ << t, "trader" >> \notin reading
  /\ queued[t] < RequestCap
  /\ ~ (engine.at = "sending" /\ engine.token = t)
  /\ queued' = [queued EXCEPT ![t] = @ + 1]
  /\ UNCHANGED << workers, engine, pool, simulator, reading >>

TakeRequest(t) ==
  /\ FreeWorker
  /\ Runs(t)
  /\ queued[t] > 0
  /\ queued' = [queued EXCEPT ![t] = @ - 1]
  /\ UNCHANGED << workers, engine, pool, simulator, reading >>

(* get_token, at a request or a block, and the portfolio's lookups; while  *)
(* the shard is free they take no time.                                    *)
Blocks(r) ==
  /\ FreeWorker
  /\ simulator[r[1]] = "running"
  /\ r \notin reading
  /\ PoolHeld(r[1])
  /\ reading' = reading \cup {r}
  /\ UNCHANGED << workers, engine, pool, simulator, queued >>

(* The lock is free: the thread goes on where it was.                      *)
Unblocks(r) ==
  /\ r \in reading
  /\ ~ PoolHeld(r[1])
  /\ reading' = reading \ {r}
  /\ UNCHANGED << workers, engine, pool, simulator, queued >>

(* No receiver is left; the request channel goes with the simulator.       *)
SimulatorLeaves(t) ==
  /\ FreeWorker
  /\ Runs(t)
  /\ << t, "trader" >> \notin reading
  /\ simulator' = [simulator EXCEPT ![t] = "ended"]
  /\ queued' = [queued EXCEPT ![t] = 0]
  /\ UNCHANGED << workers, engine, pool, reading >>

(* map.remove(&token) of the task that waited for the simulator.           *)
RemoveSimulator(t) ==
  /\ FreeWorker
  /\ simulator[t] = "ended"
  /\ simulator' = [simulator EXCEPT ![t] = IF MapHeld(t) THEN "removing" ELSE "none"]
  /\ UNCHANGED << workers, engine, pool, queued, reading >>

SimulatorRemoved(t) ==
  /\ simulator[t] = "removing"
  /\ ~ MapHeld(t)
  /\ simulator' = [simulator EXCEPT ![t] = "none"]
  /\ UNCHANGED << workers, engine, pool, queued, reading >>

-----------------------------------------------------------------------------

GuardsNext ==
  \/ TokenCreated \/ Dispatched
  \/ \E t \in Tokens :
       \/ CreateToken(t) \/ StartSimulator(t) \/ Dispatch(t)
       \/ TraderRequest(t) \/ TakeRequest(t)
       \/ SimulatorLeaves(t) \/ RemoveSimulator(t) \/ SimulatorRemoved(t)
  \/ \E r \in Readers : Blocks(r) \/ Unblocks(r)

(* The runtime polls what is ready as long as it has a thread, and a lock  *)
(* that is free is taken.                                                  *)
GuardsFair ==
  /\ WF_guards_vars(TokenCreated)
  /\ WF_guards_vars(Dispatched)
  /\ \A t \in Tokens : WF_guards_vars(TakeRequest(t)) /\ WF_guards_vars(SimulatorRemoved(t))
  /\ \A r \in Readers : WF_guards_vars(Unblocks(r))

GuardsSpec == GuardsInit /\ [][GuardsNext]_guards_vars /\ GuardsFair

-----------------------------------------------------------------------------

(* More threads than tasks that one guard can block: the readers of other  *)
(* tokens of a pool shard, the removals of a map shard.                    *)
Roomy ==
  /\ \A t \in Tokens :
       workers > Cardinality({ r \in Readers :
                     r[1] # t /\ PoolShard[r[1]] = PoolShard[t] })
  /\ \A t \in Tokens :
       workers > Cardinality({ s \in Tokens : MapShard[s] = MapShard[t] })

(* With enough threads the engine always gets through the creation of a    *)
(* token and the sending of a transaction, and nobody is blocked for ever, *)
(* although both guards are held over an await and block whole threads.    *)
GuardsAreReleased ==
  /\ Roomy /\ engine # Idle ~> engine = Idle
  /\ \A r \in Readers : Roomy /\ r \in reading ~> r \notin reading

=============================================================================
