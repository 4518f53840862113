------------------------------ MODULE Engines ------------------------------
(***************************************************************************)
(* The life of traders and simulators: the tasks of main.rs, one for each  *)
(* Kafka message, the SimulatorEngine and the TraderEngine with their maps *)
(* of running actors, the actors' ends and the tasks that wait for these.  *)
(* The engines unwrap what their providers return: they may panic, and     *)
(* then the commands in their channels go with their response senders.     *)
(*                                                                         *)
(* One token, one trader per user.  A simulator's generation tells it from *)
(* the simulators of the token before it; a handle is the generation it    *)
(* subscribed to.  What a trader or a simulator does while it runs is in   *)
(* the module Trader.                                                      *)
(***************************************************************************)
EXTENDS Naturals, Sequences, FiniteSets

CONSTANTS
  Users,            (* Users that send messages.                           *)
  Messages,         (* Kafka messages, in the order they are consumed in.  *)
  Cap,              (* Capacity of the command channels (20 in main.rs).   *)
  TraderCap,        (* Capacity of a trader's command channel (10).        *)
  Faults            (* What may panic.                                     *)

(* "command" stands for the three topics that are passed on to the trader  *)
(* like a cancel: to update the anti-rug, to exit, to take profit.         *)
Topics == {"create", "cancel", "command", "malformed"}

ASSUME EnginesAssumption ==
  /\ Messages \in Seq([user : Users, topic : Topics])
  /\ Cap \in Nat \ {0}
  /\ TraderCap \in Nat \ {0}
  /\ Faults \subseteq {"simulator_engine", "trader_engine", "simulator"}

Tasks == DOMAIN Messages

(* Every message to create starts at most one simulator.                   *)
Generations == 1 .. Len(Messages)

NoHandle == 0
NoMessage == 0

VARIABLES
  consumed,         (* Messages the stream has delivered.                  *)
  task,             (* Progress of the task of each message.               *)
  handle,           (* The simulator handle that belongs to each message.  *)
  engines,          (* The engines that run.                               *)
  simulator_rx,     (* Commands to the SimulatorEngine.                    *)
  trader_rx,        (* Commands to the TraderEngine.                       *)
  forwarding,       (* The command the TraderEngine sends on to a trader.  *)
  simulators,       (* The SimulatorEngine's map: the token's generation.  *)
  simulator,        (* State of each generation of the simulator.          *)
  traders,          (* The TraderEngine's map: users with an entry.        *)
  trader,           (* State of each user's trader.                        *)
  inbox,            (* Commands in the channel of each user's trader.      *)
  used,             (* The handle that each user's trader runs with.       *)
  removed           (* Users whose trader was reported removed.            *)

main_vars == << consumed, task, handle >>
simulator_vars == << simulator_rx, simulators, simulator >>
actor_vars == << traders, trader, inbox, used, removed >>
trader_vars == << trader_rx, forwarding, actor_vars >>
vars == << main_vars, engines, simulator_vars, trader_vars >>

-----------------------------------------------------------------------------

TaskStates ==
  {"none", "started", "adding", "handed", "creating", "done", "failed"}

Init ==
  /\ consumed = 0
  /\ task = [m \in Tasks |-> "none"]
  /\ handle = [m \in Tasks |-> NoHandle]
  /\ engines = {"simulator", "trader"}
  /\ simulator_rx = << >>
  /\ trader_rx = << >>
  /\ forwarding = NoMessage
  /\ simulators = NoHandle
  /\ simulator = [g \in Generations |-> "none"]
  /\ traders = {}
  /\ trader = [u \in Users |-> "none"]
  /\ inbox = [u \in Users |-> << >>]
  /\ used = [u \in Users |-> NoHandle]
  /\ removed = {}

(* simulation_tx.receiver_count(): handles on their way and in use.        *)
Receivers(g) ==
  Cardinality({ m \in Tasks : handle[m] = g })
    + Cardinality({ u \in Users : trader[u] = "running" /\ used[u] = g })

(* A message's command waits in a channel.                                 *)
IsQueued(m, rx) == \E i \in 1 .. Len(rx) : rx[i] = m

-----------------------------------------------------------------------------
(* main.rs.                                                                *)

(* consumer.stream().next(), then tokio::spawn: the tasks run in no order. *)
(* The payload is unwrapped first: a task that cannot read it panics.      *)
Consume ==
  /\ consumed < Len(Messages)
  /\ consumed' = consumed + 1
  /\ task' = [task EXCEPT ![consumed + 1] =
                IF Messages[consumed + 1].topic = "malformed" THEN "failed"
                ELSE "started"]
  /\ UNCHANGED << handle, engines, simulator_vars, trader_vars >>

(* TOPIC_CREATE_PROFILE: AddToken, wait for the handle, CreateTrader, wait *)
(* for the trader id.                                                      *)
SendAddToken(m) ==
  /\ task[m] = "started"
  /\ Messages[m].topic = "create"
  /\ "simulator" \in engines
  /\ Len(simulator_rx) < Cap
  /\ simulator_rx' = Append(simulator_rx, m)
  /\ task' = [task EXCEPT ![m] = "adding"]
  /\ UNCHANGED << consumed, handle, engines, simulators, simulator, trader_vars >>

SendCreateTrader(m) ==
  /\ task[m] = "handed"
  /\ "trader" \in engines
  /\ Len(trader_rx) < Cap
  /\ trader_rx' = Append(trader_rx, m)
  /\ task' = [task EXCEPT ![m] = "creating"]
  /\ UNCHANGED << consumed, handle, engines, simulator_vars, forwarding, actor_vars >>

(* Mutant of SendCommand: the capacity is not respected.                   *)
SendUnbounded(m) ==
  /\ task[m] = "started"
  /\ Messages[m].topic \in {"cancel", "command"}
  /\ "trader" \in engines
  /\ trader_rx' = Append(trader_rx, m)
  /\ task' = [task EXCEPT ![m] = "done"]
  /\ UNCHANGED << consumed, handle, engines, simulator_vars, forwarding, actor_vars >>

(* TOPIC_CANCEL_TRADE and the others: reported as done when the command is *)
(* sent to the engine.                                                     *)
SendCommand(m) ==
  /\ task[m] = "started"
  /\ Messages[m].topic \in {"cancel", "command"}
  /\ "trader" \in engines
  /\ Len(trader_rx) < Cap
  /\ trader_rx' = Append(trader_rx, m)
  /\ task' = [task EXCEPT ![m] = "done"]
  /\ UNCHANGED << consumed, handle, engines, simulator_vars, forwarding, actor_vars >>

(* A send fails or a response channel closes when the engine is gone.  The *)
(* task logs an error and ends, its handle is dropped.                     *)
TaskFails(m) ==
  /\ \/ /\ "simulator" \notin engines
        /\ \/ task[m] = "started" /\ Messages[m].topic = "create"
           \/ task[m] = "adding"
     \/ /\ "trader" \notin engines
        /\ \/ task[m] = "started" /\ Messages[m].topic \in {"cancel", "command"}
           \/ task[m] = "handed"
     \/ task[m] = "creating" /\ ~IsQueued(m, trader_rx)
  /\ task' = [task EXCEPT ![m] = "failed"]
  /\ handle' = [handle EXCEPT ![m] = NoHandle]
  /\ UNCHANGED << consumed, engines, simulator_vars, trader_vars >>

-----------------------------------------------------------------------------
(* SimulatorEngine.                                                        *)

(* Mutant of Subscribes: the map is not asked.                             *)
AlwaysStarts == FALSE

(* Entry::Occupied: subscribe to the simulator that the map has.           *)
Subscribes == simulators # NoHandle

NextGeneration == 1 + Cardinality({ g \in Generations : simulator[g] # "none" })

(* One command at a time: the token is created, the response sent.         *)
AddToken ==
  /\ simulator_rx # << >>
  /\ simulator_rx' = Tail(simulator_rx)
  /\ LET m == Head(simulator_rx)
     IN  /\ task' = [task EXCEPT ![m] = "handed"]
         /\ IF Subscribes
            THEN /\ handle' = [handle EXCEPT ![m] = simulators]
                 /\ UNCHANGED << simulators, simulator >>
            ELSE /\ handle' = [handle EXCEPT ![m] = NextGeneration]
                 /\ simulators' = NextGeneration
                 /\ simulator' = [simulator EXCEPT ![NextGeneration] = "running"]
  /\ UNCHANGED << consumed, engines, trader_vars >>

(* The websocket client is unwrapped, for a command and for every pending  *)
(* transaction, and a closed stream of these ends the loop.  The commands  *)
(* that wait go with the engine; the simulators it started live on.        *)
SimulatorEngineStops ==
  /\ "simulator_engine" \in Faults
  /\ "simulator" \in engines
  /\ engines' = engines \ {"simulator"}
  /\ simulator_rx' = << >>
  /\ UNCHANGED << main_vars, simulators, simulator, trader_vars >>

(* Simulator::run counts its receivers after each request and each block.  *)
SimulatorEnds(g) ==
  /\ simulator[g] = "running"
  /\ Receivers(g) = 0
  /\ simulator' = [simulator EXCEPT ![g] = "ended"]
  /\ UNCHANGED << main_vars, engines, simulator_rx, simulators, trader_vars >>

(* An unwrap in a simulation: the traders keep their handles.              *)
SimulatorPanics(g) ==
  /\ "simulator" \in Faults
  /\ simulator[g] = "running"
  /\ simulator' = [simulator EXCEPT ![g] = "ended"]
  /\ UNCHANGED << main_vars, engines, simulator_rx, simulators, trader_vars >>

(* The task that waits for the simulator removes it from the shared map.   *)
RemoveSimulator(g) ==
  /\ simulator[g] = "ended"
  /\ simulator' = [simulator EXCEPT ![g] = "removed"]
  /\ simulators' = NoHandle
  /\ UNCHANGED << main_vars, engines, simulator_rx, trader_vars >>

-----------------------------------------------------------------------------
(* TraderEngine.                                                           *)

(* Mutant of Answer: no response for a user who has an entry.              *)
AnswerNew(m) ==
  IF Messages[m].user \in traders THEN UNCHANGED task
  ELSE task' = [task EXCEPT ![m] = "done"]

(* response.send(TraderCreatedResponseInterface { trader_id }).            *)
Answer(m) == task' = [task EXCEPT ![m] = "done"]

(* Mutant of DropHandle: the handle outlives a create for an old entry.    *)
KeepHandle(m) ==
  IF Messages[m].user \in traders THEN UNCHANGED handle
  ELSE handle' = [handle EXCEPT ![m] = NoHandle]

(* The command's handle is dropped, or has become the trader's.            *)
DropHandle(m) == handle' = [handle EXCEPT ![m] = NoHandle]

(* create_trader: an occupied entry means there is nothing to do, and the  *)
(* handle is dropped.  Either way the trader id is sent back.              *)
CreateTrader ==
  /\ trader_rx # << >>
  /\ forwarding = NoMessage
  /\ LET m == Head(trader_rx)
         u == Messages[m].user
     IN  /\ Messages[m].topic = "create"
         /\ IF u \in traders
            THEN UNCHANGED << traders, trader, used >>
            ELSE /\ traders' = traders \cup {u}
                 /\ trader' = [trader EXCEPT ![u] = "running"]
                 /\ used' = [used EXCEPT ![u] = handle[m]]
         /\ DropHandle(m)
         /\ Answer(m)
  /\ trader_rx' = Tail(trader_rx)
  /\ UNCHANGED << consumed, engines, simulator_vars, forwarding, inbox, removed >>

(* The portfolio's store is unwrapped in create_trader: the engine panics, *)
(* the commands that wait are dropped with their handles.                  *)
TraderEnginePanics ==
  /\ "trader_engine" \in Faults
  /\ trader_rx # << >>
  /\ forwarding = NoMessage
  /\ Messages[Head(trader_rx)].topic = "create"
  /\ Messages[Head(trader_rx)].user \notin traders
  /\ engines' = engines \ {"trader"}
  /\ trader_rx' = << >>
  /\ handle' = [m \in Tasks |-> IF IsQueued(m, trader_rx) THEN NoHandle ELSE handle[m]]
  /\ UNCHANGED << consumed, task, simulator_vars, forwarding, actor_vars >>

(* terminate_trader and the others: a user without an entry is passed over *)
(* in silence.                                                             *)
TakeCommand ==
  /\ trader_rx # << >>
  /\ forwarding = NoMessage
  /\ LET m == Head(trader_rx)
     IN  /\ Messages[m].topic \in {"cancel", "command"}
         /\ forwarding' = IF Messages[m].user \in traders THEN m ELSE NoMessage
  /\ trader_rx' = Tail(trader_rx)
  /\ UNCHANGED << main_vars, engines, simulator_vars, actor_vars >>

(* command_tx.send().await holds the engine up while the trader's channel  *)
(* is full, and fails if the trader has ended.                             *)
ForwardCommand ==
  /\ forwarding # NoMessage
  /\ LET u == Messages[forwarding].user
     IN  IF trader[u] = "running"
         THEN /\ Len(inbox[u]) < TraderCap
              /\ inbox' = [inbox EXCEPT ![u] = Append(@, Messages[forwarding].topic)]
         ELSE UNCHANGED inbox
  /\ forwarding' = NoMessage
  /\ UNCHANGED << main_vars, engines, simulator_vars, trader_rx, traders, trader,
                  used, removed >>

-----------------------------------------------------------------------------
(* The traders.                                                            *)

(* The trader receives a command; Terminate ends it.                       *)
HandleCommand(u) ==
  /\ trader[u] = "running"
  /\ inbox[u] # << >>
  /\ IF Head(inbox[u]) = "cancel"
     THEN /\ trader' = [trader EXCEPT ![u] = "ended"]
          /\ inbox' = [inbox EXCEPT ![u] = << >>]
     ELSE /\ inbox' = [inbox EXCEPT ![u] = Tail(@)]
          /\ UNCHANGED trader
  /\ UNCHANGED << main_vars, engines, simulator_vars, trader_rx, forwarding,
                  traders, used, removed >>

(* The trader leaves its loop for a reason of its own.                     *)
TraderEnds(u) ==
  /\ trader[u] = "running"
  /\ trader' = [trader EXCEPT ![u] = "ended"]
  /\ inbox' = [inbox EXCEPT ![u] = << >>]
  /\ UNCHANGED << main_vars, engines, simulator_vars, trader_rx, forwarding,
                  traders, used, removed >>

(* The task that waits for the trader removes it from its own copy of the  *)
(* map: DashMap::clone copies the entries.                                 *)
RemoveTrader(u) ==
  /\ trader[u] = "ended"
  /\ u \notin removed
  /\ removed' = removed \cup {u}
  /\ UNCHANGED << main_vars, engines, simulator_vars, trader_rx, forwarding,
                  traders, trader, inbox, used >>

-----------------------------------------------------------------------------

MainNext ==
  \/ Consume
  \/ \E m \in Tasks :
       SendAddToken(m) \/ SendCreateTrader(m) \/ SendCommand(m) \/ TaskFails(m)

EngineNext ==
  \/ AddToken \/ SimulatorEngineStops
  \/ CreateTrader \/ TraderEnginePanics \/ TakeCommand \/ ForwardCommand

Next ==
  \/ MainNext \/ EngineNext
  \/ \E g \in Generations : SimulatorEnds(g) \/ SimulatorPanics(g) \/ RemoveSimulator(g)
  \/ \E u \in Users : HandleCommand(u) \/ TraderEnds(u) \/ RemoveTrader(u)

Spec == Init /\ [][Next]_vars

(* Every task and engine that can go on does; a block wakes the simulator; *)
(* a trader comes back to its select and to its commands, and ends when it *)
(* is told to (Executor: WaitingIsResolved, Trader: TerminateEnds).        *)
Fairness ==
  /\ WF_vars(Consume)
  /\ \A m \in Tasks :
       WF_vars(SendAddToken(m) \/ SendCreateTrader(m) \/ SendCommand(m) \/ TaskFails(m))
  /\ WF_vars(AddToken)
  /\ WF_vars(CreateTrader \/ TakeCommand \/ ForwardCommand)
  /\ \A g \in Generations : WF_vars(SimulatorEnds(g) \/ RemoveSimulator(g))
  /\ \A u \in Users : WF_vars(HandleCommand(u))

FairSpec == Spec /\ Fairness

-----------------------------------------------------------------------------
(* Properties.                                                             *)

(* Every variable has its type; the channels keep their capacity, and a    *)
(* generation is left for every new simulator.                             *)
TypeOK ==
  /\ consumed \in 0 .. Len(Messages)
  /\ task \in [Tasks -> TaskStates]
  /\ handle \in [Tasks -> {NoHandle} \cup Generations]
  /\ engines \subseteq {"simulator", "trader"}
  /\ simulator_rx \in Seq(Tasks) /\ Len(simulator_rx) <= Cap
  /\ trader_rx \in Seq(Tasks) /\ Len(trader_rx) <= Cap
  /\ forwarding \in {NoMessage} \cup Tasks
  /\ simulators \in {NoHandle} \cup Generations
  /\ simulator \in [Generations -> {"none", "running", "ended", "removed"}]
  /\ traders \subseteq Users
  /\ trader \in [Users -> {"none", "running", "ended"}]
  /\ inbox \in [Users -> Seq(Topics)]
  /\ \A u \in Users : Len(inbox[u]) <= TraderCap
  /\ used \in [Users -> {NoHandle} \cup Generations]
  /\ removed \subseteq Users

(* The token never has two simulators that run, and the one that runs is   *)
(* the one the map hands out: every trader listens to the same simulation. *)
OneSimulator ==
  \A g \in Generations : simulator[g] = "running" => simulators = g

(* When no trader runs any more, the simulators end and the map is empty:  *)
(* on no path, through either engine, through a failed task or through a   *)
(* create for an existing trader, does a handle stay behind that would     *)
(* keep a simulation going for nobody.                                     *)
SimulatorsGoWithTraders ==
  <>[](\A u \in Users : trader[u] # "running") => <>[](simulators = NoHandle)

(* Every message to create that can be read is answered in the end with    *)
(* the trader's id, over two bounded channels, two engines, two response   *)
(* channels and the traders' own channels, unless an engine is gone; and   *)
(* every other message gets through to the engine.                         *)
CreateIsAnswered ==
  <>(\A m \in Tasks :
       \/ task[m] = "done"
       \/ task[m] = "failed" /\ engines # {"simulator", "trader"}
       \/ Messages[m].topic = "malformed")

-----------------------------------------------------------------------------
(* What comments and messages of the code say and the code does not do.    *)

(* trader/mod.rs, create_trader: "Trader {:?} removed from map, {:?} left".*)
RemovedFromMap == removed \cap traders = {}

(* simulator/mod.rs, add_token: "Trader can always send requests to        *)
(* simulation_request and will receive new sims on rx".                    *)
HandleIsServed ==
  \A u \in Users : trader[u] = "running" => simulator[used[u]] = "running"

=============================================================================
