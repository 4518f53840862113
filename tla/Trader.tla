------------------------------- MODULE Trader -------------------------------
(***************************************************************************)
(* One trader (trader/trader.rs) with its portfolio (portfolio/*.rs): the  *)
(* actor that drains its own event queue, then selects between commands    *)
(* and the simulator's broadcast; the position and the profile it keeps in *)
(* the store; the requests it sends to the simulator; the order it hands   *)
(* to the executor and waits for.                                          *)
(*                                                                         *)
(* The other side of every channel is reduced to what the trader can see:  *)
(* the simulator publishes signals and serves requests in order, the       *)
(* executor lands the order or not and answers (module OrderService), the  *)
(* store persists over a restart.  A setting says how large the channels   *)
(* are, what may be sent through them and which faults may happen.         *)
(***************************************************************************)
EXTENDS Naturals, Sequences

CONSTANTS
  Settings,         (* The surroundings a trader may be started in.        *)
  MaxBuys,          (* Bound: buy orders that land.                        *)
  MaxInitials       (* Bound: orders for the initials that land.           *)

(* What a published event means to this trader.  "quiet" stands for all    *)
(* that lead to nothing: closed tokens, sales that are possible and cheap, *)
(* profits too small, signals of other traders.                            *)
AllSignals ==
  { "buyable",      (* Launch or Changed, taxes within the profile.        *)
    "overtaxed",    (* Launch or Changed, taxes above the profile's.       *)
    "rug",          (* SellSimulation: a honeypot worth escaping.          *)
    "profit",       (* BlockSellSimulation: above take_out_initials_at.    *)
    "quiet" }

AllCommands ==
  { "terminate", "rug_check_on", "rug_check_off", "force_exit", "take_profit" }

AllFaults ==
  { "unreported",   (* None is answered to an order that landed.           *)
    "crash",        (* The process crashes and is started again.           *)
    "store",        (* An operation on the store fails.                    *)
    "flat" }        (* A sale whose net profit is zero.                    *)

ASSUME TraderAssumption ==
  /\ Settings # {}
  /\ \A s \in Settings :
       /\ s.buffer \in Nat \ {0}     (* Capacity of the broadcast channel.   *)
       /\ s.inbox \in Nat \ {0}      (* Capacity of the command channel.     *)
       /\ s.service \in Nat \ {0}    (* Capacity of the request channel.     *)
       /\ s.signals \subseteq AllSignals
       /\ s.commands \subseteq AllCommands
       /\ s.faults \subseteq AllFaults
  /\ MaxBuys \in Nat
  /\ MaxInitials \in Nat

VARIABLES
  setting,          (* The surroundings of this behaviour; never changes.  *)
  pc,               (* Where Trader::run is.                               *)
  event_q,          (* The trader's own queue.                             *)
  command_rx,       (* Commands not yet received.                          *)
  simulation_rx,    (* Published signals not yet received.                 *)
  lagged,           (* A signal was overwritten before it was received.    *)
  requests,         (* Registrations the simulator has not yet served.     *)
  armed,            (* The simulator's sell_check has the trader's entry.  *)
  position,         (* Store: the open position.                           *)
  removed,          (* The position update_from_transaction has removed.   *)
  profile,          (* Store: the parts of the profile that decide.        *)
  order,            (* The order the executor has.                         *)
  holding,          (* Chain: the contract's wallets hold the token.       *)
  buys,             (* History: buy orders that landed.                    *)
  initials          (* History: orders for the initials that landed.       *)

mail_vars == << command_rx, simulation_rx, lagged >>
check_vars == << requests, armed >>
chain_vars == << order, holding, buys, initials >>
vars == << pc, event_q, mail_vars, check_vars, position, removed, profile,
           chain_vars >>

BufferCap  == setting.buffer
CommandCap == setting.inbox
RequestCap == setting.service
Signals    == setting.signals
Commands   == setting.commands
Faults     == setting.faults

-----------------------------------------------------------------------------

(* An open position counts as fresh while its realized_pnl is zero.        *)
Positions == { "none", "fresh", "realized" }

Sides == { "buy", "exit", "part", "initials" }

NoOrder == [side |-> "buy", stage |-> "none"]

Event(kind, arg) == [kind |-> kind, arg |-> arg]

Events ==
  [kind : {"signal"}, arg : Signals]
    \cup [kind : {"statistics"}, arg : {"fresh", "realized"}]
    \cup [kind : {"order", "transaction"}, arg : Sides]
    \cup [kind : {"position_new", "position_updated", "position_exited",
                  "terminated"}, arg : {"none"}]

Profiles == [anti_rug : BOOLEAN, first_only : BOOLEAN, strategy : BOOLEAN]

May(fault) == fault \in Faults

(* The signals of an entry check: its Launch is turned into Changed, so it *)
(* is a signal like the others; None when the simulation failed.           *)
EntryEvents ==
  { << Event("signal", s) >> : s \in Signals \cap {"buyable", "overtaxed", "quiet"} }
    \cup { << >> }

Init ==
  /\ setting \in Settings
  /\ pc = "entry"
  /\ event_q = << >>
  /\ command_rx = << >>
  /\ simulation_rx = << >>
  /\ lagged = FALSE
  /\ requests = << >>
  /\ armed = FALSE
  /\ position = "none"
  /\ removed = "none"
  /\ profile \in Profiles
  /\ order = NoOrder
  /\ holding = FALSE
  /\ buys = 0
  /\ initials = 0

-----------------------------------------------------------------------------
(* What the handlers are made of.                                          *)

(* The handler of an event of this kind pops it.                           *)
Handling(kind) ==
  /\ pc = "run"
  /\ event_q # << >>
  /\ Head(event_q).kind = kind

Finish == event_q' = Tail(event_q)

(* Mutant of Push: the handled event stays in the queue.                   *)
PushOnly(e) == event_q' = Append(event_q, e)

Push(e) == event_q' = Append(Tail(event_q), e)

(* break 'trader: the receivers are dropped.                               *)
Stop ==
  /\ pc' = "stopped"
  /\ event_q' = << >>
  /\ command_rx' = << >>
  /\ simulation_rx' = << >>
  /\ lagged' = FALSE

(* Gas is estimated by the simulator, which answers after it has served    *)
(* every earlier request of this trader; an estimate may be refused.       *)
Estimated == requests = << >>

(* Mutant of HasPosition: the store is not asked.                          *)
AnyPosition == TRUE

(* get_open_position: what allows a sale, and forbids a buy.               *)
HasPosition == position # "none"

(* An order that is only sent with an estimate, and one sent in any case.  *)
PlaceIfEstimated(side) ==
  /\ Estimated
  /\ Finish \/ Push(Event("order", side))

Place(side) == Estimated /\ Push(Event("order", side))

(* Mutant of UpdateAntiRug: the test sale is registered in any case.       *)
RegisterAlways ==
  /\ Len(requests) < RequestCap
  /\ requests' = Append(requests, "register")
  /\ UNCHANGED armed

(* update_antirug registers the test sale of an open position; without a   *)
(* position, or if the store cannot be read, it takes the entry away.      *)
UpdateAntiRug ==
  /\ Len(requests) < RequestCap
  /\ \E r \in { IF HasPosition THEN "register" ELSE "deregister" }
              \cup (IF May("store") THEN {"deregister"} ELSE {}) :
       requests' = Append(requests, r)
  /\ UNCHANGED armed

-----------------------------------------------------------------------------
(* Trader::run before and inside its loop.                                 *)

EntryCheck ==
  /\ pc = "entry"
  /\ pc' = "run"
  /\ event_q' \in EntryEvents
  /\ UNCHANGED << mail_vars, check_vars, position, removed, profile, chain_vars >>

(* SimulationEvent and BlockSimulationEvent, generate_order_from_...: only *)
(* a trader without a position buys.  Taxes above the limits, or a store   *)
(* that cannot be read, end the trader without any event.                  *)
HandleSimulation ==
  /\ Handling("signal")
  /\ Head(event_q).arg \in {"buyable", "overtaxed"}
  /\ \/ /\ ~HasPosition
        /\ Head(event_q).arg = "buyable"
        /\ PlaceIfEstimated("buy")
        /\ UNCHANGED << pc, mail_vars >>
     \/ /\ HasPosition
        /\ Finish
        /\ UNCHANGED << pc, mail_vars >>
     \/ /\ \/ ~HasPosition /\ Head(event_q).arg = "overtaxed"
           \/ May("store")
        /\ Stop
  /\ UNCHANGED << check_vars, position, removed, profile, chain_vars >>

(* SellSimulationEvent, generate_exit_order: with an open position and     *)
(* anti-rug switched on in the profile.                                    *)
HandleSellSimulation ==
  /\ Handling("signal")
  /\ Head(event_q).arg = "rug"
  /\ \/ HasPosition /\ profile.anti_rug /\ PlaceIfEstimated("exit")
     \/ (~HasPosition \/ ~profile.anti_rug \/ May("store")) /\ Finish
  /\ UNCHANGED << pc, mail_vars, check_vars, position, removed, profile, chain_vars >>

(* BlockSellSimulationEvent, get_trader_statistics: nothing without a      *)
(* position, or if the store cannot be read.                               *)
HandleBlockSell ==
  /\ Handling("signal")
  /\ Head(event_q).arg = "profit"
  /\ \/ HasPosition /\ Push(Event("statistics", position))
     \/ (~HasPosition \/ May("store")) /\ Finish
  /\ UNCHANGED << pc, mail_vars, check_vars, position, removed, profile, chain_vars >>

HandleQuiet ==
  /\ Handling("signal")
  /\ Head(event_q).arg = "quiet"
  /\ Finish
  /\ UNCHANGED << pc, mail_vars, check_vars, position, removed, profile, chain_vars >>

(* Mutant of InitialsDue: realized_pnl is not looked at.                   *)
ProfitDue == profile.strategy

(* The strategy of the profile, and statistics.realized_pnl == 0.          *)
InitialsDue == profile.strategy /\ Head(event_q).arg = "fresh"

(* TraderStatisticsUpdated, generate_strategy_order: half of the tokens    *)
(* are sold, unless the position has realized a profit already.            *)
HandleStatistics ==
  /\ Handling("statistics")
  /\ \/ InitialsDue /\ HasPosition /\ Place("initials")
     \/ (~InitialsDue \/ ~HasPosition \/ May("store")) /\ Finish
  /\ UNCHANGED << pc, mail_vars, check_vars, position, removed, profile, chain_vars >>

(* OrderNew: send to the executor and wait for the response.               *)
HandleOrder ==
  /\ Handling("order")
  /\ pc' = "ordering"
  /\ order' = [side |-> Head(event_q).arg, stage |-> "sent"]
  /\ Finish
  /\ UNCHANGED << mail_vars, check_vars, position, removed, profile, holding, buys,
                  initials >>

(* Mutant of AnswerSome: the transaction is not put into the queue.        *)
ForgetTransaction ==
  /\ pc = "ordering"
  /\ order.stage = "landed"
  /\ pc' = "run"
  /\ order' = NoOrder
  /\ UNCHANGED << event_q, mail_vars, check_vars, position, removed, profile,
                  holding, buys, initials >>

(* recv() returns Some(transaction).                                       *)
AnswerSome ==
  /\ pc = "ordering"
  /\ order.stage = "landed"
  /\ pc' = "run"
  /\ event_q' = Append(event_q, Event("transaction", order.side))
  /\ order' = NoOrder
  /\ UNCHANGED << mail_vars, check_vars, position, removed, profile, holding, buys,
                  initials >>

(* recv() returns None.  Only a buy carries the profile's transaction      *)
(* type; FirstOnly ends the trader.                                        *)
AnswerNone ==
  /\ pc = "ordering"
  /\ order.stage = "sent" \/ May("unreported")
  /\ pc' = "run"
  /\ event_q' = IF order.side = "buy" /\ profile.first_only
                THEN Append(event_q, Event("terminated", "none"))
                ELSE event_q
  /\ order' = NoOrder
  /\ UNCHANGED << mail_vars, check_vars, position, removed, profile, holding, buys,
                  initials >>

(* TransactionEvent, first half: the position is removed from the store.   *)
HandleTransaction ==
  /\ Handling("transaction")
  /\ Finish
  /\ \/ /\ pc' = "refreshing"
        /\ removed' = position
        /\ position' = "none"
     \/ /\ May("store")
        /\ UNCHANGED << pc, removed, position >>
  /\ UNCHANGED << mail_vars, check_vars, profile, chain_vars >>

(* Second half, after the balances have been read from the chain: a closed *)
(* position is gone, any other is stored.                                  *)
RefreshedPosition ==
  CASE removed = "none"     -> {"fresh"}
    [] removed = "realized" -> {"realized"}
    [] OTHER                -> {"realized"} \cup (IF May("flat") THEN {"fresh"} ELSE {})

RefreshPosition ==
  /\ pc = "refreshing"
  /\ pc' = "run"
  /\ removed' = "none"
  /\ \/ /\ removed # "none" /\ ~holding
        /\ event_q' = Append(event_q, Event("position_exited", "none"))
        /\ UNCHANGED position
     \/ /\ removed = "none" \/ holding
        /\ position' \in RefreshedPosition
        /\ event_q' = Append(event_q,
             Event(IF removed = "none" THEN "position_new" ELSE "position_updated",
                   "none"))
     \/ /\ removed = "none" \/ holding
        /\ May("store")
        /\ UNCHANGED << event_q, position >>
  /\ UNCHANGED << mail_vars, check_vars, profile, chain_vars >>

(* PositionNew and PositionUpdated.                                        *)
HandlePosition ==
  /\ Handling("position_new") \/ Handling("position_updated")
  /\ Finish
  /\ UpdateAntiRug
  /\ UNCHANGED << pc, mail_vars, position, removed, profile, chain_vars >>

(* Mutant of HandleEnd: the loop is not left.                              *)
GoOn ==
  /\ Handling("position_exited") \/ Handling("terminated")
  /\ Finish
  /\ UNCHANGED << pc, mail_vars, check_vars, position, removed, profile, chain_vars >>

(* PositionExited and TraderTerminated.                                    *)
HandleEnd ==
  /\ Handling("position_exited") \/ Handling("terminated")
  /\ Stop
  /\ UNCHANGED << check_vars, position, removed, profile, chain_vars >>

-----------------------------------------------------------------------------
(* The select! once the queue is empty.  Its branches are polled in random *)
(* order.  A branch whose pattern does not match is disabled until the     *)
(* select returns: after Lagged only a command is waited for ("deaf").     *)

Selecting == pc \in {"run", "deaf"} /\ event_q = << >>

RecvCommand ==
  /\ Selecting
  /\ command_rx # << >>
  /\ pc' = "run"
  /\ command_rx' = Tail(command_rx)
  /\ LET command == Head(command_rx)
     IN \/ /\ command = "terminate"
           /\ event_q' = << Event("terminated", "none") >>
           /\ UNCHANGED << profile, check_vars >>
        \/ /\ command \in {"rug_check_on", "rug_check_off"}
           /\ profile' = [profile EXCEPT !.anti_rug = (command = "rug_check_on")]
           /\ UpdateAntiRug
           /\ UNCHANGED event_q
        \/ /\ command \in {"force_exit", "take_profit"}
           /\ HasPosition
           /\ Estimated
           /\ event_q' = << Event("order", IF command = "force_exit"
                                           THEN "exit" ELSE "part") >>
           /\ UNCHANGED << profile, check_vars >>
        \/ /\ \/ command \in {"force_exit", "take_profit"} /\ ~HasPosition
              \/ command # "terminate" /\ May("store")
           /\ UNCHANGED << event_q, profile, check_vars >>
  /\ UNCHANGED << simulation_rx, lagged, position, removed, chain_vars >>

RecvSimulation ==
  /\ Selecting
  /\ pc = "run"
  /\ ~lagged
  /\ simulation_rx # << >>
  /\ event_q' = << Event("signal", Head(simulation_rx)) >>
  /\ simulation_rx' = Tail(simulation_rx)
  /\ UNCHANGED << pc, command_rx, lagged, check_vars, position, removed, profile,
                  chain_vars >>

RecvLagged ==
  /\ Selecting
  /\ pc = "run"
  /\ lagged
  /\ lagged' = FALSE
  /\ pc' = "deaf"
  /\ UNCHANGED << event_q, command_rx, simulation_rx, check_vars, position,
                  removed, profile, chain_vars >>

-----------------------------------------------------------------------------
(* The environment.                                                        *)

Alive == pc \notin {"stopped", "crashed"}

(* The simulator broadcasts: a full buffer loses its oldest signal.  Sales *)
(* are only simulated for the entries of sell_check.                       *)
Publish(s) ==
  /\ Alive
  /\ s \in {"rug", "profit"} => armed
  /\ IF Len(simulation_rx) < BufferCap
     THEN simulation_rx' = Append(simulation_rx, s) /\ UNCHANGED lagged
     ELSE simulation_rx' = Append(Tail(simulation_rx), s) /\ lagged' = TRUE
  /\ UNCHANGED << pc, event_q, command_rx, check_vars, position, removed, profile,
                  chain_vars >>

(* RegisterAntiRug replaces or inserts, DeRegisterAntiRug removes.         *)
ServeRequest ==
  /\ requests # << >>
  /\ requests' = Tail(requests)
  /\ armed' = (Head(requests) = "register")
  /\ UNCHANGED << pc, event_q, mail_vars, position, removed, profile, chain_vars >>

(* The trader engine forwards a command.                                   *)
Command(c) ==
  /\ Alive
  /\ Len(command_rx) < CommandCap
  /\ command_rx' = Append(command_rx, c)
  /\ UNCHANGED << pc, event_q, simulation_rx, lagged, check_vars, position,
                  removed, profile, chain_vars >>

(* The executor's bundle lands.  A manual sale may be of the whole.        *)
Land ==
  /\ order.stage = "sent"
  /\ order' = [order EXCEPT !.stage = "landed"]
  /\ \/ /\ order.side = "buy"
        /\ buys < MaxBuys
        /\ buys' = buys + 1
        /\ holding' = TRUE
        /\ UNCHANGED initials
     \/ /\ order.side = "exit"
        /\ holding' = FALSE
        /\ UNCHANGED << buys, initials >>
     \/ /\ order.side = "part"
        /\ holding' \in {FALSE, holding}
        /\ UNCHANGED << buys, initials >>
     \/ /\ order.side = "initials"
        /\ initials < MaxInitials
        /\ initials' = initials + 1
        /\ UNCHANGED << holding, buys >>
  /\ UNCHANGED << pc, event_q, mail_vars, check_vars, position, removed, profile >>

(* Everything but the store is lost.  The order may still land.            *)
Crash ==
  /\ May("crash")
  /\ Alive
  /\ pc' = "crashed"
  /\ event_q' = << >>
  /\ command_rx' = << >>
  /\ simulation_rx' = << >>
  /\ lagged' = FALSE
  /\ requests' = << >>
  /\ armed' = FALSE
  /\ removed' = "none"
  /\ UNCHANGED << position, profile, chain_vars >>

(* CreateTrader again, for the same token: a new profile, the position     *)
(* that the store has.                                                     *)
Restart ==
  /\ pc = "crashed"
  /\ pc' = "entry"
  /\ profile' \in Profiles
  /\ order' = NoOrder
  /\ UNCHANGED << event_q, mail_vars, check_vars, position, removed, holding, buys,
                  initials >>

-----------------------------------------------------------------------------

DrainNext ==
  \/ EntryCheck \/ HandleSimulation \/ HandleSellSimulation \/ HandleBlockSell
  \/ HandleQuiet \/ HandleStatistics \/ HandleOrder \/ HandleTransaction
  \/ RefreshPosition \/ HandlePosition \/ HandleEnd

SelectNext == RecvCommand \/ RecvSimulation \/ RecvLagged

EnvironmentNext ==
  \/ \E s \in Signals : Publish(s)
  \/ \E c \in Commands : Command(c)
  \/ ServeRequest \/ Land \/ AnswerSome \/ AnswerNone \/ Crash \/ Restart

Next ==
  /\ DrainNext \/ SelectNext \/ EnvironmentNext
  /\ UNCHANGED setting

Spec == Init /\ [][Next]_<< setting, vars >>

(* tokio polls the trader whenever it can go on.  The executor answers     *)
(* every order, the simulator serves its requests.  The select! picks its  *)
(* branches at random, so a command that is ready again and again is       *)
(* received in the end, however many signals arrive.                       *)
Fairness ==
  /\ WF_vars(DrainNext)
  /\ WF_vars(RecvSimulation \/ RecvLagged)
  /\ SF_vars(RecvCommand)
  /\ WF_vars(AnswerSome \/ AnswerNone)
  /\ WF_vars(ServeRequest)

FairSpec == Spec /\ Fairness

-----------------------------------------------------------------------------
(* Properties.                                                             *)

(* Every variable has its type and every channel keeps its capacity.  The  *)
(* trader's own queue never holds two events: no event is handled after a  *)
(* later one has changed what it was made from.                            *)
TypeOK ==
  /\ setting \in Settings
  /\ pc \in {"entry", "run", "deaf", "ordering", "refreshing", "stopped", "crashed"}
  /\ event_q \in Seq(Events) /\ Len(event_q) <= 1
  /\ command_rx \in Seq(Commands) /\ Len(command_rx) <= CommandCap
  /\ simulation_rx \in Seq(Signals) /\ Len(simulation_rx) <= BufferCap
  /\ lagged \in BOOLEAN
  /\ requests \in Seq({"register", "deregister"}) /\ Len(requests) <= RequestCap
  /\ armed \in BOOLEAN
  /\ position \in Positions
  /\ removed \in Positions
  /\ profile \in Profiles
  /\ order \in [side : Sides, stage : {"none", "sent", "landed"}]
  /\ holding \in BOOLEAN
  /\ buys \in 0 .. MaxBuys
  /\ initials \in 0 .. MaxInitials

(* The order that waits in the queue or at the executor was made for the   *)
(* position the trader has now: a buy for none, a sale for an open one.    *)
(* Between the decision and the answer there are a gas estimate, the       *)
(* channel and some blocks.                                                *)
OrderMatchesPosition ==
  \A side \in Sides :
    (\/ Event("order", side) \in { event_q[i] : i \in DOMAIN event_q }
     \/ pc = "ordering" /\ order = [side |-> side, stage |-> "sent"])
    => ((side = "buy") <=> (position = "none"))

(* Without faults a trader buys at most once, over all its signals and     *)
(* commands.                                                               *)
(* position.rs: "This is a sniper, only 1 buy than scaling out, so every   *)
(* other tx are just sells".                                               *)
SingleBuy == Faults = {} => buys <= 1

(* Without faults, whenever the trader listens, its stored position tells  *)
(* whether the contract holds tokens: no tokens without a position to sell *)
(* them from, no position of nothing.                                      *)
PositionAgrees ==
  Faults = {} /\ Selecting => (holding <=> position # "none")

(* Without faults, whenever the trader listens and its requests are        *)
(* served, the simulator tests sales for it exactly if it has a position.  *)
ArmedWithPosition ==
  Faults = {} /\ Selecting /\ requests = << >> => (armed <=> position # "none")

(* Without faults the initials are taken out of a position once at most    *)
(* (portfolio.rs: "Currently only take out initials and do not trigger     *)
(* again").                                                                *)
TakeInitialsOnce == Faults = {} => initials <= 1

(* A command to terminate ends the trader, however many signals it gets.   *)
TerminateEnds ==
  (\E i \in DOMAIN command_rx : command_rx[i] = "terminate") ~> ~Alive

-----------------------------------------------------------------------------
(* What comments of the code say and the code does not do.                 *)

(* simulator/mod.rs, add_token: "Trader can always send requests to        *)
(* simulation_request and will receive new sims on rx".                    *)
SignalsAreReceived ==
  (pc = "deaf" /\ simulation_rx # << >>) ~> pc # "deaf"

=============================================================================
