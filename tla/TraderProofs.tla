---------------------------- MODULE TraderProofs ----------------------------
(***************************************************************************)
(* Proofs about a trader in any surroundings: for any capacities of its    *)
(* channels, any signals and commands, any bounds.  The types and the      *)
(* match of orders and positions hold with any faults; one buy, one sale   *)
(* of the initials, the agreement with the chain and with the simulator    *)
(* hold without.                                                           *)
(***************************************************************************)
EXTENDS Trader, Integers, QueueLemmas, TLAPS

-----------------------------------------------------------------------------
(* The inductive invariant.                                                *)

(* The event in the trader's queue; there is never more than one.          *)
Kind == IF event_q = << >> THEN "nothing" ELSE Head(event_q).kind
Arg == Head(event_q).arg

OneEvent ==
  /\ event_q = << >> \/ \E e \in Events : event_q = << e >>
  /\ pc # "run" => event_q = << >>

(* An order of this side is in the queue, at the executor, or back as a    *)
(* transaction that the trader has not looked at.                          *)
InFlight(side) ==
  \/ Kind \in {"order", "transaction"} /\ Arg = side
  \/ pc = "ordering" /\ order.stage # "none" /\ order.side = side

(* The position is the one that the order was made for, up to the event    *)
(* that changes it.                                                        *)
FlightMatches ==
  /\ \A side \in Sides : InFlight(side) =>
       /\ (side = "buy") <=> (position = "none")
       /\ side = "initials" => position = "fresh"
  /\ Kind = "statistics" => Arg = position
  /\ pc = "refreshing" => position = "none"

(* The chain has the order, the trader's position does not have it yet.    *)
Landed(side) ==
  \/ Kind = "transaction" /\ Arg = side
  \/ pc = "ordering" /\ order = [side |-> side, stage |-> "landed"]

Settled == pc # "refreshing" /\ \A side \in Sides : ~Landed(side)

(* The trader has closed its position and is about to end.                 *)
Over == Kind = "position_exited" \/ pc = "stopped"

(* Without faults: tokens and position agree but for a landed order.       *)
HoldingsAgree ==
  /\ pc # "crashed"
  /\ order.stage # "none" => pc = "ordering"
  /\ Settled => (holding <=> position # "none")
  /\ Landed("buy") \/ (pc = "refreshing" /\ removed = "none") => holding

(* Without faults: what was bought is the position, or on its way there or *)
(* gone with it; so are the initials that were taken out.                  *)
BoughtOnce ==
  /\ buys <= 1
  /\ buys > 0 => position # "none" \/ Landed("buy") \/ pc = "refreshing" \/ Over

TakenOnce ==
  /\ initials <= 1
  /\ initials > 0 =>
       \/ position = "realized" \/ Landed("initials")
       \/ pc = "refreshing" /\ removed # "none"
       \/ Over

(* What sell_check will be once the requests are served.                   *)
WillBeArmed ==
  IF requests = << >> THEN armed ELSE requests[Len(requests)] = "register"

(* Without faults: the last request is for the position, but for the steps *)
(* between a change of the position and the request it leads to.           *)
ArmedForPosition ==
  \/ Over
  \/ pc = "refreshing" /\ (WillBeArmed <=> removed # "none")
  \/ Kind = "position_new" /\ ~WillBeArmed
  \/ /\ pc # "refreshing" /\ Kind # "position_new"
     /\ WillBeArmed <=> position # "none"

CalmInv ==
  Faults = {} => HoldingsAgree /\ BoughtOnce /\ TakenOnce /\ ArmedForPosition

TraderInv == TypeOK /\ OneEvent /\ FlightMatches /\ CalmInv

-----------------------------------------------------------------------------
(* The trader's queue.                                                     *)

(* Which events there are, and what they carry.                            *)
LEMMA EventFacts ==
  /\ \A e \in Events : e.kind # "nothing"
  /\ \A e \in Events : e.kind \in {"order", "transaction"} => e.arg \in Sides
  /\ \A e \in Events : e.kind = "statistics" => e.arg \in {"fresh", "realized"}
  /\ \A s \in Signals : Event("signal", s) \in Events
  /\ \A s \in {"fresh", "realized"} : Event("statistics", s) \in Events
  /\ \A s \in Sides : Event("order", s) \in Events /\ Event("transaction", s) \in Events
  /\ \A k \in {"position_new", "position_updated", "position_exited", "terminated"} :
       Event(k, "none") \in Events
  /\ \A k, a : Event(k, a).kind = k /\ Event(k, a).arg = a
<1>1. \A k, a : Event(k, a).kind = k /\ Event(k, a).arg = a
  BY DEF Event
<1>2. /\ \A e \in Events : e.kind # "nothing"
      /\ \A e \in Events : e.kind \in {"order", "transaction"} => e.arg \in Sides
      /\ \A e \in Events : e.kind = "statistics" => e.arg \in {"fresh", "realized"}
  BY DEF Events
<1>3. /\ \A s \in Signals : Event("signal", s) \in Events
      /\ \A s \in {"fresh", "realized"} : Event("statistics", s) \in Events
      /\ \A s \in Sides : Event("order", s) \in Events /\ Event("transaction", s) \in Events
      /\ \A k \in {"position_new", "position_updated", "position_exited", "terminated"} :
           Event(k, "none") \in Events
  BY DEF Event, Events
<1> QED BY <1>1, <1>2, <1>3

(* What the queue is before and after a step.                              *)
LEMMA QueueFacts ==
  ASSUME OneEvent
  PROVE  /\ event_q = << >> <=> Kind = "nothing"
         /\ event_q # << >> => Head(event_q) \in Events /\ Kind = Head(event_q).kind
         /\ \A k : Handling(k) => pc = "run" /\ event_q # << >> /\ Kind = k
         /\ Selecting => Kind = "nothing"
         /\ pc # "run" => Kind = "nothing"
         /\ event_q # << >> /\ Finish => event_q' = << >>
         /\ \A k, a : event_q # << >> /\ Push(Event(k, a)) => event_q' = << Event(k, a) >>
         /\ \A e : event_q = << >> => Append(event_q, e) = << e >>
<1>1. CASE event_q = << >>
  BY <1>1, OneQueued DEF Kind, Handling, Selecting
<1>2. CASE event_q # << >>
  <2>1. PICK e \in Events : event_q = << e >>
    BY <1>2 DEF OneEvent
  <2>2. Head(event_q) = e /\ Tail(event_q) = << >>
    BY <2>1, OneQueued
  <2>3. Kind = e.kind /\ e.kind # "nothing"
    BY <1>2, <2>2, EventFacts DEF Kind
  <2>4. \A x : Append(<< >>, x) = << x >>
    OBVIOUS
  <2> QED BY <1>2, <2>2, <2>3, <2>4 DEF Handling, Selecting, Finish, Push, OneEvent
<1> QED BY <1>1, <1>2

(* What a step that sets the event queue leaves at its head.               *)
LEMMA QueueAfter ==
  /\ event_q' = << >> => Kind' = "nothing"
  /\ \A k, a : event_q' = << Event(k, a) >> => Kind' = k /\ Arg' = a
  /\ event_q' = event_q => Kind' = Kind /\ Arg' = Arg
<1>1. \A k, a : << Event(k, a) >> # << >> /\ Head(<< Event(k, a) >>) = Event(k, a)
  BY OneQueued
<1> QED BY <1>1, EventFacts DEF Kind, Arg

-----------------------------------------------------------------------------
(* Types.                                                                  *)

(* A setting's capacities are at least one.                                *)
LEMMA SettingFacts ==
  ASSUME setting \in Settings
  PROVE  /\ BufferCap \in Nat \ {0}
         /\ CommandCap \in Nat \ {0}
         /\ RequestCap \in Nat \ {0}
  BY TraderAssumption DEF BufferCap, CommandCap, RequestCap

(* The types hold at the start.                                            *)
LEMMA InitTypes == Init => TypeOK /\ OneEvent
<1> SUFFICES ASSUME Init PROVE TypeOK /\ OneEvent
  OBVIOUS
<1>1. \A S : << >> \in Seq(S)
  OBVIOUS
<1>2. Len(<< >>) = 0
  OBVIOUS
<1>3. 0 <= BufferCap /\ 0 <= CommandCap /\ 0 <= RequestCap
  BY SettingFacts DEF Init
<1>4. order \in [side : Sides, stage : {"none", "sent", "landed"}]
  BY DEF Init, NoOrder, Sides
<1>5. buys \in 0 .. MaxBuys /\ initials \in 0 .. MaxInitials
  BY TraderAssumption DEF Init
<1>6. OneEvent
  BY DEF Init, OneEvent
<1>7. /\ setting \in Settings /\ pc = "entry" /\ lagged = FALSE /\ armed = FALSE
      /\ event_q = << >> /\ command_rx = << >> /\ simulation_rx = << >> /\ requests = << >>
      /\ position = "none" /\ removed = "none" /\ profile \in Profiles /\ holding = FALSE
  BY DEF Init
<1>8. /\ position \in Positions /\ removed \in Positions
      /\ lagged \in BOOLEAN /\ armed \in BOOLEAN /\ holding \in BOOLEAN
  BY <1>7 DEF Positions
<1>9. /\ command_rx \in Seq(Commands) /\ Len(command_rx) <= CommandCap
      /\ simulation_rx \in Seq(Signals) /\ Len(simulation_rx) <= BufferCap
      /\ requests \in Seq({"register", "deregister"}) /\ Len(requests) <= RequestCap
      /\ event_q \in Seq(Events) /\ Len(event_q) <= 1
  BY <1>1, <1>2, <1>3, <1>7
<1> QED BY <1>4, <1>5, <1>6, <1>7, <1>8, <1>9 DEF TypeOK

(* The types that have nothing to do with the trader's own queue.          *)
RestTypes ==
  /\ setting \in Settings
  /\ command_rx \in Seq(Commands) /\ Len(command_rx) <= CommandCap
  /\ simulation_rx \in Seq(Signals) /\ Len(simulation_rx) <= BufferCap
  /\ lagged \in BOOLEAN
  /\ requests \in Seq({"register", "deregister"}) /\ Len(requests) <= RequestCap
  /\ armed \in BOOLEAN
  /\ position \in Positions
  /\ removed \in Positions
  /\ profile \in Profiles
  /\ order \in [side : Sides, stage : {"none", "sent", "landed"}]
  /\ holding \in BOOLEAN
  /\ buys \in 0 .. MaxBuys
  /\ initials \in 0 .. MaxInitials

QueueTypes ==
  /\ pc \in {"entry", "run", "deaf", "ordering", "refreshing", "stopped", "crashed"}
  /\ OneEvent

(* The types are those of the event queue and those of the rest.           *)
LEMMA TypesSplit == TypeOK /\ OneEvent <=> RestTypes /\ QueueTypes
<1>1. OneEvent => event_q \in Seq(Events) /\ Len(event_q) <= 1
  <2>1. CASE event_q = << >>
    BY <2>1, EmptySeq
  <2>2. ASSUME NEW e \in Events, event_q = << e >>
        PROVE  event_q \in Seq(Events) /\ Len(event_q) <= 1
    <3>1. << e >> \in Seq(Events) /\ Len(<< e >>) = 1
      BY OneQueued
    <3> QED BY <2>2, <3>1
  <2> QED BY <2>1, <2>2 DEF OneEvent
<1> QED BY <1>1 DEF TypeOK, RestTypes, QueueTypes

(* Every step leaves at most one event in the queue, a proper one.         *)
LEMMA QueueStep == TypeOK /\ OneEvent /\ Next => QueueTypes'
<1> SUFFICES ASSUME TypeOK, OneEvent, Next PROVE QueueTypes'
  OBVIOUS
<1> USE QueueFacts, EventFacts
<1> DEFINE Fits == event_q' = << >> \/ \E e \in Events' : event_q' = << e >>
<1>1. Events' = Events
  BY DEF Next, Events, Signals
<1>2. ASSUME pc' \in {"entry", "run", "deaf", "ordering", "refreshing", "stopped",
                      "crashed"},
             event_q' = << >>
      PROVE  QueueTypes'
  BY <1>2 DEF QueueTypes, OneEvent
<1>3. ASSUME pc' = "run", NEW e \in Events, event_q' = << e >> PROVE QueueTypes'
  BY <1>1, <1>3 DEF QueueTypes, OneEvent
<1>4. CASE UNCHANGED << pc, event_q >>
  BY <1>1, <1>4 DEF QueueTypes, OneEvent, TypeOK
<1>5. CASE EntryCheck
  BY <1>2, <1>3, <1>5 DEF EntryCheck, EntryEvents
<1>6. CASE HandleSimulation
  BY <1>2, <1>3, <1>6 DEF HandleSimulation, PlaceIfEstimated, Stop, Sides
<1>7. CASE HandleSellSimulation
  BY <1>2, <1>3, <1>7 DEF HandleSellSimulation, PlaceIfEstimated, Sides
<1>8. CASE HandleBlockSell
  <2>1. HasPosition => position \in {"fresh", "realized"}
    BY DEF HasPosition, TypeOK, Positions
  <2> QED BY <1>2, <1>3, <1>8, <2>1 DEF HandleBlockSell
<1>9. CASE HandleQuiet
  BY <1>2, <1>9 DEF HandleQuiet
<1>10. CASE HandleStatistics
  BY <1>2, <1>3, <1>10 DEF HandleStatistics, Place, Sides
<1>11. CASE HandleOrder
  BY <1>2, <1>11 DEF HandleOrder
<1>12. CASE HandleTransaction
  BY <1>2, <1>12 DEF HandleTransaction
<1>13. CASE RefreshPosition
  BY <1>2, <1>3, <1>13 DEF RefreshPosition
<1>14. CASE HandlePosition
  BY <1>2, <1>14 DEF HandlePosition
<1>15. CASE HandleEnd
  BY <1>2, <1>15 DEF HandleEnd, Stop
<1>16. CASE RecvCommand
  BY <1>2, <1>3, <1>16 DEF RecvCommand, Sides, Selecting
<1>17. CASE RecvSimulation
  <2>1. Head(simulation_rx) \in Signals
    BY <1>17, Dequeued DEF RecvSimulation, TypeOK
  <2> QED BY <1>3, <1>17, <2>1 DEF RecvSimulation
<1>18. CASE RecvLagged
  BY <1>2, <1>18 DEF RecvLagged, Selecting
<1>19. CASE AnswerSome
  <2>1. order.side \in Sides
    BY DEF TypeOK
  <2> QED BY <1>3, <1>19, <2>1 DEF AnswerSome
<1>20. CASE AnswerNone
  BY <1>2, <1>3, <1>20 DEF AnswerNone
<1>21. CASE Crash
  BY <1>2, <1>21 DEF Crash
<1>22. CASE Restart
  BY <1>2, <1>22 DEF Restart
<1>23. CASE \/ \E s \in Signals : Publish(s)
            \/ \E c \in Commands : Command(c)
            \/ ServeRequest \/ Land
  BY <1>4, <1>23 DEF Publish, Command, ServeRequest, Land
<1> QED
  BY <1>5, <1>6, <1>7, <1>8, <1>9, <1>10, <1>11, <1>12, <1>13, <1>14, <1>15, <1>16,
     <1>17, <1>18, <1>19, <1>20, <1>21, <1>22, <1>23
  DEF Next, DrainNext, SelectNext, EnvironmentNext

(* Every step keeps the types of everything else.                          *)
LEMMA RestStep == TypeOK /\ OneEvent /\ Next => RestTypes'
<1> SUFFICES ASSUME TypeOK, OneEvent, Next PROVE RestTypes'
  OBVIOUS
<1>1. /\ setting' = setting /\ Commands' = Commands /\ Signals' = Signals
      /\ BufferCap' = BufferCap /\ CommandCap' = CommandCap /\ RequestCap' = RequestCap
  BY DEF Next, Commands, Signals, BufferCap, CommandCap, RequestCap
<1>2. /\ BufferCap \in Nat \ {0} /\ CommandCap \in Nat \ {0} /\ RequestCap \in Nat \ {0}
  BY SettingFacts DEF TypeOK
<1>e. \A S : << >> \in Seq(S)
  OBVIOUS
<1>l. Len(<< >>) <= BufferCap /\ Len(<< >>) <= CommandCap /\ Len(<< >>) <= RequestCap
  <2>1. Len(<< >>) = 0
    OBVIOUS
  <2> QED BY <1>2, <2>1
<1>3. /\ command_rx' \in Seq(Commands) /\ Len(command_rx') <= CommandCap
  <2>1. CASE UNCHANGED command_rx
    BY <2>1 DEF TypeOK
  <2>2. CASE command_rx' = << >>
    BY <1>e, <1>l, <2>2
  <2>3. CASE RecvCommand
    BY <1>2, <2>3, Dequeued DEF RecvCommand, TypeOK
  <2>4. ASSUME NEW c \in Commands, Command(c)
        PROVE  command_rx' \in Seq(Commands) /\ Len(command_rx') <= CommandCap
    BY <1>2, <2>4, Enqueued DEF Command, TypeOK
  <2> QED
    BY <2>1, <2>2, <2>3, <2>4
    DEF Next, DrainNext, SelectNext, EnvironmentNext, EntryCheck, HandleSimulation,
        HandleSellSimulation, HandleBlockSell, HandleQuiet, HandleStatistics, HandleOrder,
        HandleTransaction, RefreshPosition, HandlePosition, HandleEnd, RecvSimulation,
        RecvLagged, Publish, ServeRequest, Land, AnswerSome, AnswerNone, Crash, Restart,
        Stop, mail_vars
<1>4. /\ simulation_rx' \in Seq(Signals) /\ Len(simulation_rx') <= BufferCap
      /\ lagged' \in BOOLEAN
  <2> DEFINE Fits == /\ simulation_rx' \in Seq(Signals) /\ Len(simulation_rx') <= BufferCap
                     /\ lagged' \in BOOLEAN
  <2>1. CASE UNCHANGED << simulation_rx, lagged >>
    BY <2>1 DEF TypeOK
  <2>2. CASE simulation_rx' = << >> /\ lagged' = FALSE
    BY <1>e, <1>l, <2>2
  <2>3. CASE RecvSimulation
    BY <1>2, <2>3, Dequeued DEF RecvSimulation, TypeOK
  <2>4. CASE RecvLagged
    BY <2>4 DEF RecvLagged, TypeOK
  <2>5. ASSUME NEW s \in Signals, Publish(s) PROVE Fits
    <3>1. CASE Len(simulation_rx) < BufferCap
      <4>1. /\ simulation_rx' = Append(simulation_rx, s) /\ lagged' = lagged
            /\ simulation_rx \in Seq(Signals) /\ lagged \in BOOLEAN
        BY <2>5, <3>1 DEF Publish, TypeOK
      <4>2. /\ simulation_rx' \in Seq(Signals) /\ Len(simulation_rx) \in Nat
            /\ Len(simulation_rx') = Len(simulation_rx) + 1
        BY <4>1, Enqueued
      <4> QED BY <1>2, <3>1, <4>1, <4>2
    <3>2. CASE ~(Len(simulation_rx) < BufferCap)
      <4>1. simulation_rx # << >>
        BY <1>2, <3>2, EmptySeq
      <4>2. Tail(simulation_rx) \in Seq(Signals) /\ Len(Tail(simulation_rx)) < BufferCap
        BY <1>2, <4>1, Dequeued DEF TypeOK
      <4> QED BY <1>2, <2>5, <3>2, <4>2, Enqueued DEF Publish
    <3> QED BY <3>1, <3>2
  <2> QED
    BY <2>1, <2>2, <2>3, <2>4, <2>5
    DEF Next, DrainNext, SelectNext, EnvironmentNext, EntryCheck, HandleSimulation,
        HandleSellSimulation, HandleBlockSell, HandleQuiet, HandleStatistics, HandleOrder,
        HandleTransaction, RefreshPosition, HandlePosition, HandleEnd, RecvCommand,
        Command, ServeRequest, Land, AnswerSome, AnswerNone, Crash, Restart,
        Stop, mail_vars
<1>5. /\ requests' \in Seq({"register", "deregister"}) /\ Len(requests') <= RequestCap
      /\ armed' \in BOOLEAN
  <2> DEFINE Fits == /\ requests' \in Seq({"register", "deregister"})
                     /\ Len(requests') <= RequestCap
                     /\ armed' \in BOOLEAN
  <2>1. CASE UNCHANGED << requests, armed >>
    BY <2>1 DEF TypeOK
  <2>2. CASE UpdateAntiRug
    BY <1>2, <2>2, Enqueued DEF UpdateAntiRug, TypeOK
  <2>3. CASE ServeRequest
    BY <1>2, <2>3, Dequeued DEF ServeRequest, TypeOK
  <2>4. CASE Crash
    BY <1>e, <1>l, <2>4 DEF Crash
  <2> QED
    BY <2>1, <2>2, <2>3, <2>4
    DEF Next, DrainNext, SelectNext, EnvironmentNext, EntryCheck, HandleSimulation,
        HandleSellSimulation, HandleBlockSell, HandleQuiet, HandleStatistics, HandleOrder,
        HandleTransaction, RefreshPosition, HandlePosition, HandleEnd, RecvCommand,
        RecvSimulation, RecvLagged, Publish, Command, Land, AnswerSome, AnswerNone, Restart,
        check_vars
<1>6. position' \in Positions /\ removed' \in Positions /\ profile' \in Profiles
  <2>1. CASE UNCHANGED << position, removed, profile >>
    BY <2>1 DEF TypeOK
  <2>2. CASE HandleTransaction
    BY <2>2 DEF HandleTransaction, TypeOK, Positions
  <2>3. CASE RefreshPosition
    <3>1. RefreshedPosition \subseteq Positions
      BY DEF RefreshedPosition, Positions
    <3> QED BY <2>3, <3>1 DEF RefreshPosition, TypeOK, Positions
  <2>4. CASE RecvCommand
    <3>1. \A b \in BOOLEAN : [profile EXCEPT !.anti_rug = b] \in Profiles
      BY DEF TypeOK, Profiles
    <3> QED BY <2>4, <3>1 DEF RecvCommand, TypeOK
  <2>5. CASE Crash
    BY <2>5 DEF Crash, TypeOK, Positions
  <2>6. CASE Restart
    BY <2>6 DEF Restart, TypeOK
  <2> QED
    BY <2>1, <2>2, <2>3, <2>4, <2>5, <2>6
    DEF Next, DrainNext, SelectNext, EnvironmentNext, EntryCheck, HandleSimulation,
        HandleSellSimulation, HandleBlockSell, HandleQuiet, HandleStatistics, HandleOrder,
        HandlePosition, HandleEnd, RecvSimulation, RecvLagged, Publish, Command,
        ServeRequest, Land, AnswerSome, AnswerNone
<1>7. /\ order' \in [side : Sides, stage : {"none", "sent", "landed"}]
      /\ holding' \in BOOLEAN
      /\ buys' \in 0 .. MaxBuys
      /\ initials' \in 0 .. MaxInitials
  <2>1. CASE UNCHANGED chain_vars
    BY <2>1 DEF TypeOK, chain_vars
  <2>2. CASE HandleOrder
    <3>1. Head(event_q).arg \in Sides
      BY <2>2, QueueFacts, EventFacts DEF HandleOrder, Handling
    <3> QED BY <2>2, <3>1 DEF HandleOrder, TypeOK
  <2>3. CASE AnswerSome \/ AnswerNone \/ Restart
    <3>1. NoOrder \in [side : Sides, stage : {"none", "sent", "landed"}]
      BY DEF NoOrder, Sides
    <3> QED BY <2>3, <3>1 DEF AnswerSome, AnswerNone, Restart, TypeOK
  <2>4. CASE Land
    <3>1. order' \in [side : Sides, stage : {"none", "sent", "landed"}]
      BY <2>4 DEF Land, TypeOK
    <3>2. holding' \in BOOLEAN
      BY <2>4 DEF Land, TypeOK
    <3>3. buys' \in 0 .. MaxBuys /\ initials' \in 0 .. MaxInitials
      <4>1. /\ buys \in 0 .. MaxBuys /\ initials \in 0 .. MaxInitials
            /\ MaxBuys \in Nat /\ MaxInitials \in Nat
        BY TraderAssumption DEF TypeOK
      <4>2. \/ buys' = buys /\ initials' = initials
            \/ buys' = buys + 1 /\ buys < MaxBuys /\ initials' = initials
            \/ buys' = buys /\ initials' = initials + 1 /\ initials < MaxInitials
        BY <2>4 DEF Land
      <4> QED BY <4>1, <4>2
    <3> QED BY <3>1, <3>2, <3>3
  <2> QED
    BY <2>1, <2>2, <2>3, <2>4
    DEF Next, DrainNext, SelectNext, EnvironmentNext, EntryCheck, HandleSimulation,
        HandleSellSimulation, HandleBlockSell, HandleQuiet, HandleStatistics,
        HandleTransaction, RefreshPosition, HandlePosition, HandleEnd, RecvCommand,
        RecvSimulation, RecvLagged, Publish, Command, ServeRequest, Crash, chain_vars
<1>8. setting' \in Settings
  BY <1>1 DEF TypeOK
<1> QED BY <1>1, <1>3, <1>4, <1>5, <1>6, <1>7, <1>8 DEF RestTypes

(* So every step keeps the types.                                          *)
LEMMA StepTypes ==
  TypeOK /\ OneEvent /\ [Next]_<< setting, vars >> => (TypeOK /\ OneEvent)'
<1> SUFFICES ASSUME TypeOK, OneEvent, [Next]_<< setting, vars >>
             PROVE  TypeOK' /\ OneEvent'
  OBVIOUS
<1>1. CASE Next
  BY <1>1, QueueStep, RestStep, TypesSplit, PTL
<1>2. CASE UNCHANGED << setting, vars >>
  <2>1. /\ UNCHANGED << setting, pc, event_q, position, removed, profile >>
        /\ UNCHANGED << command_rx, simulation_rx, lagged, requests, armed >>
        /\ UNCHANGED << order, holding, buys, initials >>
    BY <1>2 DEF vars, mail_vars, check_vars, chain_vars
  <2> QED
    BY <2>1
    DEF TypeOK, OneEvent, Events, Signals, Commands, BufferCap, CommandCap, RequestCap
<1> QED BY <1>1, <1>2

-----------------------------------------------------------------------------
(* The shapes of a step: what an action does to the event in the queue, to *)
(* the position, the order and the chain, whatever else it does.           *)

Keeps == UNCHANGED << position, removed, order, holding, buys, initials >>

Listening == pc \in {"entry", "run", "deaf"}

Idle == Kind \in {"nothing", "signal", "statistics"}

(* The trader ends, on an event that is not an order's.                    *)
Ends ==
  /\ Keeps
  /\ pc = "run" /\ Kind \notin {"order", "transaction"}
  /\ pc' = "stopped" /\ Kind' = "nothing"

(* An event is received or handled and does not become an order.           *)
Waits ==
  /\ Keeps
  /\ Listening /\ Idle
  /\ pc' \in {"run", "deaf"}
  /\ Kind' \in {"nothing", "signal", "statistics", "terminated"}
  /\ Kind' = "statistics" => Arg' = position
  /\ WillBeArmed' = WillBeArmed

(* An event becomes an order, for the position that the store has.         *)
Decides ==
  /\ Keeps
  /\ Listening /\ Idle
  /\ pc' = "run" /\ Kind' = "order" /\ Arg' \in Sides
  /\ (Arg' = "buy") <=> (position = "none")
  /\ Arg' = "initials" => position = "fresh"
  /\ WillBeArmed' = WillBeArmed

Sends ==
  /\ UNCHANGED << position, removed, holding, buys, initials >>
  /\ pc = "run" /\ Kind = "order" /\ Arg \in Sides
  /\ pc' = "ordering" /\ Kind' = "nothing"
  /\ order' = [side |-> Arg, stage |-> "sent"]
  /\ WillBeArmed' = WillBeArmed

Answers ==
  /\ UNCHANGED << position, removed, holding, buys, initials >>
  /\ pc = "ordering" /\ Kind = "nothing"
  /\ pc' = "run" /\ order' = NoOrder
  /\ \/ order.stage = "landed" /\ Kind' = "transaction" /\ Arg' = order.side
     \/ /\ order.stage = "sent" \/ Faults # {}
        /\ Kind' \in {"nothing", "terminated"}
  /\ WillBeArmed' = WillBeArmed

Removes ==
  /\ UNCHANGED << order, holding, buys, initials >>
  /\ pc = "run" /\ Kind = "transaction" /\ Arg \in Sides
  /\ Kind' = "nothing"
  /\ \/ pc' = "refreshing" /\ removed' = position /\ position' = "none"
     \/ Faults # {} /\ UNCHANGED << pc, removed, position >>
  /\ WillBeArmed' = WillBeArmed

Stores ==
  /\ UNCHANGED << order, holding, buys, initials >>
  /\ pc = "refreshing" /\ Kind = "nothing"
  /\ pc' = "run" /\ removed' = "none"
  /\ \/ /\ removed # "none" /\ ~holding
        /\ Kind' = "position_exited" /\ position' = position
     \/ /\ removed = "none" \/ holding
        /\ Kind' = IF removed = "none" THEN "position_new" ELSE "position_updated"
        /\ position' # "none"
        /\ Faults = {} /\ removed # "none" => position' = "realized"
     \/ Faults # {} /\ Kind' = "nothing" /\ position' = position
  /\ WillBeArmed' = WillBeArmed

(* The test sale is registered for the position that the store has.        *)
Registers ==
  /\ Keeps
  /\ pc \in {"run", "deaf"} /\ Kind \in {"nothing", "position_new", "position_updated"}
  /\ pc' = "run" /\ Kind' = "nothing"
  /\ Faults = {} => (WillBeArmed' <=> position # "none")

Outside ==
  /\ Keeps
  /\ pc' = pc /\ Kind' = Kind /\ Arg' = Arg /\ WillBeArmed' = WillBeArmed

Lands ==
  /\ UNCHANGED << position, removed >>
  /\ pc' = pc /\ Kind' = Kind /\ Arg' = Arg /\ WillBeArmed' = WillBeArmed
  /\ order.stage = "sent" /\ order.side \in Sides
  /\ order' = [side |-> order.side, stage |-> "landed"]
  /\ \/ order.side = "buy" /\ buys' = buys + 1 /\ holding' /\ initials' = initials
     \/ order.side \in {"exit", "part"} /\ buys' = buys /\ initials' = initials
     \/ order.side = "initials" /\ buys' = buys /\ initials' = initials + 1

Crashes ==
  /\ UNCHANGED << position, order, holding, buys, initials >>
  /\ Faults # {}
  /\ pc' = "crashed" /\ Kind' = "nothing"

Restarts ==
  /\ UNCHANGED << position, removed, holding, buys, initials >>
  /\ pc = "crashed" /\ Kind = "nothing"
  /\ pc' = "entry" /\ Kind' = "nothing"
  /\ order' = NoOrder

Shape ==
  \/ Ends \/ Waits \/ Decides \/ Sends \/ Answers \/ Removes \/ Stores
  \/ Registers \/ Outside \/ Lands \/ Crashes \/ Restarts

(* A request at the end of the channel decides what sell_check will be,    *)
(* and serving one does not change that.                                   *)
LEMMA WillFacts ==
  ASSUME TypeOK
  PROVE  /\ UNCHANGED check_vars => WillBeArmed' = WillBeArmed
         /\ \A r \in {"register", "deregister"} :
              requests' = Append(requests, r) => (WillBeArmed' <=> r = "register")
         /\ ServeRequest => WillBeArmed' = WillBeArmed
<1>0. requests \in Seq({"register", "deregister"}) /\ armed \in BOOLEAN
  BY DEF TypeOK
<1>1. UNCHANGED check_vars => WillBeArmed' = WillBeArmed
  BY DEF check_vars, WillBeArmed
<1>2. ASSUME NEW r \in {"register", "deregister"}, requests' = Append(requests, r)
      PROVE  WillBeArmed' <=> r = "register"
  <2>1. /\ Len(requests) \in Nat
        /\ Len(requests') = Len(requests) + 1
        /\ requests'[Len(requests) + 1] = r
    BY <1>0, <1>2, Enqueued
  <2>2. requests' # << >>
    BY <1>2
  <2> QED BY <2>1, <2>2 DEF WillBeArmed
<1>3. ASSUME ServeRequest PROVE WillBeArmed' = WillBeArmed
  <2> DEFINE rest == Tail(requests)
  <2>1. /\ requests # << >> /\ requests' = rest
        /\ armed' = (Head(requests) = "register")
    BY <1>3 DEF ServeRequest
  <2>2. /\ Head(requests) = requests[1]
        /\ Len(requests) \in Nat \ {0}
        /\ rest \in Seq({"register", "deregister"})
        /\ Len(rest) \in Nat /\ Len(rest) = Len(requests) - 1
        /\ \A i \in 1 .. Len(rest) : rest[i] = requests[i + 1]
    BY <1>0, <2>1, Dequeued
  <2> HIDE DEF rest
  <2>3. CASE rest = << >>
    <3>1. Len(rest) = 0
      BY <2>3
    <3>2. Len(requests) = 1
      BY <2>2, <3>1
    <3> QED BY <2>1, <2>2, <2>3, <3>2 DEF WillBeArmed
  <2>4. CASE rest # << >>
    <3>1. Len(rest) \in 1 .. Len(rest) /\ Len(rest) + 1 = Len(requests)
      BY <2>2, <2>4, EmptySeq
    <3>2. rest[Len(rest)] = requests[Len(requests)]
      BY <2>2, <3>1
    <3> QED BY <2>1, <2>4, <3>2 DEF WillBeArmed
  <2> QED BY <2>3, <2>4
<1> QED BY <1>1, <1>2, <1>3

(* Every step has one of the shapes, and the parts of the invariant are    *)
(* proved over those.                                                      *)
LEMMA Shapes ==
  TypeOK /\ OneEvent /\ FlightMatches /\ [Next]_<< setting, vars >> => Shape
<1> SUFFICES ASSUME TypeOK, OneEvent, FlightMatches, [Next]_<< setting, vars >>
             PROVE  Shape
  OBVIOUS
<1> USE QueueFacts, QueueAfter, EventFacts DEF Keeps, Listening, Idle, chain_vars
<1>1. CASE EntryCheck
  <2>1. Waits
    BY <1>1, WillFacts DEF EntryCheck, EntryEvents, Waits
  <2> QED BY <2>1 DEF Shape
<1>2. CASE HandleSimulation
  <2>1. /\ Keeps /\ Listening /\ Kind = "signal" /\ pc = "run"
        /\ WillBeArmed' = WillBeArmed /\ event_q # << >>
    BY <1>2, WillFacts DEF HandleSimulation
  <2>2. CASE Stop
    BY <2>1, <2>2 DEF Stop, Ends, Shape
  <2>3. CASE Finish /\ pc' = pc
    BY <2>1, <2>3 DEF Waits, Shape
  <2>4. CASE Push(Event("order", "buy")) /\ pc' = pc /\ position = "none"
    BY <2>1, <2>4 DEF Decides, Shape, Sides
  <2> QED BY <1>2, <2>2, <2>3, <2>4 DEF HandleSimulation, PlaceIfEstimated, HasPosition
<1>3. CASE HandleSellSimulation
  <2>1. /\ Keeps /\ Listening /\ Kind = "signal" /\ pc' = "run"
        /\ WillBeArmed' = WillBeArmed /\ event_q # << >>
    BY <1>3, WillFacts DEF HandleSellSimulation
  <2>2. CASE Finish
    BY <2>1, <2>2 DEF Waits, Shape
  <2>3. CASE Push(Event("order", "exit")) /\ position # "none"
    BY <2>1, <2>3 DEF Decides, Shape, Sides
  <2> QED BY <1>3, <2>2, <2>3 DEF HandleSellSimulation, PlaceIfEstimated, HasPosition
<1>4. CASE HandleBlockSell
  <2>1. /\ Keeps /\ Listening /\ Kind = "signal" /\ pc' = "run"
        /\ WillBeArmed' = WillBeArmed /\ event_q # << >>
    BY <1>4, WillFacts DEF HandleBlockSell
  <2>2. \/ Kind' = "nothing"
        \/ Kind' = "statistics" /\ Arg' = position
    BY <1>4, <2>1 DEF HandleBlockSell
  <2> QED BY <2>1, <2>2 DEF Waits, Shape
<1>5. CASE HandleQuiet
  BY <1>5, WillFacts DEF HandleQuiet, Waits, Shape
<1>6. CASE HandleStatistics
  <2>1. /\ Keeps /\ Listening /\ Kind = "statistics" /\ pc' = "run"
        /\ WillBeArmed' = WillBeArmed /\ event_q # << >>
    BY <1>6, WillFacts DEF HandleStatistics
  <2>2. CASE Finish
    BY <2>1, <2>2 DEF Waits, Shape
  <2>3. CASE Push(Event("order", "initials")) /\ InitialsDue
    <3>1. position = "fresh"
      BY <2>1, <2>3 DEF InitialsDue, FlightMatches, Arg
    <3> QED BY <2>1, <2>3, <3>1 DEF Decides, Shape, Sides
  <2> QED BY <1>6, <2>2, <2>3 DEF HandleStatistics, Place
<1>7. CASE HandleOrder
  <2>1. Sends
    BY <1>7, WillFacts DEF HandleOrder, Sends, Arg
  <2> QED BY <2>1 DEF Shape
<1>8. CASE HandleTransaction
  <2>1. Removes
    BY <1>8, WillFacts DEF HandleTransaction, Removes, May, Arg
  <2> QED BY <2>1 DEF Shape
<1>9. CASE RefreshPosition
  <2>1. /\ pc = "refreshing" /\ Kind = "nothing" /\ event_q = << >>
        /\ pc' = "run" /\ removed' = "none" /\ WillBeArmed' = WillBeArmed
        /\ UNCHANGED << order, holding, buys, initials >>
    BY <1>9, WillFacts DEF RefreshPosition
  <2>2. \A p \in RefreshedPosition :
          /\ p # "none"
          /\ Faults = {} /\ removed # "none" => p = "realized"
    BY DEF RefreshedPosition, May
  <2>3. Stores
    BY <1>9, <2>1, <2>2 DEF RefreshPosition, Stores, May
  <2> QED BY <2>3 DEF Shape
<1>10. ASSUME UpdateAntiRug PROVE Faults = {} => (WillBeArmed' <=> position # "none")
  BY <1>10, WillFacts DEF UpdateAntiRug, HasPosition, May
<1>11. CASE HandlePosition
  <2>1. Registers
    BY <1>10, <1>11 DEF HandlePosition, Registers
  <2> QED BY <2>1 DEF Shape
<1>12. CASE HandleEnd
  <2>1. Ends
    BY <1>12 DEF HandleEnd, Stop, Ends
  <2> QED BY <2>1 DEF Shape
<1>13. CASE RecvCommand
  <2>1. /\ Keeps /\ pc \in {"run", "deaf"} /\ Kind = "nothing" /\ event_q = << >>
        /\ pc' = "run"
    BY <1>13 DEF RecvCommand, Selecting
  <2>2. CASE /\ UNCHANGED check_vars
             /\ event_q' = event_q \/ event_q' = << Event("terminated", "none") >>
    BY <2>1, <2>2, WillFacts DEF Waits, Shape
  <2>3. CASE UpdateAntiRug /\ event_q' = event_q
    BY <1>10, <2>1, <2>3 DEF Registers, Shape
  <2>4. CASE /\ UNCHANGED check_vars /\ position # "none"
             /\ \E side \in {"exit", "part"} : event_q' = << Event("order", side) >>
    BY <2>1, <2>4, WillFacts DEF Decides, Shape, Sides
  <2> QED BY <1>13, <2>2, <2>3, <2>4 DEF RecvCommand, HasPosition
<1>14. CASE RecvSimulation
  BY <1>14, WillFacts DEF RecvSimulation, Waits, Shape
<1>15. CASE RecvLagged
  BY <1>15, WillFacts DEF RecvLagged, Waits, Shape
<1>16. CASE AnswerSome
  <2>1. Answers
    BY <1>16, WillFacts DEF AnswerSome, Answers
  <2> QED BY <2>1 DEF Shape
<1>17. CASE AnswerNone
  <2>1. Answers
    BY <1>17, WillFacts DEF AnswerNone, Answers, May
  <2> QED BY <2>1 DEF Shape
<1>18. CASE \/ \E s \in Signals : Publish(s)
            \/ \E c \in Commands : Command(c)
            \/ ServeRequest
            \/ UNCHANGED << setting, vars >>
  <2>1. UNCHANGED << pc, event_q >> /\ Keeps
    BY <1>18 DEF Publish, Command, ServeRequest, vars
  <2>2. WillBeArmed' = WillBeArmed
    BY <1>18, WillFacts DEF Publish, Command, vars, check_vars
  <2> QED BY <2>1, <2>2 DEF Outside, Shape
<1>19. CASE Land
  <2>1. order \in [side : Sides, stage : {"none", "sent", "landed"}]
    BY DEF TypeOK
  <2>2. order' = [side |-> order.side, stage |-> "landed"] /\ order.side \in Sides
    BY <1>19, <2>1 DEF Land
  <2>3. Lands
    BY <1>19, <2>2, WillFacts DEF Land, Lands
  <2> QED BY <2>3 DEF Shape
<1>20. CASE Crash
  <2>1. Crashes
    BY <1>20 DEF Crash, Crashes, May
  <2> QED BY <2>1 DEF Shape
<1>21. CASE Restart
  <2>1. Restarts
    BY <1>21 DEF Restart, Restarts
  <2> QED BY <2>1 DEF Shape
<1> QED
  BY <1>1, <1>2, <1>3, <1>4, <1>5, <1>6, <1>7, <1>8, <1>9, <1>11, <1>12, <1>13, <1>14,
     <1>15, <1>16, <1>17, <1>18, <1>19, <1>20, <1>21
  DEF Next, DrainNext, SelectNext, EnvironmentNext

-----------------------------------------------------------------------------
(* The parts of the invariant, over the shapes.                            *)

(* The types that the parts of the invariant rest on.                      *)
LEMMA FlightFacts ==
  ASSUME TypeOK, OneEvent
  PROVE  /\ pc # "run" => Kind = "nothing"
         /\ Kind = "order" => Arg \in Sides
         /\ Kind = "transaction" => Arg \in Sides
         /\ Kind = "statistics" => Arg \in {"fresh", "realized"}
         /\ order \in [side : Sides, stage : {"none", "sent", "landed"}]
         /\ position \in Positions /\ removed \in Positions
         /\ holding \in BOOLEAN /\ buys \in Nat /\ initials \in Nat
<1>1. /\ order \in [side : Sides, stage : {"none", "sent", "landed"}]
      /\ position \in Positions /\ removed \in Positions
      /\ holding \in BOOLEAN /\ buys \in Nat /\ initials \in Nat
  BY TraderAssumption DEF TypeOK
<1> QED BY <1>1, QueueFacts, EventFacts DEF Arg

(* While an order is decided, sent, landed and answered nothing but the    *)
(* transaction's own event changes the position it was made for.           *)
LEMMA StepFlight ==
  TypeOK /\ OneEvent /\ FlightMatches /\ Shape => FlightMatches'
<1> SUFFICES ASSUME TypeOK, OneEvent, FlightMatches, Shape PROVE FlightMatches'
  OBVIOUS
<1> USE FlightFacts DEF FlightMatches, InFlight
<1>1. CASE Ends
  BY <1>1 DEF Ends, Keeps
<1>2. CASE Waits
  BY <1>2 DEF Waits, Keeps, Listening
<1>3. CASE Decides
  BY <1>3 DEF Decides, Keeps
<1>4. CASE Sends
  BY <1>4 DEF Sends
<1>5. CASE Answers
  BY <1>5 DEF Answers, NoOrder
<1>6. CASE Removes
  BY <1>6 DEF Removes
<1>7. CASE Stores
  BY <1>7 DEF Stores
<1>8. CASE Registers
  BY <1>8 DEF Registers, Keeps
<1>9. CASE Outside
  BY <1>9 DEF Outside, Keeps
<1>10. CASE Lands
  BY <1>10 DEF Lands
<1>11. CASE Crashes
  BY <1>11 DEF Crashes
<1>12. CASE Restarts
  BY <1>12 DEF Restarts, NoOrder
<1> QED
  BY <1>1, <1>2, <1>3, <1>4, <1>5, <1>6, <1>7, <1>8, <1>9, <1>10, <1>11, <1>12 DEF Shape

Calm == Faults = {} /\ HoldingsAgree /\ BoughtOnce /\ TakenOnce /\ ArmedForPosition

(* The chain changes with a landed order only, and the position follows    *)
(* once the trader has read the balances.                                  *)
LEMMA StepHoldings ==
  TypeOK /\ OneEvent /\ FlightMatches /\ Calm /\ Shape => HoldingsAgree'
<1> SUFFICES ASSUME TypeOK, OneEvent, FlightMatches, Calm, Shape PROVE HoldingsAgree'
  OBVIOUS
<1> USE FlightFacts
    DEF Calm, HoldingsAgree, Settled, Landed, FlightMatches, InFlight, Sides
<1>1. CASE Ends
  BY <1>1 DEF Ends, Keeps
<1>2. CASE Waits
  BY <1>2 DEF Waits, Keeps, Listening, Idle
<1>3. CASE Decides
  BY <1>3 DEF Decides, Keeps, Listening, Idle
<1>4. CASE Sends
  BY <1>4 DEF Sends
<1>5. CASE Answers
  BY <1>5 DEF Answers, NoOrder
<1>6. CASE Removes
  BY <1>6 DEF Removes
<1>7. CASE Stores
  BY <1>7 DEF Stores
<1>8. CASE Registers
  BY <1>8 DEF Registers, Keeps
<1>9. CASE Outside
  BY <1>9 DEF Outside, Keeps
<1>10. CASE Lands
  BY <1>10 DEF Lands
<1>11. CASE Crashes
  BY <1>11 DEF Crashes
<1>12. CASE Restarts
  BY <1>12 DEF Restarts, NoOrder
<1> QED
  BY <1>1, <1>2, <1>3, <1>4, <1>5, <1>6, <1>7, <1>8, <1>9, <1>10, <1>11, <1>12 DEF Shape

(* A buy lands while there is no position, and then there is one, or it is *)
(* on its way, or the trader has closed it and is over.                    *)
LEMMA StepBought ==
  TypeOK /\ OneEvent /\ FlightMatches /\ Calm /\ Shape => BoughtOnce'
<1> SUFFICES ASSUME TypeOK, OneEvent, FlightMatches, Calm, Shape PROVE BoughtOnce'
  OBVIOUS
<1> USE FlightFacts
    DEF Calm, HoldingsAgree, BoughtOnce, Landed, Over, FlightMatches, InFlight, Sides
<1>1. CASE Ends
  BY <1>1 DEF Ends, Keeps
<1>2. CASE Waits
  BY <1>2 DEF Waits, Keeps, Listening, Idle
<1>3. CASE Decides
  BY <1>3 DEF Decides, Keeps, Listening, Idle
<1>4. CASE Sends
  BY <1>4 DEF Sends
<1>5. CASE Answers
  BY <1>5 DEF Answers, NoOrder
<1>6. CASE Removes
  BY <1>6 DEF Removes
<1>7. CASE Stores
  BY <1>7 DEF Stores
<1>8. CASE Registers
  BY <1>8 DEF Registers, Keeps
<1>9. CASE Outside
  BY <1>9 DEF Outside, Keeps
<1>10. CASE Lands
  BY <1>10 DEF Lands
<1>11. CASE Crashes
  BY <1>11 DEF Crashes
<1>12. CASE Restarts
  BY <1>12 DEF Restarts, NoOrder
<1> QED
  BY <1>1, <1>2, <1>3, <1>4, <1>5, <1>6, <1>7, <1>8, <1>9, <1>10, <1>11, <1>12 DEF Shape

(* The initials are sold from a fresh position, which is realized then.    *)
LEMMA StepTaken ==
  TypeOK /\ OneEvent /\ FlightMatches /\ Calm /\ Shape => TakenOnce'
<1> SUFFICES ASSUME TypeOK, OneEvent, FlightMatches, Calm, Shape PROVE TakenOnce'
  OBVIOUS
<1> USE FlightFacts
    DEF Calm, HoldingsAgree, TakenOnce, Landed, Over, FlightMatches, InFlight, Sides
<1>1. CASE Ends
  BY <1>1 DEF Ends, Keeps
<1>2. CASE Waits
  BY <1>2 DEF Waits, Keeps, Listening, Idle
<1>3. CASE Decides
  BY <1>3 DEF Decides, Keeps, Listening, Idle
<1>4. CASE Sends
  BY <1>4 DEF Sends
<1>5. CASE Answers
  BY <1>5 DEF Answers, NoOrder
<1>6. CASE Removes
  BY <1>6 DEF Removes
<1>7. CASE Stores
  BY <1>7 DEF Stores
<1>8. CASE Registers
  BY <1>8 DEF Registers, Keeps
<1>9. CASE Outside
  BY <1>9 DEF Outside, Keeps
<1>10. CASE Lands
  BY <1>10 DEF Lands
<1>11. CASE Crashes
  BY <1>11 DEF Crashes
<1>12. CASE Restarts
  BY <1>12 DEF Restarts, NoOrder
<1> QED
  BY <1>1, <1>2, <1>3, <1>4, <1>5, <1>6, <1>7, <1>8, <1>9, <1>10, <1>11, <1>12 DEF Shape

(* Every change of the position leads to a request for what it is then.    *)
LEMMA StepArmed ==
  TypeOK /\ OneEvent /\ FlightMatches /\ Calm /\ Shape => ArmedForPosition'
<1> SUFFICES ASSUME TypeOK, OneEvent, FlightMatches, Calm, Shape PROVE ArmedForPosition'
  OBVIOUS
<1> USE FlightFacts DEF Calm, HoldingsAgree, ArmedForPosition, Over
<1>1. CASE Ends
  BY <1>1 DEF Ends
<1>2. CASE Waits
  BY <1>2 DEF Waits, Keeps, Listening, Idle
<1>3. CASE Decides
  BY <1>3 DEF Decides, Keeps, Listening, Idle
<1>4. CASE Sends
  BY <1>4 DEF Sends
<1>5. CASE Answers
  BY <1>5 DEF Answers
<1>6. CASE Removes
  BY <1>6 DEF Removes
<1>7. CASE Stores
  BY <1>7 DEF Stores, FlightMatches
<1>8. CASE Registers
  BY <1>8 DEF Registers, Keeps
<1>9. CASE Outside
  BY <1>9 DEF Outside, Keeps
<1>10. CASE Lands
  BY <1>10 DEF Lands
<1>11. CASE Crashes
  BY <1>11 DEF Crashes
<1>12. CASE Restarts
  BY <1>12 DEF Restarts
<1> QED
  BY <1>1, <1>2, <1>3, <1>4, <1>5, <1>6, <1>7, <1>8, <1>9, <1>10, <1>11, <1>12 DEF Shape

-----------------------------------------------------------------------------
(* The theorems.                                                           *)

(* The inductive invariant holds in every state.                           *)
LEMMA TraderAlways == Spec => []TraderInv
<1>1. Init => TraderInv
  <2> SUFFICES ASSUME Init PROVE TraderInv
    OBVIOUS
  <2>1. /\ pc = "entry" /\ Kind = "nothing" /\ order.stage = "none" /\ requests = << >>
        /\ position = "none" /\ removed = "none" /\ armed = FALSE /\ holding = FALSE
        /\ buys = 0 /\ initials = 0
    BY DEF Init, Kind, NoOrder
  <2>2. FlightMatches
    BY <2>1 DEF FlightMatches, InFlight
  <2>3. HoldingsAgree /\ BoughtOnce /\ TakenOnce
    BY <2>1 DEF HoldingsAgree, Settled, Landed, BoughtOnce, TakenOnce
  <2>4. ArmedForPosition
    BY <2>1 DEF ArmedForPosition, WillBeArmed
  <2> QED BY <2>2, <2>3, <2>4, InitTypes DEF TraderInv, CalmInv
<1>2. TraderInv /\ [Next]_<< setting, vars >> => TraderInv'
  <2> SUFFICES ASSUME TraderInv, [Next]_<< setting, vars >> PROVE TraderInv'
    OBVIOUS
  <2>1. (TypeOK /\ OneEvent)'
    BY StepTypes DEF TraderInv
  <2>2. Shape /\ FlightMatches'
    BY Shapes, StepFlight DEF TraderInv
  <2>3. Faults' = Faults
    BY DEF Next, Faults
  <2>4. CalmInv'
    BY <2>2, <2>3, StepHoldings, StepBought, StepTaken, StepArmed
    DEF TraderInv, CalmInv, Calm
  <2> QED BY <2>1, <2>2, <2>4 DEF TraderInv
<1> QED BY <1>1, <1>2, PTL DEF Spec

(* In any surroundings the channels keep their capacities and the trader's *)
(* own queue never holds two events.                                       *)
THEOREM TraderTypes == Spec => []TypeOK
<1>1. TraderInv => TypeOK
  BY DEF TraderInv
<1> QED BY <1>1, TraderAlways, PTL

(* With any faults, an order in the queue or at the executor is a buy      *)
(* exactly if the trader has no position.                                  *)
THEOREM OrderFitsPosition == Spec => []OrderMatchesPosition
<1>1. TraderInv => OrderMatchesPosition
  <2> SUFFICES ASSUME TraderInv, NEW side \in Sides,
                      \/ Event("order", side) \in { event_q[i] : i \in DOMAIN event_q }
                      \/ pc = "ordering" /\ order = [side |-> side, stage |-> "sent"]
               PROVE  (side = "buy") <=> (position = "none")
    BY DEF OrderMatchesPosition
  <2>1. CASE Event("order", side) \in { event_q[i] : i \in DOMAIN event_q }
    <3>1. PICK i \in DOMAIN event_q : event_q[i] = Event("order", side)
      BY <2>1
    <3>2. PICK e \in Events : event_q = << e >>
      BY <3>1 DEF TraderInv, OneEvent
    <3>3. i = 1 /\ Head(event_q) = e /\ event_q[1] = e /\ event_q # << >>
      BY <3>1, <3>2
    <3>4. Kind = "order" /\ Arg = side
      BY <3>1, <3>3, EventFacts DEF Kind, Arg
    <3> QED BY <3>4 DEF TraderInv, FlightMatches, InFlight
  <2>2. CASE pc = "ordering" /\ order = [side |-> side, stage |-> "sent"]
    BY <2>2 DEF TraderInv, FlightMatches, InFlight
  <2> QED BY <2>1, <2>2
<1> QED BY <1>1, TraderAlways, PTL

(* Without faults a trader buys at most once, over any signals, commands   *)
(* and interleavings of the executor and the simulator.                    *)
THEOREM TraderBuysOnce == Spec => []SingleBuy
<1>1. TraderInv => SingleBuy
  BY DEF TraderInv, CalmInv, BoughtOnce, SingleBuy
<1> QED BY <1>1, TraderAlways, PTL

(* Without faults the initials are taken out once at most.                 *)
THEOREM InitialsTakenOnce == Spec => []TakeInitialsOnce
<1>1. TraderInv => TakeInitialsOnce
  BY DEF TraderInv, CalmInv, TakenOnce, TakeInitialsOnce
<1> QED BY <1>1, TraderAlways, PTL

(* Without faults a listening trader has a position exactly if the         *)
(* contract holds tokens.                                                  *)
THEOREM PositionIsOnChain == Spec => []PositionAgrees
<1>1. TraderInv => PositionAgrees
  <2> SUFFICES ASSUME TraderInv, Faults = {}, Selecting
               PROVE  holding <=> position # "none"
    BY DEF PositionAgrees
  <2>1. Kind = "nothing" /\ pc \in {"run", "deaf"}
    BY QueueFacts DEF TraderInv, Selecting
  <2>2. Settled
    BY <2>1 DEF Settled, Landed
  <2> QED BY <2>2 DEF TraderInv, CalmInv, HoldingsAgree
<1> QED BY <1>1, TraderAlways, PTL

(* Without faults the simulator tests sales for a listening trader exactly *)
(* if it has a position, once its requests are served.                     *)
THEOREM TestSaleHasPosition == Spec => []ArmedWithPosition
<1>1. TraderInv => ArmedWithPosition
  <2> SUFFICES ASSUME TraderInv, Faults = {}, Selecting, requests = << >>
               PROVE  armed <=> position # "none"
    BY DEF ArmedWithPosition
  <2>1. Kind = "nothing" /\ pc \in {"run", "deaf"}
    BY QueueFacts DEF TraderInv, Selecting
  <2>2. WillBeArmed <=> position # "none"
    BY <2>1 DEF TraderInv, CalmInv, ArmedForPosition, Over
  <2> QED BY <2>2 DEF WillBeArmed
<1> QED BY <1>1, TraderAlways, PTL

=============================================================================
