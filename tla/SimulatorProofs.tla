--------------------------- MODULE SimulatorProofs ---------------------------
(***************************************************************************)
(* Proofs about the simulator for any transactions, any traders, any       *)
(* capacity of its channel and any bound on the blocks: a launch is kept   *)
(* until it is mined, the sales tested are the ones that were asked for,   *)
(* and what the traders hear never goes back.                              *)
(***************************************************************************)
EXTENDS Simulator, Integers, QueueLemmas, TLAPS

-----------------------------------------------------------------------------
(* The inductive invariant.                                                *)

Commands == Transactions \cup Registrations

(* The engine is about to send at most one transaction, to the simulator   *)
(* as it is; a loop of the simulator handles the event that it took.       *)
OneAtHand ==
  /\ \/ dispatching = << >>
     \/ \E d \in [tx : Txs, oracle : 1 .. MaxBlock] : dispatching = << d >>
  /\ pc = "select" => event_q = << >>
  /\ pc = "events" => \E e \in Transactions \cup {BlockConfirmed} : event_q = << e >>

(* The traders to test after a request, when S were to be tested before.   *)
AfterRequest(r, S) ==
  CASE r.type = "RegisterAntiRug"   -> S \cup {r.trader}
    [] r.type = "DeRegisterAntiRug" -> S \ {r.trader}
    [] OTHER                        -> S

(* checks[i] is whom the simulator will test when it takes request i: from *)
(* those it tests now to those who registered last, one request at a time. *)
ChecksOf(checks) ==
  /\ checks[1] = sell_check
  /\ checks[Len(requests) + 1] = enlisted
  /\ \A i \in 1 .. Len(requests) :
       /\ checks[i + 1] = AfterRequest(requests[i], checks[i])
       /\ requests[i].type = "Transaction" => requests[i].due = checks[i]

ChecksFollow ==
  \E checks \in [1 .. Len(requests) + 1 -> SUBSET Traders] : ChecksOf(checks)

(* The broadcast state is the simulator's, or one that this has followed.  *)
SignalFollows ==
  /\ signal = Changed => state = Changed
  /\ signal.tx # NoTx => state \in {signal, Changed}

SimulatorInv ==
  /\ TypeOK
  /\ OneAtHand
  /\ ChecksFollow
  /\ ChecksAreDue
  /\ LaunchKeptUntilMined
  /\ SignalFollows

-----------------------------------------------------------------------------
(* States and what the simulator makes of them.                            *)

(* The three kinds of state are told apart.                                *)
LEMMA StateFacts ==
  /\ Closed \in States /\ Changed \in States
  /\ \A tx \in Txs \cup {NoTx} : Launch(tx) \in States
  /\ Closed.kind = "Closed" /\ Changed.kind = "Changed"
  /\ Closed.tx = NoTx /\ Changed.tx = NoTx
  /\ \A tx : Launch(tx).kind = "Launch" /\ Launch(tx).tx = tx
  /\ \A s \in States : \/ s = Closed \/ s = Changed
                       \/ s = Launch(s.tx) /\ s.tx \in Txs \cup {NoTx}
<1>1. /\ Closed.kind = "Closed" /\ Changed.kind = "Changed"
      /\ Closed.tx = NoTx /\ Changed.tx = NoTx
  BY DEF Closed, Changed
<1>2. \A tx : Launch(tx).kind = "Launch" /\ Launch(tx).tx = tx
  BY DEF Launch
<1> QED BY <1>1, <1>2 DEF States

(* What the simulator can know of the token: nothing, the transaction that *)
(* launches it, or that it has launched.                                   *)
LEMMA KnownState ==
  ASSUME TypeOK
  PROVE  \/ state = Closed
         \/ state = Changed
         \/ /\ state = Launch(state.tx) /\ state.tx \in Txs
            /\ state.kind = "Launch"
<1>1. state \in States /\ state # Launch(NoTx)
  BY DEF TypeOK
<1>2. \/ state = Closed \/ state = Changed
      \/ state = Launch(state.tx) /\ state.tx \in Txs \cup {NoTx}
  BY <1>1, StateFacts
<1> QED BY <1>1, <1>2, StateFacts

(* Blocks only end launches.                                               *)
LEMMA ConfirmedFacts ==
  ASSUME TypeOK
  PROVE  /\ Confirmed \in {state, Changed}
         /\ Confirmed \in States \ {Launch(NoTx)}
         /\ state \in {Closed, Changed} => Confirmed = state
         /\ \A tx \in Txs : state = Launch(tx) /\ minedAt[tx] = 0 => Confirmed = state
<1>1. state \in States \ {Launch(NoTx)} /\ Changed \in States \ {Launch(NoTx)}
  BY StateFacts DEF TypeOK
<1>2. oracle # 0
  BY DEF TypeOK
<1>3. \A tx \in Txs : state = Launch(tx) => state.tx = tx
  BY StateFacts
<1> QED BY <1>1, <1>2, <1>3, StateFacts DEF Confirmed

(* A launch and a change are kept, and a closed token is launched by the   *)
(* transaction at hand or stays closed.                                    *)
LEMMA GeneratedFacts ==
  ASSUME NEW tx, NEW works \in BOOLEAN
  PROVE  /\ GenerateState(Closed, works, tx) \in {Closed, Launch(tx)}
         /\ GenerateState(Changed, works, tx) = Changed
         /\ \A y : GenerateState(Launch(y), works, tx) = Launch(y)
<1>1. /\ Closed # Changed /\ \A y : Launch(y) # Closed
      /\ Closed.kind = "Closed" /\ Changed.kind = "Changed"
      /\ \A y : Launch(y).kind = "Launch"
  BY StateFacts
<1> QED BY <1>1 DEF GenerateState

-----------------------------------------------------------------------------
(* The events by what they do to the state and to the signal.              *)

(* A transaction was simulated: what was found is kept and told.           *)
TellsFound ==
  \E tx \in Txs, works \in BOOLEAN :
    /\ state' = GenerateState(state, works, tx)
    /\ Broadcast(state')

(* A block was simulated: what the block confirmed is kept, and what was   *)
(* found is told, unless the token has launched.                           *)
TellsBlock ==
  /\ state' = Confirmed
  /\ Confirmed # Changed
  /\ \E works \in BOOLEAN : Broadcast(GenerateState(Confirmed, works, NoTx))

TellsNothing == state' \in {state, Confirmed} /\ UNCHANGED << signal, announced >>

(* Handling an event tells of a finding, of a block or of nothing, and     *)
(* ends the loop or goes on.                                               *)
LEMMA EventShapes ==
  ASSUME TypeOK, OneAtHand, EventNext
  PROVE  /\ TellsFound \/ TellsBlock \/ TellsNothing
         /\ failed' \in BOOLEAN
         /\ pc = "events"
         /\ \/ pc' = "closed" /\ event_q' = event_q
            \/ pc' = "select" /\ event_q' = << >>
         /\ UNCHANGED << chain_vars, changed, engine_vars, requests, trader_vars,
                         sell_check >>
<1>1. pc = "events"
  BY DEF EventNext, HandleTransaction, TransactionFails, HandleBlock, BlockFails,
         SkipBlock, SimulationPanics, TakeEvent
<1>2. PICK e \in Transactions \cup {BlockConfirmed} : event_q = << e >>
  BY <1>1 DEF OneAtHand
<1>3. Head(event_q) = e /\ Tail(event_q) = << >>
  BY <1>2, OneQueued
<1>4. ASSUME NEW type, TakeEvent(type)
      PROVE  /\ pc' = "select" /\ event_q' = << >> /\ e.type = type
             /\ UNCHANGED << chain_vars, changed, engine_vars, requests, trader_vars,
                             sell_check >>
  BY <1>3, <1>4 DEF TakeEvent
<1>5. failed \in BOOLEAN
  BY DEF TypeOK
<1>6. CASE HandleTransaction
  <2>1. TakeEvent("Transaction") /\ e.tx \in Txs
    <3>1. TakeEvent("Transaction")
      BY <1>6 DEF HandleTransaction
    <3>2. e \in Transactions
      BY <1>4, <3>1 DEF BlockConfirmed
    <3> QED BY <3>1, <3>2 DEF Transactions
  <2>2. TellsFound
    BY <1>3, <1>6, <2>1 DEF HandleTransaction, TellsFound, Works
  <2> QED BY <1>1, <1>4, <1>5, <1>6, <2>1, <2>2 DEF HandleTransaction
<1>7. CASE TransactionFails
  BY <1>1, <1>4, <1>7 DEF TransactionFails, TellsNothing
<1>8. CASE HandleBlock
  <2>1. TellsBlock \/ TellsNothing
    BY <1>8 DEF HandleBlock, TellsBlock, TellsNothing, Works
  <2> QED BY <1>1, <1>4, <1>5, <1>8, <2>1 DEF HandleBlock
<1>9. CASE BlockFails
  BY <1>1, <1>4, <1>9 DEF BlockFails, TellsNothing
<1>10. CASE SkipBlock
  BY <1>1, <1>4, <1>5, <1>10 DEF SkipBlock, TellsNothing
<1>11. CASE SimulationPanics
  BY <1>1, <1>11 DEF SimulationPanics, TellsNothing
<1> QED BY <1>6, <1>7, <1>8, <1>9, <1>10, <1>11 DEF EventNext

-----------------------------------------------------------------------------
(* Types, and the one event at hand.                                       *)

(* The types hold at the start.                                            *)
LEMMA InitTypes == Init => TypeOK /\ OneAtHand
<1> SUFFICES ASSUME Init PROVE TypeOK /\ OneAtHand
  OBVIOUS
<1>1. /\ requests \in Seq(Transactions \cup Registrations)
      /\ Len(requests) <= RequestCap /\ Len(dispatching) <= 1
      /\ event_q \in Seq(Transactions \cup {BlockConfirmed})
  BY EmptySeq, SimulatorAssumption DEF Init
<1>2. Closed \in States \ {Launch(NoTx)}
  BY StateFacts
<1>3. /\ height \in 1 .. MaxBlock
      /\ minedAt \in [Txs -> 0 .. height]
      /\ openAt \in 0 .. height
      /\ oracle \in 1 .. height
  BY SimulatorAssumption DEF Init
<1>4. OneAtHand
  BY DEF Init, OneAtHand
<1>5. /\ changed \in BOOLEAN /\ pool \in BOOLEAN /\ failed \in BOOLEAN
      /\ seen \subseteq Txs /\ announced \subseteq Txs \cup {NoTx}
      /\ enlisted \subseteq Traders /\ receivers \subseteq Traders
      /\ sell_check \subseteq Traders
      /\ pc \in {"select", "events", "closed"}
      /\ state \in States \ {Launch(NoTx)} /\ signal \in States
  BY <1>2 DEF Init
<1> QED BY <1>1, <1>3, <1>4, <1>5 DEF TypeOK

(* The states that the simulator may hold after an event.                  *)
LEMMA EventTypes ==
  ASSUME TypeOK, TellsFound \/ TellsBlock \/ TellsNothing
  PROVE  /\ state' \in States \ {Launch(NoTx)}
         /\ signal' \in States
         /\ announced' \subseteq Txs \cup {NoTx}
<1>1. NoTx \notin Txs
  BY SimulatorAssumption
<1>2. \A tx \in Txs : Launch(tx) # Launch(NoTx)
  BY <1>1, StateFacts
<1>3. \A found \in States : Broadcast(found) =>
        signal' \in States /\ announced' \subseteq Txs \cup {NoTx}
  BY StateFacts DEF Broadcast, TypeOK
<1>4. CASE TellsFound
  <2>1. PICK tx \in Txs, works \in BOOLEAN :
          state' = GenerateState(state, works, tx) /\ Broadcast(state')
    BY <1>4 DEF TellsFound
  <2>2. state' \in {state, Closed, Changed, Launch(tx)}
    BY <2>1, KnownState, GeneratedFacts
  <2>3. state' \in States \ {Launch(NoTx)}
    BY <1>2, <2>2, StateFacts DEF TypeOK
  <2> QED BY <1>3, <2>1, <2>3
<1>5. CASE TellsBlock
  <2>1. PICK works \in BOOLEAN : Broadcast(GenerateState(Confirmed, works, NoTx))
    BY <1>5 DEF TellsBlock
  <2>2. GenerateState(Confirmed, works, NoTx) \in States
    <3>1. \/ Confirmed = Closed \/ Confirmed = Changed
          \/ Confirmed = Launch(state.tx) /\ Launch(state.tx) \in States
      BY KnownState, ConfirmedFacts, StateFacts
    <3>2. Launch(NoTx) \in States /\ Closed \in States /\ Changed \in States
      BY StateFacts
    <3> QED BY <3>1, <3>2, GeneratedFacts
  <2> QED BY <1>3, <1>5, <2>1, <2>2, ConfirmedFacts DEF TellsBlock
<1>6. CASE TellsNothing
  BY <1>6, ConfirmedFacts DEF TellsNothing, TypeOK
<1> QED BY <1>4, <1>5, <1>6

(* The simulator's select! takes a command or a block as its one event.    *)
LEMMA TakeTypes ==
  ASSUME TypeOK, OneAtHand, TakeRequest \/ TakeBlock
  PROVE  /\ pc' \in {"select", "events", "closed"}
         /\ event_q' \in Seq(Transactions \cup {BlockConfirmed})
         /\ sell_check' \subseteq Traders
         /\ pc' = "select" => event_q' = << >>
         /\ pc' = "events" =>
              \E e \in Transactions \cup {BlockConfirmed} : event_q' = << e >>
<1>1. event_q = << >>
  BY DEF OneAtHand, TakeRequest, TakeBlock
<1>2. \/ event_q' = << >>
      \/ \E e \in Transactions \cup {BlockConfirmed} : event_q' = << e >>
  <2>1. CASE TakeBlock
    BY <1>1, <2>1, OneQueued DEF TakeBlock
  <2>2. CASE TakeRequest
    <3>1. Head(requests) \in Commands
      BY <2>2, Dequeued DEF TakeRequest, TypeOK, Commands
    <3>2. CASE Head(requests).type = "Transaction"
      <4>1. Head(requests) \in Transactions
        BY <3>1, <3>2 DEF Commands, Registrations
      <4> QED BY <1>1, <2>2, <3>2, <4>1, OneQueued DEF TakeRequest
    <3>3. CASE Head(requests).type # "Transaction"
      BY <1>1, <2>2, <3>3 DEF TakeRequest
    <3> QED BY <3>2, <3>3
  <2> QED BY <2>1, <2>2
<1>3. event_q' \in Seq(Transactions \cup {BlockConfirmed})
  BY ZenonT(60), <1>2, OneQueued, EmptySeq
<1>4. /\ pc' \in {"select", "events", "closed"}
      /\ pc' = "select" => event_q' = << >>
      /\ pc' = "events" => event_q' # << >>
  BY DEF TakeRequest, TakeBlock, AfterSelect
<1>5. sell_check' \subseteq Traders
  <2>1. CASE TakeBlock
    BY <2>1 DEF TakeBlock, TypeOK
  <2>2. CASE TakeRequest
    <3>1. Head(requests) \in Commands
      BY <2>2, Dequeued DEF TakeRequest, TypeOK, Commands
    <3>2. Head(requests).type # "Transaction" => Head(requests).trader \in Traders
      BY <3>1 DEF Commands, Transactions, Registrations
    <3> QED BY <2>2, <3>2 DEF TakeRequest, TypeOK
  <2> QED BY <2>1, <2>2
<1> QED BY <1>2, <1>3, <1>4, <1>5

(* Every step keeps the types, and at most one event at hand.              *)
LEMMA StepTypes == TypeOK /\ OneAtHand /\ [Next]_vars => TypeOK' /\ OneAtHand'
<1> SUFFICES ASSUME TypeOK, OneAtHand, [Next]_vars PROVE TypeOK' /\ OneAtHand'
  OBVIOUS
<1> USE DEF TypeOK
<1>1. CASE MineBlock
  <2>1. PICK block \in SUBSET { tx \in Txs : minedAt[tx] = 0 }, private \in BOOLEAN :
          /\ minedAt' = [tx \in Txs |-> IF tx \in block THEN height + 1
                                                        ELSE minedAt[tx]]
          /\ openAt' = IF openAt = 0 /\ (private \/ block \cap Opening # {})
                       THEN height + 1 ELSE openAt
    BY <1>1 DEF MineBlock
  <2>2. /\ height' = height + 1 /\ height' \in 1 .. MaxBlock
        /\ UNCHANGED << oracle, changed, engine_vars, requests, trader_vars,
                        pc, event_q, sell_check, found_vars >>
    BY <1>1, SimulatorAssumption DEF MineBlock
  <2>3. minedAt' \in [Txs -> 0 .. height']
    BY <2>1, <2>2
  <2>4. openAt' \in 0 .. height' /\ oracle' \in 1 .. height'
    BY <2>1, <2>2
  <2> QED BY <2>2, <2>3, <2>4 DEF OneAtHand, engine_vars, trader_vars, found_vars
<1>2. CASE PublishBlock
  BY <1>2 DEF PublishBlock, OneAtHand, engine_vars, trader_vars, found_vars
<1>3. ASSUME NEW tx \in Txs, StartDispatch(tx) PROVE TypeOK' /\ OneAtHand'
  <2>1. oracle \in 1 .. MaxBlock
    BY SimulatorAssumption
  <2>2. \/ dispatching' = << >>
        \/ \E d \in [tx : Txs, oracle : 1 .. MaxBlock] : dispatching' = << d >>
    BY <1>3, <2>1 DEF StartDispatch
  <2>3. Len(dispatching') <= 1
    <3>1. CASE dispatching' = << >>
      BY <3>1
    <3>2. ASSUME NEW d \in [tx : Txs, oracle : 1 .. MaxBlock], dispatching' = << d >>
          PROVE  Len(dispatching') <= 1
      <4>1. Len(<< d >>) = 1
        BY OneQueued
      <4> QED BY <3>2, <4>1
    <3> QED BY <2>2, <3>1, <3>2
  <2>4. pool' \in BOOLEAN /\ seen' \subseteq Txs
    BY <1>3 DEF StartDispatch, PoolAfter
  <2>5. UNCHANGED << chain_vars, changed, requests, trader_vars, pc, event_q,
                     sell_check, found_vars >>
    BY <1>3 DEF StartDispatch
  <2> QED BY <2>2, <2>3, <2>4, <2>5 DEF OneAtHand, chain_vars, trader_vars, found_vars
<1>4. CASE SendTransaction
  <2>1. requests' \in Seq(Commands) /\ Len(requests') <= RequestCap
    <3>1. PICK d \in [tx : Txs, oracle : 1 .. MaxBlock] : dispatching = << d >>
      BY <1>4 DEF SendTransaction, OneAtHand
    <3>2. [type |-> "Transaction", tx |-> d.tx, oracle |-> d.oracle, due |-> enlisted]
            \in Commands
      BY DEF Commands, Transactions
    <3>3. dispatching[1] = d
      BY <3>1
    <3> HIDE DEF Commands
    <3>4. requests \in Seq(Commands)
      BY DEF Commands
    <3> DEFINE x == [type |-> "Transaction", tx |-> d.tx, oracle |-> d.oracle,
                     due |-> enlisted]
    <3>5. CASE Running
      <4>1. requests' = Append(requests, x) /\ Len(requests) < RequestCap
        BY <1>4, <3>3, <3>5 DEF SendTransaction
      <4> HIDE DEF x
      <4> QED BY <3>2, <3>4, <4>1, Enqueued, SimulatorAssumption DEF x
    <3>6. CASE ~Running
      BY <1>4, <3>4, <3>6 DEF SendTransaction
    <3> QED BY <3>5, <3>6
  <2>2. /\ dispatching' = << >> /\ Len(<< >>) = 0
        /\ UNCHANGED << chain_vars, changed, pool, seen, trader_vars, pc, event_q,
                        sell_check, found_vars >>
    BY <1>4 DEF SendTransaction
  <2> QED BY <2>1, <2>2 DEF OneAtHand, Commands, chain_vars, trader_vars, found_vars
<1>5. ASSUME NEW t \in Traders,
             NEW type \in {"RegisterAntiRug", "DeRegisterAntiRug"}, Request(t, type)
      PROVE  TypeOK' /\ OneAtHand'
  <2>1. requests' \in Seq(Commands) /\ Len(requests') <= RequestCap
    <3>1. [type |-> type, trader |-> t] \in Commands
      BY DEF Commands, Registrations
    <3>2. requests \in Seq(Commands)
      BY DEF Commands
    <3> QED BY <1>5, <3>1, <3>2, Enqueued, SimulatorAssumption DEF Request
  <2>2. enlisted' \subseteq Traders
    BY <1>5 DEF Request
  <2> QED BY <1>5, <2>1, <2>2 DEF Request, OneAtHand, Commands, chain_vars, engine_vars,
                                  found_vars
<1>6. ASSUME NEW t \in Traders, Leave(t) PROVE TypeOK' /\ OneAtHand'
  BY <1>6 DEF Leave, OneAtHand, chain_vars, engine_vars, found_vars
<1>7. CASE TakeRequest
  <2>1. requests' \in Seq(Commands) /\ Len(requests') <= RequestCap
    <3>1. requests \in Seq(Commands)
      BY DEF Commands
    <3> QED BY <1>7, <3>1, Dequeued, SimulatorAssumption DEF TakeRequest
  <2> QED BY <1>7, <2>1, TakeTypes DEF TakeRequest, OneAtHand, Commands, chain_vars,
                                       engine_vars, trader_vars, found_vars
<1>8. CASE TakeBlock
  BY <1>8, TakeTypes DEF TakeBlock, OneAtHand, chain_vars, engine_vars, trader_vars,
                         found_vars
<1>9. CASE EventNext
  <2>1. /\ event_q' \in Seq(Transactions \cup {BlockConfirmed})
        /\ pc' \in {"select", "events", "closed"}
        /\ pc' = "select" => event_q' = << >>
        /\ pc' # "events"
    BY <1>9, EventShapes, EmptySeq
  <2>2. /\ failed' \in BOOLEAN
        /\ UNCHANGED << chain_vars, changed, engine_vars, requests, trader_vars,
                        sell_check >>
    BY <1>9, EventShapes
  <2>3. /\ state' \in States \ {Launch(NoTx)}
        /\ signal' \in States
        /\ announced' \subseteq Txs \cup {NoTx}
    BY <1>9, EventShapes, EventTypes
  <2> QED BY <2>1, <2>2, <2>3 DEF OneAtHand, chain_vars, engine_vars, trader_vars
<1>10. CASE UNCHANGED vars
  BY <1>10 DEF vars, OneAtHand, chain_vars, engine_vars, trader_vars, found_vars
<1> QED
  BY <1>1, <1>2, <1>3, <1>4, <1>5, <1>6, <1>7, <1>8, <1>9, <1>10
  DEF Next, ChainNext, EngineNext, TraderNext, RunNext

-----------------------------------------------------------------------------
(* Whom a sale is tested for.                                              *)

(* At the start nobody is registered and nothing is sent.                  *)
LEMMA InitChecks == Init => ChecksFollow /\ ChecksAreDue
<1> SUFFICES ASSUME Init PROVE ChecksFollow /\ ChecksAreDue
  OBVIOUS
<1>1. [i \in 1 .. 1 |-> {}] \in [1 .. Len(requests) + 1 -> SUBSET Traders]
  BY DEF Init
<1>2. ChecksOf([i \in 1 .. 1 |-> {}])
  BY DEF Init, ChecksOf
<1> QED BY <1>1, <1>2 DEF Init, ChecksFollow, ChecksAreDue

(* A new request comes after all that were sent: S is tested then, the set *)
(* of those who registered last.                                           *)
LEMMA RequestIsSent ==
  ASSUME TypeOK, ChecksFollow, NEW r \in Commands,
         requests' = Append(requests, r),
         sell_check' = sell_check,
         enlisted' = AfterRequest(r, enlisted),
         enlisted' \subseteq Traders,
         r.type = "Transaction" => r.due = enlisted
  PROVE  ChecksFollow'
<1> DEFINE n == Len(requests)
<1>1. /\ n \in Nat /\ Len(requests') = n + 1
      /\ \A i \in 1 .. n : requests'[i] = requests[i]
      /\ requests'[n + 1] = r
      /\ \A i \in 1 .. n + 1 : i \in 1 .. n \/ i = n + 1
  BY Enqueued DEF TypeOK, Commands
<1>2. PICK checks \in [1 .. n + 1 -> SUBSET Traders] : ChecksOf(checks)
  BY DEF ChecksFollow
<1>3. PICK longer \in [1 .. n + 2 -> SUBSET Traders] :
        longer = [i \in 1 .. n + 2 |-> IF i = n + 2 THEN enlisted' ELSE checks[i]]
  <2>1. [i \in 1 .. n + 2 |-> IF i = n + 2 THEN enlisted' ELSE checks[i]]
          \in [1 .. n + 2 -> SUBSET Traders]
    BY <1>1
  <2> QED BY <2>1
<1>4. /\ \A i \in 1 .. n + 1 : longer[i] = checks[i]
      /\ longer[n + 2] = enlisted'
  BY <1>1, <1>3
<1>5. /\ checks[1] = sell_check
      /\ checks[n + 1] = enlisted
      /\ \A i \in 1 .. n :
           /\ checks[i + 1] = AfterRequest(requests[i], checks[i])
           /\ requests[i].type = "Transaction" => requests[i].due = checks[i]
  BY <1>2 DEF ChecksOf
<1>6. longer[1] = sell_check' /\ longer[Len(requests') + 1] = enlisted'
  BY <1>1, <1>4, <1>5
<1>7. ASSUME NEW i \in 1 .. n + 1
      PROVE  /\ longer[i + 1] = AfterRequest(requests'[i], longer[i])
             /\ requests'[i].type = "Transaction" => requests'[i].due = longer[i]
  <2>1. CASE i \in 1 .. n
    <3>1. i + 1 \in 1 .. n + 1 /\ i \in 1 .. n + 1
      BY <1>1, <2>1
    <3> QED BY <1>1, <1>4, <1>5, <2>1, <3>1
  <2>2. CASE i = n + 1
    <3>1. longer[i + 1] = enlisted' /\ longer[i] = enlisted /\ requests'[i] = r
      BY <1>1, <1>4, <1>5, <2>2
    <3> QED BY <3>1
  <2> QED BY <1>1, <2>1, <2>2
<1>8. ChecksOf(longer)'
  BY <1>1, <1>6, <1>7 DEF ChecksOf
<1>9. longer \in [1 .. Len(requests') + 1 -> SUBSET Traders]
  <2>1. Len(requests') + 1 = n + 2
    BY <1>1
  <2> QED BY <1>3, <2>1
<1> QED BY <1>8, <1>9 DEF ChecksFollow

(* The first request is taken: the checks move up by one place.            *)
LEMMA RequestIsTaken ==
  ASSUME TypeOK, ChecksFollow, requests # << >>,
         requests' = Tail(requests),
         sell_check' = AfterRequest(Head(requests), sell_check),
         enlisted' = enlisted
  PROVE  ChecksFollow'
<1> DEFINE n == Len(requests)
<1>1. /\ n \in Nat \ {0} /\ Len(requests') = n - 1
      /\ Head(requests) = requests[1]
      /\ \A i \in 1 .. n - 1 : requests'[i] = requests[i + 1]
  BY Dequeued DEF TypeOK
<1>2. PICK checks \in [1 .. n + 1 -> SUBSET Traders] : ChecksOf(checks)
  BY DEF ChecksFollow
<1>3. PICK shorter \in [1 .. n -> SUBSET Traders] :
        shorter = [i \in 1 .. n |-> checks[i + 1]]
  <2>1. [i \in 1 .. n |-> checks[i + 1]] \in [1 .. n -> SUBSET Traders]
    BY <1>1
  <2> QED BY <2>1
<1>4. /\ checks[1] = sell_check
      /\ checks[n + 1] = enlisted
      /\ \A i \in 1 .. n :
           /\ checks[i + 1] = AfterRequest(requests[i], checks[i])
           /\ requests[i].type = "Transaction" => requests[i].due = checks[i]
  BY <1>2 DEF ChecksOf
<1>5. \A i \in 1 .. n : shorter[i] = checks[i + 1]
  BY <1>3
<1>6. shorter[1] = sell_check' /\ shorter[Len(requests') + 1] = enlisted'
  BY <1>1, <1>4, <1>5
<1>7. ASSUME NEW i \in 1 .. n - 1
      PROVE  /\ shorter[i + 1] = AfterRequest(requests'[i], shorter[i])
             /\ requests'[i].type = "Transaction" => requests'[i].due = shorter[i]
  <2>1. i + 1 \in 1 .. n /\ i \in 1 .. n
    BY <1>1
  <2> QED BY <1>1, <1>4, <1>5, <2>1
<1>8. ChecksOf(shorter)'
  BY <1>1, <1>6, <1>7 DEF ChecksOf
<1>9. shorter \in [1 .. Len(requests') + 1 -> SUBSET Traders]
  <2>1. Len(requests') + 1 = n
    BY <1>1
  <2> QED BY <1>3, <2>1
<1> QED BY <1>8, <1>9 DEF ChecksFollow

(* Every step keeps the sales to test at those registered when the         *)
(* transaction was sent.                                                   *)
LEMMA StepChecks ==
  TypeOK /\ OneAtHand /\ ChecksFollow /\ ChecksAreDue /\ [Next]_vars
    => ChecksFollow' /\ ChecksAreDue'
<1> SUFFICES ASSUME TypeOK, OneAtHand, ChecksFollow, ChecksAreDue, [Next]_vars
             PROVE  ChecksFollow' /\ ChecksAreDue'
  OBVIOUS
<1>1. UNCHANGED << requests, enlisted, sell_check >> => ChecksFollow'
  BY DEF ChecksFollow, ChecksOf
<1>2. UNCHANGED << pc, event_q, sell_check >> => ChecksAreDue'
  BY DEF ChecksAreDue
<1>3. CASE MineBlock \/ PublishBlock
  BY <1>1, <1>2, <1>3 DEF MineBlock, PublishBlock, trader_vars
<1>4. ASSUME NEW tx \in Txs, StartDispatch(tx) PROVE ChecksFollow' /\ ChecksAreDue'
  BY <1>1, <1>2, <1>4 DEF StartDispatch, trader_vars
<1>5. CASE SendTransaction
  <2>1. UNCHANGED << pc, event_q, sell_check, enlisted >>
    BY <1>5 DEF SendTransaction, trader_vars
  <2>2. CASE Running
    <3>1. PICK d \in [tx : Txs, oracle : 1 .. MaxBlock] : dispatching = << d >>
      BY <1>5 DEF SendTransaction, OneAtHand
    <3> DEFINE r == [type |-> "Transaction", tx |-> d.tx, oracle |-> d.oracle,
                     due |-> enlisted]
    <3>2. r \in Commands /\ r.type = "Transaction" /\ r.due = enlisted
      BY DEF Commands, Transactions, TypeOK
    <3>3. requests' = Append(requests, r)
      BY <1>5, <2>2, <3>1 DEF SendTransaction
    <3>4. AfterRequest(r, enlisted) = enlisted /\ enlisted \subseteq Traders
      BY <3>2 DEF AfterRequest, TypeOK
    <3> HIDE DEF r
    <3>5. ChecksFollow'
      BY <2>1, <3>2, <3>3, <3>4, RequestIsSent
    <3> QED BY <1>2, <2>1, <3>5
  <2>3. CASE ~Running
    BY <1>1, <1>2, <1>5, <2>1, <2>3 DEF SendTransaction
  <2> QED BY <2>2, <2>3
<1>6. ASSUME NEW t \in Traders,
             NEW type \in {"RegisterAntiRug", "DeRegisterAntiRug"}, Request(t, type)
      PROVE  ChecksFollow' /\ ChecksAreDue'
  <2> DEFINE r == [type |-> type, trader |-> t]
  <2>1. r \in Commands /\ r.type = type /\ r.trader = t /\ r.type # "Transaction"
    BY DEF Commands, Registrations
  <2>2. requests' = Append(requests, r) /\ UNCHANGED << pc, event_q, sell_check >>
    BY <1>6 DEF Request
  <2>3. enlisted' = AfterRequest(r, enlisted) /\ enlisted' \subseteq Traders
    BY <1>6, <2>1 DEF Request, AfterRequest, TypeOK
  <2> HIDE DEF r
  <2>4. ChecksFollow'
    BY <2>1, <2>2, <2>3, RequestIsSent
  <2> QED BY <1>2, <2>2, <2>4
<1>7. ASSUME NEW t \in Traders, Leave(t) PROVE ChecksFollow' /\ ChecksAreDue'
  BY <1>1, <1>2, <1>7 DEF Leave
<1>8. CASE TakeRequest
  <2>1. ChecksFollow'
    BY <1>8, RequestIsTaken DEF TakeRequest, AfterRequest, trader_vars
  <2>2. ChecksAreDue'
    <3> SUFFICES ASSUME pc' = "events", Head(event_q').type = "Transaction"
                 PROVE  sell_check' = Head(event_q').due
      BY DEF ChecksAreDue
    <3>1. event_q = << >> /\ event_q' # << >>
      BY <1>8 DEF TakeRequest, AfterSelect, OneAtHand
    <3>2. Head(requests).type = "Transaction"
      BY <1>8, <3>1 DEF TakeRequest
    <3>3. event_q' = << Head(requests) >> /\ Head(event_q') = Head(requests)
      BY <1>8, <3>1, <3>2, OneQueued DEF TakeRequest
    <3>4. sell_check' = sell_check
      BY <1>8, <3>2 DEF TakeRequest
    <3>5. PICK checks \in [1 .. Len(requests) + 1 -> SUBSET Traders] : ChecksOf(checks)
      BY DEF ChecksFollow
    <3>6. Head(requests) = requests[1] /\ 1 \in 1 .. Len(requests)
      BY <1>8, Dequeued DEF TakeRequest, TypeOK
    <3>7. Head(requests).due = sell_check
      BY <3>2, <3>5, <3>6 DEF ChecksOf
    <3> QED BY <3>3, <3>4, <3>7
  <2> QED BY <2>1, <2>2
<1>9. CASE TakeBlock
  <2>1. ChecksFollow'
    BY <1>1, <1>9 DEF TakeBlock, trader_vars
  <2>2. Head(event_q') = BlockConfirmed
    BY <1>9, OneQueued DEF TakeBlock, OneAtHand
  <2> QED BY <2>1, <2>2 DEF ChecksAreDue, BlockConfirmed
<1>10. CASE EventNext
  <2>1. pc' # "events" /\ UNCHANGED << requests, trader_vars, sell_check >>
    BY <1>10, EventShapes
  <2> QED BY <1>1, <2>1 DEF ChecksAreDue, trader_vars
<1>11. CASE UNCHANGED vars
  BY <1>1, <1>2, <1>11 DEF vars, trader_vars
<1> QED
  BY <1>3, <1>4, <1>5, <1>6, <1>7, <1>8, <1>9, <1>10, <1>11
  DEF Next, ChainNext, EngineNext, TraderNext, RunNext

-----------------------------------------------------------------------------
(* Launches and signals.                                                   *)

(* At the start nothing has been signalled.                                *)
LEMMA InitSignals == Init => LaunchKeptUntilMined /\ SignalFollows
  BY StateFacts DEF Init, LaunchKeptUntilMined, SignalFollows

(* Every step keeps an announced launch until it is mined.                 *)
LEMMA StepLaunch ==
  TypeOK /\ OneAtHand /\ LaunchKeptUntilMined /\ [Next]_vars => LaunchKeptUntilMined'
<1> SUFFICES ASSUME TypeOK, OneAtHand, LaunchKeptUntilMined, [Next]_vars
             PROVE  LaunchKeptUntilMined'
  OBVIOUS
<1>1. CASE UNCHANGED << minedAt, announced, state >>
  BY <1>1 DEF LaunchKeptUntilMined
<1>2. CASE MineBlock
  <2>1. \A tx \in Txs : minedAt[tx] # 0 => minedAt'[tx] # 0
    BY <1>2 DEF MineBlock, TypeOK
  <2>2. announced \ {NoTx} \subseteq Txs /\ UNCHANGED << announced, state >>
    BY <1>2 DEF MineBlock, TypeOK, found_vars
  <2> QED BY <2>1, <2>2 DEF LaunchKeptUntilMined
<1>3. CASE EventNext
  <2>1. UNCHANGED minedAt /\ (TellsFound \/ TellsBlock \/ TellsNothing)
    BY <1>3, EventShapes DEF chain_vars
  <2>2. \A tx \in announced \ {NoTx} : minedAt[tx] = 0 =>
          tx \in Txs /\ state = Launch(tx) /\ Confirmed = state
    BY ConfirmedFacts DEF LaunchKeptUntilMined, TypeOK
  <2>3. CASE TellsFound
    <3>1. PICK tx \in Txs, works \in BOOLEAN :
            state' = GenerateState(state, works, tx) /\ Broadcast(state')
      BY <2>3 DEF TellsFound
    <3>2. \A y \in announced \ {NoTx} : minedAt[y] = 0 => state' = Launch(y)
      BY <2>2, <3>1, GeneratedFacts
    <3>3. \A y \in announced' : y \in announced \/ state' = Launch(y)
      <4>1. \/ state' \in {Closed, Changed} \/ state' = Launch(tx)
            \/ state' = Launch(state.tx)
        BY <3>1, KnownState, GeneratedFacts
      <4> QED BY <3>1, <4>1, StateFacts DEF Broadcast
    <3> QED BY <2>1, <3>2, <3>3 DEF LaunchKeptUntilMined
  <2>4. CASE TellsBlock
    <3>1. PICK works \in BOOLEAN : Broadcast(GenerateState(Confirmed, works, NoTx))
      BY <2>4 DEF TellsBlock
    <3>2. state' = Confirmed /\ Confirmed = state
      BY <2>4, ConfirmedFacts DEF TellsBlock
    <3>3. \A y \in announced' : y \in announced \/ y = NoTx \/ state' = Launch(y)
      <4>1. \/ GenerateState(Confirmed, works, NoTx) \in {Closed, Changed, Launch(NoTx)}
            \/ /\ state' = Launch(state.tx)
               /\ GenerateState(Confirmed, works, NoTx) = Launch(state.tx)
        BY <3>2, KnownState, GeneratedFacts
      <4> QED BY <3>1, <4>1, StateFacts DEF Broadcast
    <3> QED BY <2>1, <2>2, <3>2, <3>3 DEF LaunchKeptUntilMined
  <2>5. CASE TellsNothing
    BY <2>1, <2>2, <2>5 DEF TellsNothing, LaunchKeptUntilMined
  <2> QED BY <2>1, <2>3, <2>4, <2>5
<1>4. MineBlock \/ EventNext \/ UNCHANGED << minedAt, announced, state >>
  BY DEF Next, ChainNext, EngineNext, TraderNext, RunNext, PublishBlock, StartDispatch,
         SendTransaction, Request, Leave, TakeRequest, TakeBlock, vars, chain_vars,
         found_vars
<1> QED BY <1>1, <1>2, <1>3, <1>4

(* A step of SignalsNeverGoBack.                                           *)
GoesOn ==
  /\ signal = Changed => signal' = Changed
  /\ signal.tx # NoTx => signal' \in {signal, Changed}

(* Every step keeps the last signal at the state, and no signal goes back. *)
LEMMA StepSignals ==
  TypeOK /\ OneAtHand /\ SignalFollows /\ [Next]_vars => SignalFollows' /\ GoesOn
<1> SUFFICES ASSUME TypeOK, OneAtHand, SignalFollows, [Next]_vars
             PROVE  SignalFollows' /\ GoesOn
  OBVIOUS
<1>1. CASE UNCHANGED << signal, state >>
  BY <1>1 DEF SignalFollows, GoesOn
<1>2. CASE EventNext
  <2>1. TellsFound \/ TellsBlock \/ TellsNothing
    BY <1>2, EventShapes
  <2>2. \/ signal.tx = NoTx /\ signal # Changed
        \/ signal = Changed /\ state = Changed
        \/ signal = Launch(signal.tx) /\ signal # Changed /\ state \in {signal, Changed}
    BY StateFacts DEF TypeOK, SignalFollows
  <2>3. CASE TellsFound
    <3>1. PICK tx \in Txs, works \in BOOLEAN : state' = GenerateState(state, works, tx)
      BY <2>3 DEF TellsFound
    <3>2. signal' = state'
      BY <2>3 DEF TellsFound, Broadcast
    <3>3. /\ state = Changed => state' = Changed
          /\ \A y : state = Launch(y) => state' = state
      BY <3>1, GeneratedFacts
    <3> QED BY <2>2, <3>2, <3>3 DEF SignalFollows, GoesOn
  <2>4. CASE TellsBlock
    <3>1. PICK works \in BOOLEAN : signal' = GenerateState(Confirmed, works, NoTx)
      BY <2>4 DEF TellsBlock, Broadcast
    <3>2. state' = Confirmed /\ Confirmed = state /\ state # Changed
      BY <2>4, ConfirmedFacts DEF TellsBlock
    <3>3. \/ signal'.tx = NoTx /\ signal' # Changed
          \/ signal' = state
      <4>1. CASE state = Closed
        <5>1. signal' \in {Closed, Launch(NoTx)}
          BY <3>1, <3>2, <4>1, GeneratedFacts
        <5>2. /\ Closed.tx = NoTx /\ Closed # Changed
              /\ Launch(NoTx).tx = NoTx /\ Launch(NoTx) # Changed
          BY StateFacts
        <5> QED BY <5>1, <5>2
      <4>2. CASE state = Launch(state.tx)
        BY <3>1, <3>2, <4>2, GeneratedFacts
      <4> QED BY <3>2, <4>1, <4>2, KnownState
    <3>4. \A y : state = Launch(y) => signal' = state
      BY <3>1, <3>2, GeneratedFacts
    <3> QED BY <2>2, <3>2, <3>3, <3>4 DEF SignalFollows, GoesOn
  <2>5. CASE TellsNothing
    <3>1. state' \in {state, Changed} /\ signal' = signal
      BY <2>5, ConfirmedFacts DEF TellsNothing
    <3> QED BY <3>1 DEF SignalFollows, GoesOn
  <2> QED BY <2>1, <2>3, <2>4, <2>5
<1>3. EventNext \/ UNCHANGED << signal, state >>
  BY DEF Next, ChainNext, EngineNext, TraderNext, RunNext, MineBlock, PublishBlock,
         StartDispatch, SendTransaction, Request, Leave, TakeRequest, TakeBlock, vars,
         found_vars
<1> QED BY <1>1, <1>2, <1>3

-----------------------------------------------------------------------------
(* The theorems.                                                           *)

(* The inductive invariant holds in every state.                           *)
LEMMA SimulatorAlways == Spec => []SimulatorInv
<1>1. Init => SimulatorInv
  BY InitTypes, InitChecks, InitSignals DEF SimulatorInv
<1>2. SimulatorInv /\ [Next]_vars => SimulatorInv'
  BY StepTypes, StepChecks, StepLaunch, StepSignals DEF SimulatorInv
<1> QED BY <1>1, <1>2, PTL DEF Spec

(* Every state of the simulator has the types of TypeOK: the request       *)
(* channel keeps its capacity, and Launch of no transaction is never kept. *)
THEOREM SimulatorTypes == Spec => []TypeOK
<1>1. SimulatorInv => TypeOK
  BY DEF SimulatorInv
<1> QED BY <1>1, SimulatorAlways, PTL

(* The transaction that the traders were told to follow is the simulator's *)
(* until it is mined, whatever is dispatched, fails or is confirmed.       *)
THEOREM LaunchIsKept == Spec => []LaunchKeptUntilMined
<1>1. SimulatorInv => LaunchKeptUntilMined
  BY DEF SimulatorInv
<1> QED BY <1>1, SimulatorAlways, PTL

(* The sales tested with a transaction are those of the traders registered *)
(* when the SimulatorEngine sent it, for any number of traders.            *)
THEOREM ChecksFollowOrders == Spec => []ChecksAreDue
<1>1. SimulatorInv => ChecksAreDue
  BY DEF SimulatorInv
<1> QED BY <1>1, SimulatorAlways, PTL

(* Nothing but Changed is broadcast after Changed, and no other launch     *)
(* after the launch by a transaction.                                      *)
THEOREM SignalsGoOn == Spec => SignalsNeverGoBack
<1>1. SimulatorInv /\ [Next]_vars
        => [/\ signal = Changed => signal' = Changed
            /\ signal.tx # NoTx => signal' \in {signal, Changed}]_vars
  BY StepSignals DEF SimulatorInv, GoesOn
<1> QED BY <1>1, SimulatorAlways, PTL DEF Spec, SignalsNeverGoBack

=============================================================================
