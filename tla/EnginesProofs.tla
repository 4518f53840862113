---------------------------- MODULE EnginesProofs ----------------------------
(***************************************************************************)
(* Proofs about the engines, for any users, any sequence of messages, any  *)
(* capacity of the channels and whatever panics: the types, and that the   *)
(* token has one simulator, the one in the map.                            *)
(***************************************************************************)
EXTENDS Engines, FiniteSetTheorems, QueueLemmas, TLAPS

-----------------------------------------------------------------------------
(* The inductive invariant.  The type of simulators asks that a message    *)
(* is left for each generation: AddToken numbers a new simulator by the    *)
(* simulators before it, and each of those belongs to another message.     *)

(* The tasks that will not ask the SimulatorEngine any more.               *)
Served == { m \in Tasks : task[m] \notin {"none", "started", "adding"} }

(* The generations that were started.                                      *)
StartedGenerations == { g \in Generations : simulator[g] # "none" }

(* A task has not begun before its message is consumed, a command is in a  *)
(* channel only while its task waits for the answer or is done, and no     *)
(* command waits for a SimulatorEngine that is gone.                       *)
TasksInOrder ==
  /\ \A m \in Tasks : m > consumed => task[m] = "none"
  /\ \A i \in 1 .. Len(simulator_rx) : task[simulator_rx[i]] = "adding"
  /\ \A i, j \in 1 .. Len(simulator_rx) :
       simulator_rx[i] = simulator_rx[j] => i = j
  /\ \A i \in 1 .. Len(trader_rx) : task[trader_rx[i]] \in {"creating", "done"}
  /\ "simulator" \notin engines => simulator_rx = << >>

(* Generations are numbered from 1, and no more of them than tasks are     *)
(* through with the SimulatorEngine.                                       *)
GenerationsInOrder ==
  /\ \E k \in 0 .. Len(Messages) : StartedGenerations = 1 .. k
  /\ Cardinality(StartedGenerations) <= Cardinality(Served)

(* A simulator is in the map until the task that waits for it removes it.  *)
MapHasLiving ==
  \A g \in Generations : simulator[g] \in {"running", "ended"} => simulators = g

EnginesInv == TypeOK /\ TasksInOrder /\ GenerationsInOrder /\ MapHasLiving

-----------------------------------------------------------------------------
(* Facts about the constants and the definitions.                          *)

(* Messages are finitely many, and as many are tasks and generations.      *)
LEMMA MessagesType ==
  /\ Len(Messages) \in Nat
  /\ Tasks = 1 .. Len(Messages)
  /\ Generations = 1 .. Len(Messages)
  /\ NoHandle = 0
  /\ IsFiniteSet(Tasks) /\ Cardinality(Tasks) = Len(Messages)
<1>1. Len(Messages) \in Nat /\ Tasks = 1 .. Len(Messages)
  BY EnginesAssumption, LenProperties DEF Tasks
<1>2. IsFiniteSet(Tasks) /\ Cardinality(Tasks) = Len(Messages)
  <2>1. 1 \in Int /\ Len(Messages) \in Int
    BY <1>1
  <2>2. /\ IsFiniteSet(1 .. Len(Messages))
        /\ Cardinality(1 .. Len(Messages))
             = IF 1 > Len(Messages) THEN 0 ELSE Len(Messages) - 1 + 1
    BY <2>1, FS_Interval
  <2>3. (IF 1 > Len(Messages) THEN 0 ELSE Len(Messages) - 1 + 1) = Len(Messages)
    BY <1>1
  <2> QED BY <1>1, <2>2, <2>3
<1> QED BY <1>1, <1>2 DEF Generations, NoHandle

(* While a task waits for its handle, a generation is left for it.         *)
LEMMA GenerationIsLeft ==
  ASSUME TypeOK, GenerationsInOrder, simulator_rx # << >>,
         task[Head(simulator_rx)] = "adding"
  PROVE  /\ NextGeneration \in Generations
         /\ StartedGenerations = 1 .. NextGeneration - 1
         /\ Cardinality(StartedGenerations) = NextGeneration - 1
<1> DEFINE m == Head(simulator_rx)
<1>1. PICK k \in 0 .. Len(Messages) : StartedGenerations = 1 .. k
  BY DEF GenerationsInOrder
<1>2. k \in Nat /\ Cardinality(1 .. k) = k
  BY <1>1, MessagesType, FS_Interval
<1>3. NextGeneration = k + 1
  <2>1. NextGeneration = 1 + Cardinality(StartedGenerations)
    BY Zenon DEF NextGeneration, StartedGenerations
  <2> QED BY <1>1, <1>2, <2>1
<1>4. m \in Tasks /\ m \notin Served
  BY HeadTailProperties DEF TypeOK, Served
<1>5. Cardinality(Served) < Cardinality(Tasks)
  <2>1. Served \subseteq Tasks \ {m}
    BY <1>4 DEF Served
  <2>2. IsFiniteSet(Tasks \ {m}) /\ Cardinality(Tasks \ {m}) = Cardinality(Tasks) - 1
    BY <1>4, MessagesType, FS_RemoveElement
  <2>3. Cardinality(Served) <= Cardinality(Tasks \ {m}) /\ Cardinality(Served) \in Nat
    BY <2>1, <2>2, FS_Subset, FS_CardinalityType
  <2> QED BY <2>2, <2>3, MessagesType
<1>6. k < Len(Messages)
  <2>1. Cardinality(Served) \in Nat
    BY MessagesType, FS_Subset, FS_CardinalityType DEF Served
  <2> QED BY <1>1, <1>2, <1>5, <2>1, MessagesType DEF GenerationsInOrder
<1> QED BY <1>1, <1>2, <1>3, <1>6, MessagesType

(* A step that takes the handle from no task keeps the generations in      *)
(* order, when it leaves the simulators as they are.                       *)
LEMMA GenerationsKept ==
  ASSUME GenerationsInOrder, Served \subseteq Served',
         StartedGenerations' = StartedGenerations
  PROVE  GenerationsInOrder'
<1>1. IsFiniteSet(Served') /\ Served' \subseteq Tasks
  BY MessagesType, FS_Subset DEF Served
<1>2. Cardinality(Served) <= Cardinality(Served')
  BY <1>1, FS_Subset
<1>3. /\ Cardinality(Served) \in Nat
      /\ Cardinality(Served') \in Nat
      /\ Cardinality(StartedGenerations) \in Nat
  BY <1>1, FS_Subset, MessagesType, FS_CardinalityType DEF Served, StartedGenerations
<1> QED BY <1>2, <1>3 DEF GenerationsInOrder

-----------------------------------------------------------------------------
(* The initial state and the steps.                                        *)

(* The invariant holds before the first message.                           *)
LEMMA InitEngines == Init => EnginesInv
<1> SUFFICES ASSUME Init PROVE EnginesInv
  OBVIOUS
<1> USE MessagesType
<1>1. TypeOK
  <2>1. << >> \in Seq(Tasks) /\ Len(<< >>) = 0
    BY EmptySeq
  <2> QED BY <2>1, EnginesAssumption DEF Init, TypeOK, TaskStates
<1>2. TasksInOrder
  BY DEF Init, TasksInOrder
<1>3. StartedGenerations = {} /\ 1 .. 0 = {}
  BY DEF Init, StartedGenerations
<1>4. Cardinality(Served) \in Nat
  BY FS_Subset, FS_CardinalityType DEF Served
<1>5. GenerationsInOrder
  BY <1>3, <1>4, FS_EmptySet DEF GenerationsInOrder
<1>6. MapHasLiving
  BY DEF Init, MapHasLiving
<1> QED BY <1>1, <1>2, <1>5, <1>6 DEF EnginesInv

-----------------------------------------------------------------------------
(* The steps, one after the other.                                         *)

(* A trader's commands, its end and its removal leave the simulators, the  *)
(* tasks and the engines alone.                                            *)
LEMMA ActorsKept ==
  ASSUME EnginesInv, TypeOK',
         UNCHANGED << consumed, task, engines, simulator_vars >>,
         \A i \in 1 .. Len(trader_rx') : task[trader_rx'[i]] \in {"creating", "done"}
  PROVE  EnginesInv'
<1>1. Served' = Served /\ StartedGenerations' = StartedGenerations
  BY DEF Served, StartedGenerations, simulator_vars
<1>2. TasksInOrder' /\ MapHasLiving'
  BY DEF EnginesInv, TasksInOrder, MapHasLiving, simulator_vars
<1> QED BY <1>1, <1>2, GenerationsKept DEF EnginesInv

(* Every step of a message's task keeps the invariant.                     *)
LEMMA StepMain == EnginesInv /\ MainNext => EnginesInv'
<1> SUFFICES ASSUME EnginesInv, MainNext PROVE EnginesInv'
  OBVIOUS
<1> USE MessagesType
<1>0. TypeOK /\ TasksInOrder /\ GenerationsInOrder /\ MapHasLiving
  BY DEF EnginesInv
<1>1. CASE Consume
  <2>1. consumed + 1 \in Tasks /\ task[consumed + 1] = "none"
    BY <1>0, <1>1 DEF Consume, TypeOK, TasksInOrder
  <2>2. PICK t \in {"started", "failed"} : task' = [task EXCEPT ![consumed + 1] = t]
    BY <1>1 DEF Consume
  <2>3. /\ consumed' = consumed + 1
        /\ UNCHANGED << handle, engines, simulator_vars, trader_vars >>
    BY <1>1 DEF Consume
  <2>4. TypeOK'
    BY <1>0, <1>1, <2>1, <2>2, <2>3
    DEF Consume, TypeOK, TaskStates, simulator_vars, trader_vars, actor_vars
  <2>5. /\ simulator_rx' = simulator_rx /\ trader_rx' = trader_rx
        /\ \A i \in 1 .. Len(simulator_rx) : simulator_rx[i] \in Tasks
        /\ \A i \in 1 .. Len(trader_rx) : trader_rx[i] \in Tasks
    BY <1>0, <2>3, ElementOfSeq DEF TypeOK, simulator_vars, trader_vars
  <2>6. TasksInOrder'
    BY SMTT(30), <1>0, <2>1, <2>2, <2>3, <2>5 DEF TypeOK, TasksInOrder
  <2>7. Served \subseteq Served' /\ StartedGenerations' = StartedGenerations
    BY <1>0, <2>1, <2>2, <2>3 DEF TypeOK, Served, StartedGenerations, simulator_vars
  <2>8. MapHasLiving'
    BY <1>0, <2>3 DEF MapHasLiving, simulator_vars
  <2> QED BY <1>0, <2>4, <2>6, <2>7, <2>8, GenerationsKept DEF EnginesInv
<1>2. ASSUME NEW m \in Tasks, SendAddToken(m) PROVE EnginesInv'
  <2>1. /\ simulator_rx' \in Seq(Tasks)
        /\ Len(simulator_rx') = Len(simulator_rx) + 1
        /\ Len(simulator_rx) \in Nat
        /\ \A i \in 1 .. Len(simulator_rx) : simulator_rx'[i] = simulator_rx[i]
        /\ simulator_rx'[Len(simulator_rx) + 1] = m
    BY <1>0, <1>2, Enqueued DEF SendAddToken, TypeOK
  <2>2. TypeOK'
    <3>1. Len(simulator_rx') <= Cap
      BY <1>2, <2>1, EnginesAssumption DEF SendAddToken
    <3>2. task' \in [Tasks -> TaskStates]
      BY <1>0, <1>2 DEF SendAddToken, TypeOK, TaskStates
    <3>3. UNCHANGED << consumed, handle, engines, simulators, simulator, trader_rx,
                       forwarding, traders, trader, inbox, used, removed >>
      BY <1>2 DEF SendAddToken, trader_vars, actor_vars
    <3> QED BY <1>0, <2>1, <3>1, <3>2, <3>3 DEF TypeOK
  <2>3. /\ \A i \in 1 .. Len(simulator_rx) :
             simulator_rx[i] \in Tasks /\ simulator_rx[i] # m
        /\ \A i \in 1 .. Len(trader_rx) :
             trader_rx[i] \in Tasks /\ trader_rx[i] # m
    BY <1>0, <1>2, ElementOfSeq DEF SendAddToken, TypeOK, TasksInOrder
  <2>4. TasksInOrder'
    <3>1. \A n \in Tasks : n > consumed' => task'[n] = "none"
      BY <1>0, <1>2 DEF SendAddToken, TypeOK, TasksInOrder
    <3>2. \A i \in 1 .. Len(simulator_rx') : task'[simulator_rx'[i]] = "adding"
      BY <1>0, <1>2, <2>1, <2>3 DEF SendAddToken, TypeOK, TasksInOrder
    <3>3. \A i, j \in 1 .. Len(simulator_rx') :
            simulator_rx'[i] = simulator_rx'[j] => i = j
      <4>1. \A i \in 1 .. Len(simulator_rx') :
              i \in 1 .. Len(simulator_rx) \/ i = Len(simulator_rx) + 1
        BY <2>1
      <4>2. \A i, j \in 1 .. Len(simulator_rx) :
              simulator_rx'[i] = simulator_rx'[j] => i = j
        BY <1>0, <2>1 DEF TasksInOrder
      <4>3. \A i \in 1 .. Len(simulator_rx) :
              simulator_rx'[i] # simulator_rx'[Len(simulator_rx) + 1]
        BY <2>1, <2>3
      <4> QED BY <4>1, <4>2, <4>3
    <3>4. \A i \in 1 .. Len(trader_rx') : task'[trader_rx'[i]] \in {"creating", "done"}
      BY <1>0, <1>2, <2>3 DEF SendAddToken, TypeOK, TasksInOrder, trader_vars
    <3>5. "simulator" \in engines'
      BY <1>2 DEF SendAddToken
    <3> QED BY <3>1, <3>2, <3>3, <3>4, <3>5 DEF TasksInOrder
  <2>5. Served \subseteq Served' /\ StartedGenerations' = StartedGenerations
    BY <1>0, <1>2 DEF SendAddToken, TypeOK, Served, StartedGenerations
  <2>6. MapHasLiving'
    BY <1>0, <1>2 DEF SendAddToken, MapHasLiving
  <2> QED BY <1>0, <2>2, <2>4, <2>5, <2>6, GenerationsKept DEF EnginesInv
<1>3. ASSUME NEW m \in Tasks, SendCreateTrader(m) \/ SendCommand(m)
      PROVE  EnginesInv'
  <2>1. /\ trader_rx' = Append(trader_rx, m) /\ Len(trader_rx) < Cap
        /\ task[m] \in {"handed", "started"}
        /\ \/ task' = [task EXCEPT ![m] = "creating"] /\ task[m] = "handed"
           \/ task' = [task EXCEPT ![m] = "done"]
        /\ UNCHANGED << consumed, handle, engines, simulator_rx, simulators, simulator,
                        forwarding, traders, trader, inbox, used, removed >>
    BY <1>3 DEF SendCreateTrader, SendCommand, simulator_vars, actor_vars
  <2>2. /\ trader_rx' \in Seq(Tasks)
        /\ Len(trader_rx') = Len(trader_rx) + 1
        /\ Len(trader_rx) \in Nat
        /\ \A i \in 1 .. Len(trader_rx) : trader_rx'[i] = trader_rx[i]
        /\ trader_rx'[Len(trader_rx) + 1] = m
        /\ \A i \in 1 .. Len(trader_rx) + 1 :
             i \in 1 .. Len(trader_rx) \/ i = Len(trader_rx) + 1
    BY <1>0, <2>1, Enqueued DEF TypeOK
  <2>3. TypeOK'
    <3>1. Len(trader_rx') <= Cap
      BY <2>1, <2>2, EnginesAssumption
    <3>2. task' \in [Tasks -> TaskStates]
      BY SMTT(30), <1>0, <2>1 DEF TypeOK, TaskStates
    <3> QED BY <1>0, <2>1, <2>2, <3>1, <3>2 DEF TypeOK
  <2>4. /\ \A i \in 1 .. Len(simulator_rx) :
             simulator_rx[i] \in Tasks /\ simulator_rx[i] # m
        /\ \A i \in 1 .. Len(trader_rx) : trader_rx[i] \in Tasks
        /\ task \in [Tasks -> TaskStates]
    BY <1>0, <2>1, ElementOfSeq DEF TypeOK, TasksInOrder
  <2>5. TasksInOrder'
    <3>1. \A n \in Tasks : n > consumed' => task'[n] = "none"
      BY <1>0, <2>1, <2>4 DEF TasksInOrder
    <3>2. /\ \A i \in 1 .. Len(simulator_rx') : task'[simulator_rx'[i]] = "adding"
          /\ \A i, j \in 1 .. Len(simulator_rx') :
               simulator_rx'[i] = simulator_rx'[j] => i = j
          /\ "simulator" \notin engines' => simulator_rx' = << >>
      BY <1>0, <2>1, <2>4 DEF TasksInOrder
    <3>3. \A i \in 1 .. Len(trader_rx') : task'[trader_rx'[i]] \in {"creating", "done"}
      <4>1. task'[m] \in {"creating", "done"}
        BY <2>1, <2>4
      <4>2. \A i \in 1 .. Len(trader_rx) : task'[trader_rx[i]] \in {"creating", "done"}
        BY <1>0, <2>1, <2>4, <4>1 DEF TasksInOrder
      <4> QED BY <2>2, <4>1, <4>2
    <3> QED BY <3>1, <3>2, <3>3 DEF TasksInOrder
  <2>6. Served \subseteq Served' /\ StartedGenerations' = StartedGenerations
    BY <1>0, <2>1 DEF TypeOK, Served, StartedGenerations
  <2>7. MapHasLiving'
    BY <1>0, <2>1 DEF MapHasLiving
  <2> QED BY <1>0, <2>3, <2>5, <2>6, <2>7, GenerationsKept DEF EnginesInv
<1>4. ASSUME NEW m \in Tasks, TaskFails(m) PROVE EnginesInv'
  <2>1. /\ \/ task[m] \in {"started", "handed"}
           \/ task[m] = "adding" /\ "simulator" \notin engines
           \/ task[m] = "creating" /\ ~IsQueued(m, trader_rx)
        /\ task' = [task EXCEPT ![m] = "failed"]
        /\ handle' = [handle EXCEPT ![m] = NoHandle]
        /\ UNCHANGED << consumed, engines, simulator_vars, trader_vars >>
    BY <1>4 DEF TaskFails
  <2>2. TypeOK'
    BY <1>0, <2>1 DEF TypeOK, TaskStates, simulator_vars, trader_vars, actor_vars
  <2>3. /\ \A i \in 1 .. Len(simulator_rx) :
             simulator_rx[i] \in Tasks /\ simulator_rx[i] # m
        /\ \A i \in 1 .. Len(trader_rx) :
             trader_rx[i] \in Tasks /\ trader_rx[i] # m
    <3>1. /\ \A i \in 1 .. Len(simulator_rx) : simulator_rx[i] \in Tasks
          /\ \A i \in 1 .. Len(trader_rx) : trader_rx[i] \in Tasks
      BY <1>0, ElementOfSeq DEF TypeOK
    <3>2. CASE task[m] \in {"started", "handed"}
      BY <1>0, <3>1, <3>2 DEF TasksInOrder
    <3>3. CASE task[m] = "adding" /\ "simulator" \notin engines
      <4>1. Len(simulator_rx) = 0
        BY <1>0, <3>3 DEF TasksInOrder
      <4> QED BY <1>0, <3>1, <3>3, <4>1 DEF TasksInOrder
    <3>4. CASE task[m] = "creating" /\ ~IsQueued(m, trader_rx)
      BY <1>0, <3>1, <3>4 DEF TasksInOrder, IsQueued
    <3> QED BY <2>1, <3>2, <3>3, <3>4
  <2>4. TasksInOrder'
    <3>1. task \in [Tasks -> TaskStates] /\ UNCHANGED << consumed, engines, simulator_rx, trader_rx >>
      BY <1>0, <2>1 DEF TypeOK, simulator_vars, trader_vars
    <3>2. \A n \in Tasks : n > consumed' => task'[n] = "none"
      BY <1>0, <2>1, <3>1 DEF TasksInOrder
    <3>3. /\ \A i \in 1 .. Len(simulator_rx) : task'[simulator_rx[i]] = task[simulator_rx[i]]
          /\ \A i \in 1 .. Len(trader_rx) : task'[trader_rx[i]] = task[trader_rx[i]]
      BY <2>1, <2>3, <3>1
    <3> QED BY <1>0, <3>1, <3>2, <3>3 DEF TasksInOrder
  <2>5. Served \subseteq Served' /\ StartedGenerations' = StartedGenerations
    BY <1>0, <2>1 DEF TypeOK, Served, StartedGenerations, simulator_vars
  <2>6. MapHasLiving'
    BY <1>0, <2>1 DEF MapHasLiving, simulator_vars
  <2> QED BY <1>0, <2>2, <2>4, <2>5, <2>6, GenerationsKept DEF EnginesInv
<1> QED
  BY <1>1, <1>2, <1>3, <1>4 DEF MainNext

(* The SimulatorEngine takes a command: a new simulator has the next       *)
(* generation, and only when the map has none.                             *)
LEMMA StepAddToken == EnginesInv /\ AddToken => EnginesInv'
<1> SUFFICES ASSUME EnginesInv, AddToken PROVE EnginesInv'
  OBVIOUS
<1> USE MessagesType
<1>0. TypeOK /\ TasksInOrder /\ GenerationsInOrder /\ MapHasLiving
  BY DEF EnginesInv
<1> DEFINE m == Head(simulator_rx)
<1>1. /\ m \in Tasks
      /\ m = simulator_rx[1] /\ 1 \in 1 .. Len(simulator_rx)
      /\ simulator_rx' \in Seq(Tasks)
      /\ Len(simulator_rx') = Len(simulator_rx) - 1
      /\ Len(simulator_rx) \in Nat \ {0} /\ Len(simulator_rx) <= Cap
      /\ \A i \in 1 .. Len(simulator_rx') :
           /\ simulator_rx'[i] = simulator_rx[i + 1]
           /\ i + 1 \in 1 .. Len(simulator_rx)
           /\ i + 1 # 1
      /\ \A i \in 1 .. Len(simulator_rx) : simulator_rx[i] \in Tasks
  BY <1>0, Dequeued DEF AddToken, TypeOK
<1>2. task[m] = "adding"
  BY <1>0, <1>1 DEF TasksInOrder
<1>3. /\ NextGeneration \in Generations
      /\ StartedGenerations = 1 .. NextGeneration - 1
      /\ Cardinality(StartedGenerations) = NextGeneration - 1
  BY <1>0, <1>2, GenerationIsLeft DEF AddToken
<1>4. /\ task' = [task EXCEPT ![m] = "handed"]
      /\ \/ /\ handle' = [handle EXCEPT ![m] = simulators]
            /\ UNCHANGED << simulators, simulator >>
         \/ /\ simulators = NoHandle
            /\ handle' = [handle EXCEPT ![m] = NextGeneration]
            /\ simulators' = NextGeneration
            /\ simulator' = [simulator EXCEPT ![NextGeneration] = "running"]
      /\ UNCHANGED << consumed, engines, trader_rx, forwarding, traders, trader, inbox,
                      used, removed >>
  BY DEF AddToken, Subscribes, trader_vars, actor_vars
<1>5. "simulator" \in engines
  BY <1>0 DEF AddToken, TasksInOrder
<1>6. TypeOK'
  <2>1. Len(simulator_rx') <= Cap
    BY <1>1, EnginesAssumption
  <2>2. task' \in [Tasks -> TaskStates]
    BY <1>0, <1>1, <1>4 DEF TypeOK, TaskStates
  <2>3. /\ handle' \in [Tasks -> {NoHandle} \cup Generations]
        /\ simulators' \in {NoHandle} \cup Generations
        /\ simulator' \in [Generations -> {"none", "running", "ended", "removed"}]
    <3>1. /\ handle \in [Tasks -> {NoHandle} \cup Generations]
          /\ simulators \in {NoHandle} \cup Generations
          /\ simulator \in [Generations -> {"none", "running", "ended", "removed"}]
      BY <1>0 DEF TypeOK
    <3>2. CASE UNCHANGED << simulators, simulator >>
               /\ handle' = [handle EXCEPT ![m] = simulators]
      BY <3>1, <3>2
    <3>3. CASE /\ handle' = [handle EXCEPT ![m] = NextGeneration]
               /\ simulators' = NextGeneration
               /\ simulator' = [simulator EXCEPT ![NextGeneration] = "running"]
      BY <1>3, <3>1, <3>3
    <3> QED BY <1>4, <3>2, <3>3
  <2> QED BY <1>0, <1>1, <1>4, <2>1, <2>2, <2>3 DEF TypeOK
<1>7. TasksInOrder'
  <2>1. \A n \in Tasks : n > consumed' => task'[n] = "none"
    BY <1>0, <1>1, <1>2, <1>4 DEF TypeOK, TasksInOrder
  <2>2. \A i \in 1 .. Len(simulator_rx') :
          /\ simulator_rx'[i] = simulator_rx[i + 1]
          /\ i + 1 \in 1 .. Len(simulator_rx)
          /\ simulator_rx'[i] \in Tasks /\ simulator_rx'[i] # m
    BY <1>0, <1>1 DEF TasksInOrder
  <2>3. \A i \in 1 .. Len(simulator_rx') : task'[simulator_rx'[i]] = "adding"
    <3>1. task \in [Tasks -> TaskStates]
      BY <1>0 DEF TypeOK
    <3>2. \A i \in 1 .. Len(simulator_rx') : task[simulator_rx'[i]] = "adding"
      BY SMTT(30), <1>0, <2>2 DEF TasksInOrder
    <3> QED BY <1>4, <2>2, <3>1, <3>2
  <2>4. \A i, j \in 1 .. Len(simulator_rx') :
          simulator_rx'[i] = simulator_rx'[j] => i = j
    <3> SUFFICES ASSUME NEW i \in 1 .. Len(simulator_rx'),
                        NEW j \in 1 .. Len(simulator_rx'),
                        simulator_rx'[i] = simulator_rx'[j]
                 PROVE  i = j
      OBVIOUS
    <3>1. /\ i + 1 \in 1 .. Len(simulator_rx) /\ j + 1 \in 1 .. Len(simulator_rx)
          /\ simulator_rx[i + 1] = simulator_rx[j + 1]
      BY <2>2
    <3>2. i + 1 = j + 1
      BY <1>0, <3>1 DEF TasksInOrder
    <3> QED BY <1>1, <3>2
  <2>5. \A i \in 1 .. Len(trader_rx') :
          /\ trader_rx[i] \in Tasks /\ trader_rx[i] # m
    BY <1>0, <1>2, <1>4, ElementOfSeq DEF TypeOK, TasksInOrder
  <2>6. \A i \in 1 .. Len(trader_rx') : task'[trader_rx'[i]] \in {"creating", "done"}
    BY <1>0, <1>4, <2>5 DEF TypeOK, TasksInOrder
  <2> QED BY <1>4, <1>5, <2>1, <2>3, <2>4, <2>6 DEF TasksInOrder
<1>8. Served' = Served \cup {m} /\ m \notin Served /\ IsFiniteSet(Served)
  <2>1. Served' = Served \cup {m} /\ m \notin Served
    BY <1>0, <1>1, <1>2, <1>4 DEF TypeOK, Served
  <2>2. IsFiniteSet(Served)
    BY FS_Subset DEF Served
  <2> QED BY <2>1, <2>2
<1>9. GenerationsInOrder'
  <2>1. CASE UNCHANGED << simulators, simulator >>
    BY <1>0, <1>8, <2>1, GenerationsKept DEF StartedGenerations
  <2>2. CASE simulator' = [simulator EXCEPT ![NextGeneration] = "running"]
    <3>1. StartedGenerations' = StartedGenerations \cup {NextGeneration}
      BY <1>0, <1>3, <2>2 DEF TypeOK, StartedGenerations
    <3>2. StartedGenerations' = 1 .. NextGeneration
      BY <1>3, <3>1
    <3>3. NextGeneration \in 0 .. Len(Messages) /\ Cardinality(1 .. NextGeneration) = NextGeneration
      BY <1>3, FS_Interval
    <3>4. Cardinality(Served') = Cardinality(Served) + 1
      BY <1>8, FS_AddElement
    <3>5. Cardinality(Served) \in Nat
      BY FS_Subset, FS_CardinalityType DEF Served
    <3> QED BY <1>0, <1>3, <3>2, <3>3, <3>4, <3>5 DEF GenerationsInOrder
  <2> QED BY <1>4, <2>1, <2>2
<1>10. MapHasLiving'
  BY <1>0, <1>3, <1>4 DEF TypeOK, MapHasLiving
<1> QED BY <1>6, <1>7, <1>9, <1>10 DEF EnginesInv

(* The end of the SimulatorEngine, and the ends of simulators and their    *)
(* removal from its map.                                                   *)
LEMMA StepSimulators ==
  ASSUME EnginesInv,
         \/ SimulatorEngineStops
         \/ \E g \in Generations :
              SimulatorEnds(g) \/ SimulatorPanics(g) \/ RemoveSimulator(g)
  PROVE  EnginesInv'
<1> USE MessagesType
<1>0. TypeOK /\ TasksInOrder /\ GenerationsInOrder /\ MapHasLiving
  BY DEF EnginesInv
<1>1. CASE SimulatorEngineStops
  <2>1. /\ engines' = engines \ {"simulator"} /\ simulator_rx' = << >>
        /\ UNCHANGED << main_vars, simulators, simulator, trader_vars >>
    BY <1>1 DEF SimulatorEngineStops
  <2>2. << >> \in Seq(Tasks) /\ Len(<< >>) = 0 /\ 0 <= Cap /\ 1 .. 0 = {}
    BY EmptySeq, EnginesAssumption
  <2>3. TypeOK'
    BY <1>0, <2>1, <2>2 DEF TypeOK, main_vars, trader_vars, actor_vars
  <2>4. TasksInOrder'
    BY <1>0, <2>1, <2>2 DEF TasksInOrder, main_vars, trader_vars
  <2>5. Served' = Served /\ StartedGenerations' = StartedGenerations
    BY <2>1 DEF Served, StartedGenerations, main_vars
  <2>6. MapHasLiving'
    BY <1>0, <2>1 DEF MapHasLiving
  <2> QED BY <1>0, <2>3, <2>4, <2>5, <2>6, GenerationsKept DEF EnginesInv
<1>2. ASSUME NEW g \in Generations,
             SimulatorEnds(g) \/ SimulatorPanics(g) \/ RemoveSimulator(g)
      PROVE  EnginesInv'
  <2>1. /\ simulator[g] # "none"
        /\ \/ simulator' = [simulator EXCEPT ![g] = "ended"]
              /\ simulator[g] = "running" /\ simulators' = simulators
           \/ simulator' = [simulator EXCEPT ![g] = "removed"]
              /\ simulator[g] = "ended" /\ simulators' = NoHandle
        /\ UNCHANGED << main_vars, engines, simulator_rx, trader_vars >>
    BY <1>2 DEF SimulatorEnds, SimulatorPanics, RemoveSimulator
  <2>2. TypeOK'
    BY <1>0, <2>1 DEF TypeOK, main_vars, trader_vars, actor_vars
  <2>3. TasksInOrder'
    BY <1>0, <2>1 DEF TasksInOrder, main_vars, trader_vars
  <2>4. Served' = Served /\ StartedGenerations' = StartedGenerations
    BY <1>0, <2>1 DEF TypeOK, Served, StartedGenerations, main_vars
  <2>5. MapHasLiving'
    <3>1. simulator \in [Generations -> {"none", "running", "ended", "removed"}]
      BY <1>0 DEF TypeOK
    <3>2. simulators = g
      BY <1>0, <2>1 DEF MapHasLiving
    <3>3. \A h \in Generations : h # g => simulator[h] \notin {"running", "ended"}
      BY <1>0, <3>2 DEF MapHasLiving
    <3> QED BY <2>1, <3>1, <3>2, <3>3 DEF MapHasLiving
  <2> QED BY <1>0, <2>2, <2>3, <2>4, <2>5, GenerationsKept DEF EnginesInv
<1> QED BY <1>1, <1>2

(* The TraderEngine answers a create.                                      *)
LEMMA StepCreateTrader == EnginesInv /\ CreateTrader => EnginesInv'
<1> SUFFICES ASSUME EnginesInv, CreateTrader PROVE EnginesInv'
  OBVIOUS
<1> USE MessagesType
<1>0. TypeOK /\ TasksInOrder /\ GenerationsInOrder /\ MapHasLiving
  BY DEF EnginesInv
<1> DEFINE m == Head(trader_rx)
           u == Messages[m].user
<1>1. /\ m \in Tasks
      /\ m = trader_rx[1] /\ 1 \in 1 .. Len(trader_rx)
      /\ trader_rx' \in Seq(Tasks)
      /\ Len(trader_rx') = Len(trader_rx) - 1
      /\ Len(trader_rx) \in Nat \ {0} /\ Len(trader_rx) <= Cap
      /\ \A i \in 1 .. Len(trader_rx') :
           trader_rx'[i] = trader_rx[i + 1] /\ i + 1 \in 1 .. Len(trader_rx)
      /\ \A i \in 1 .. Len(trader_rx) : trader_rx[i] \in Tasks
  BY <1>0, Dequeued DEF CreateTrader, TypeOK
<1>2. /\ task[m] \in {"creating", "done"}
      /\ task' = [task EXCEPT ![m] = "done"]
      /\ handle' = [handle EXCEPT ![m] = NoHandle]
      /\ UNCHANGED << consumed, engines, simulator_rx, simulators, simulator, forwarding,
                      inbox, removed >>
  BY <1>0, <1>1 DEF TasksInOrder, CreateTrader, Answer, DropHandle, simulator_vars
<1>3. TypeOK'
  <2>1. u \in Users
    <3>1. Messages[m] \in [user : Users, topic : Topics]
      BY <1>1, EnginesAssumption, ElementOfSeq
    <3> QED BY <3>1
  <2>2. Len(trader_rx') <= Cap
    BY <1>1, EnginesAssumption
  <2>3. task' \in [Tasks -> TaskStates] /\ handle' \in [Tasks -> {NoHandle} \cup Generations]
    BY <1>0, <1>1, <1>2 DEF TypeOK, TaskStates
  <2>4. /\ traders' \subseteq Users
        /\ trader' \in [Users -> {"none", "running", "ended"}]
        /\ used' \in [Users -> {NoHandle} \cup Generations]
    <3>1. handle[m] \in {NoHandle} \cup Generations
      BY <1>0, <1>1 DEF TypeOK
    <3>2. CASE u \in traders
      BY <1>0, <3>2 DEF TypeOK, CreateTrader
    <3>3. CASE u \notin traders
      <4>1. /\ traders' = traders \cup {u}
            /\ trader' = [trader EXCEPT ![u] = "running"]
            /\ used' = [used EXCEPT ![u] = handle[m]]
        BY <3>3 DEF CreateTrader
      <4> HIDE DEF m, u
      <4> QED BY <1>0, <2>1, <3>1, <4>1 DEF TypeOK
    <3> QED BY <3>2, <3>3
  <2> QED BY <1>0, <1>1, <1>2, <2>2, <2>3, <2>4 DEF TypeOK
<1>4. TasksInOrder'
  <2>1. /\ task \in [Tasks -> TaskStates]
        /\ \A i \in 1 .. Len(simulator_rx) :
             simulator_rx[i] \in Tasks /\ simulator_rx[i] # m
    BY <1>0, <1>2, ElementOfSeq DEF TypeOK, TasksInOrder
  <2>2. \A n \in Tasks : n > consumed' => task'[n] = "none"
    BY <1>0, <1>1, <1>2, <2>1 DEF TasksInOrder
  <2>3. \A i \in 1 .. Len(trader_rx') : task'[trader_rx'[i]] \in {"creating", "done"}
    <3> SUFFICES ASSUME NEW i \in 1 .. Len(trader_rx')
                 PROVE  task'[trader_rx'[i]] \in {"creating", "done"}
      OBVIOUS
    <3>1. trader_rx'[i] = trader_rx[i + 1] /\ i + 1 \in 1 .. Len(trader_rx)
      BY <1>1
    <3>2. task[trader_rx[i + 1]] \in {"creating", "done"} /\ trader_rx[i + 1] \in Tasks
      BY <1>0, <1>1, <3>1 DEF TasksInOrder
    <3> QED BY <1>1, <1>2, <2>1, <3>1, <3>2
  <2> QED BY <1>0, <1>2, <2>1, <2>2, <2>3 DEF TasksInOrder
<1>5. Served \subseteq Served' /\ StartedGenerations' = StartedGenerations
  BY <1>0, <1>1, <1>2 DEF TypeOK, Served, StartedGenerations
<1>6. MapHasLiving'
  BY <1>0, <1>2 DEF MapHasLiving
<1> QED BY <1>0, <1>3, <1>4, <1>5, <1>6, GenerationsKept DEF EnginesInv

(* The TraderEngine panics, or takes a command and sends it on.            *)
LEMMA StepTraderEngine ==
  ASSUME EnginesInv, TraderEnginePanics \/ TakeCommand \/ ForwardCommand
  PROVE  EnginesInv'
<1> USE MessagesType
<1>0. TypeOK /\ TasksInOrder /\ GenerationsInOrder /\ MapHasLiving
  BY DEF EnginesInv
<1>1. CASE TraderEnginePanics
  <2>1. /\ engines' = engines \ {"trader"} /\ trader_rx' = << >>
        /\ handle' = [m \in Tasks |-> IF IsQueued(m, trader_rx) THEN NoHandle
                                      ELSE handle[m]]
        /\ UNCHANGED << consumed, task, simulator_vars, forwarding, actor_vars >>
    BY <1>1 DEF TraderEnginePanics
  <2>2. << >> \in Seq(Tasks) /\ Len(<< >>) = 0 /\ 0 <= Cap /\ 1 .. 0 = {}
    BY EmptySeq, EnginesAssumption
  <2>3. TypeOK'
    BY <1>0, <2>1, <2>2 DEF TypeOK, simulator_vars, actor_vars
  <2>4. TasksInOrder'
    BY <1>0, <2>1, <2>2 DEF TasksInOrder, simulator_vars
  <2>5. Served' = Served /\ StartedGenerations' = StartedGenerations
    BY <2>1 DEF Served, StartedGenerations, simulator_vars
  <2>6. MapHasLiving'
    BY <1>0, <2>1 DEF MapHasLiving, simulator_vars
  <2> QED BY <1>0, <2>3, <2>4, <2>5, <2>6, GenerationsKept DEF EnginesInv
<1>2. CASE TakeCommand
  <2>1. /\ Head(trader_rx) \in Tasks
        /\ trader_rx' \in Seq(Tasks)
        /\ Len(trader_rx') = Len(trader_rx) - 1
        /\ Len(trader_rx) \in Nat \ {0} /\ Len(trader_rx) <= Cap
        /\ \A i \in 1 .. Len(trader_rx') :
             trader_rx'[i] = trader_rx[i + 1] /\ i + 1 \in 1 .. Len(trader_rx)
    BY <1>0, <1>2, Dequeued DEF TakeCommand, TypeOK
  <2>2. /\ forwarding' \in {NoMessage, Head(trader_rx)}
        /\ UNCHANGED << main_vars, engines, simulator_vars, actor_vars >>
    BY <1>2 DEF TakeCommand
  <2>3. Len(trader_rx') <= Cap
    BY <2>1, EnginesAssumption
  <2>4. TypeOK'
    BY <1>0, <2>1, <2>2, <2>3 DEF TypeOK, main_vars, simulator_vars, actor_vars
  <2>5. \A i \in 1 .. Len(trader_rx') : task[trader_rx'[i]] \in {"creating", "done"}
    <3>1. \A i \in 1 .. Len(trader_rx) : task[trader_rx[i]] \in {"creating", "done"}
      BY <1>0 DEF TasksInOrder
    <3> HIDE <1>0
    <3> QED BY <2>1, <3>1
  <2> QED BY <2>2, <2>4, <2>5, ActorsKept DEF main_vars
<1>3. CASE ForwardCommand
  <2> DEFINE u == Messages[forwarding].user
             topic == Messages[forwarding].topic
  <2>1. /\ forwarding' = NoMessage
        /\ UNCHANGED << main_vars, engines, simulator_vars, trader_rx, traders, trader,
                        used, removed >>
        /\ forwarding \in Tasks
    BY <1>0, <1>3 DEF ForwardCommand, TypeOK
  <2>2. u \in Users /\ topic \in Topics
    <3>1. Messages[forwarding] \in [user : Users, topic : Topics]
      BY <2>1, EnginesAssumption, ElementOfSeq
    <3> QED BY <3>1
  <2>3. /\ inbox' \in [Users -> Seq(Topics)]
        /\ \A v \in Users : Len(inbox'[v]) <= TraderCap
    <3>1. CASE inbox' = inbox
      BY <1>0, <3>1 DEF TypeOK
    <3>2. CASE /\ Len(inbox[u]) < TraderCap
               /\ inbox' = [inbox EXCEPT ![u] = Append(inbox[u], topic)]
      <4> HIDE DEF u, topic
      <4>1. /\ Append(inbox[u], topic) \in Seq(Topics)
            /\ Len(Append(inbox[u], topic)) <= TraderCap
        <5>1. inbox[u] \in Seq(Topics)
          BY <1>0, <2>2 DEF TypeOK
        <5>2. /\ Append(inbox[u], topic) \in Seq(Topics)
              /\ Len(Append(inbox[u], topic)) = Len(inbox[u]) + 1
              /\ Len(inbox[u]) \in Nat
          BY <2>2, <5>1, Enqueued
        <5> QED BY <3>2, <5>2, EnginesAssumption
      <4> QED BY <1>0, <2>2, <3>2, <4>1 DEF TypeOK
    <3> QED BY <1>3, <3>1, <3>2 DEF ForwardCommand
  <2>4. TypeOK'
    BY <1>0, <2>1, <2>3 DEF TypeOK, main_vars, simulator_vars
  <2>5. \A i \in 1 .. Len(trader_rx') : task[trader_rx'[i]] \in {"creating", "done"}
    BY <1>0, <2>1 DEF TasksInOrder
  <2> QED BY <2>1, <2>4, <2>5, ActorsKept DEF main_vars
<1> QED BY <1>1, <1>2, <1>3

(* A trader's own steps.                                                   *)
LEMMA StepTraders ==
  ASSUME EnginesInv, NEW u \in Users,
         HandleCommand(u) \/ TraderEnds(u) \/ RemoveTrader(u)
  PROVE  EnginesInv'
<1> USE MessagesType
<1>0. TypeOK /\ TasksInOrder
  BY DEF EnginesInv
<1>1. UNCHANGED << main_vars, engines, simulator_vars, trader_rx, forwarding, traders, used >>
  BY DEF HandleCommand, TraderEnds, RemoveTrader
<1>2. /\ trader' \in [Users -> {"none", "running", "ended"}]
      /\ removed' \subseteq Users
  BY <1>0 DEF TypeOK, HandleCommand, TraderEnds, RemoveTrader
<1>3. /\ inbox' \in [Users -> Seq(Topics)]
      /\ \A v \in Users : Len(inbox'[v]) <= TraderCap
  <2>1. inbox \in [Users -> Seq(Topics)] /\ \A v \in Users : Len(inbox[v]) <= TraderCap
    BY <1>0 DEF TypeOK
  <2>2. CASE inbox' = inbox
    BY <2>1, <2>2
  <2>3. CASE inbox' = [inbox EXCEPT ![u] = << >>]
    <3>1. << >> \in Seq(Topics) /\ Len(<< >>) = 0 /\ 0 <= TraderCap
      BY EmptySeq, EnginesAssumption
    <3> QED BY <2>1, <2>3, <3>1
  <2>4. CASE inbox[u] # << >> /\ inbox' = [inbox EXCEPT ![u] = Tail(inbox[u])]
    <3>1. /\ Tail(inbox[u]) \in Seq(Topics)
          /\ Len(Tail(inbox[u])) = Len(inbox[u]) - 1
          /\ Len(inbox[u]) \in Nat
      BY <2>1, <2>4, Dequeued
    <3>2. Len(Tail(inbox[u])) <= TraderCap
      BY <2>1, <3>1, EnginesAssumption
    <3> QED BY <2>1, <2>4, <3>1, <3>2
  <2> QED BY <2>2, <2>3, <2>4 DEF HandleCommand, TraderEnds, RemoveTrader
<1>4. TypeOK'
  BY <1>0, <1>1, <1>2, <1>3 DEF TypeOK, main_vars, simulator_vars
<1>5. \A i \in 1 .. Len(trader_rx') : task[trader_rx'[i]] \in {"creating", "done"}
  BY <1>0, <1>1 DEF TasksInOrder
<1> QED BY <1>1, <1>4, <1>5, ActorsKept DEF main_vars

(* Every step of the two engines and of their users keeps the invariant.   *)
LEMMA StepEngines == EnginesInv /\ [Next]_vars => EnginesInv'
<1> SUFFICES ASSUME EnginesInv, [Next]_vars PROVE EnginesInv'
  OBVIOUS
<1>1. CASE UNCHANGED vars
  <2>1. UNCHANGED << main_vars, engines, simulator_vars, trader_vars >>
    BY <1>1 DEF vars
  <2>2. TypeOK'
    BY <2>1 DEF EnginesInv, TypeOK, main_vars, simulator_vars, trader_vars, actor_vars
  <2>3. \A i \in 1 .. Len(trader_rx') : task[trader_rx'[i]] \in {"creating", "done"}
    BY <2>1 DEF EnginesInv, TasksInOrder, trader_vars
  <2> QED BY <2>1, <2>2, <2>3, ActorsKept DEF main_vars
<1> QED
  BY <1>1, StepMain, StepAddToken, StepSimulators, StepCreateTrader, StepTraderEngine,
     StepTraders DEF Next, EngineNext

(* So it holds in every state.                                             *)
LEMMA EnginesAlways == Spec => []EnginesInv
  BY InitEngines, StepEngines, PTL DEF Spec

(* Every state of the engines has the types of TypeOK: no channel holds    *)
(* more than its capacity, and a new simulator always finds a generation.  *)
THEOREM EnginesTypes == Spec => []TypeOK
<1>1. EnginesInv => TypeOK
  BY DEF EnginesInv
<1> QED BY <1>1, EnginesAlways, PTL

(* The token never has two simulators that run, and the SimulatorEngine's  *)
(* map hands out the one that runs.                                        *)
THEOREM TokenHasOneSimulator == Spec => []OneSimulator
<1>1. EnginesInv => OneSimulator
  BY DEF EnginesInv, MapHasLiving, OneSimulator
<1> QED BY <1>1, EnginesAlways, PTL

=============================================================================
