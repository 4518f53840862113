------------------------------ MODULE Executor ------------------------------
(***************************************************************************)
(* The executor (executor/mod.rs, executor/sender/bundle_sender.rs): one   *)
(* actor that selects between the watch channel of blocks and the channel  *)
(* of orders, the queue of bundle orders it shares with the tasks it       *)
(* spawns (bundle_q, a Mutex), the tasks that sleep six seconds and then   *)
(* drain the queue, the tasks that sign and post bundles, and the tasks    *)
(* that wait for the relays and answer the traders.                        *)
(*                                                                         *)
(* Outside the program: the chain mines blocks, the relays accept, lose or *)
(* include bundles, the websocket client may fail while an answer is made. *)
(***************************************************************************)
EXTENDS Naturals, FiniteSets

CONSTANTS
  Orders,           (* Orders the traders may submit, each at most once.   *)
  Tasks,            (* Bound: tasks that hold a batch, alive at one time.  *)
  Keys,             (* separate_orders' classes: Normal, or a target tx.   *)
  Forms,            (* Contents the traders' orders may have.              *)
  MaxBlock,         (* Bound: the last block the chain mines.              *)
  Horizon,          (* How far beyond oracle.next a target may lie.        *)
  OrderCap          (* Capacity of the order channel (20 in main.rs).      *)

TransactionTypes == { "Auto", "Bundle", "Normal" }

ASSUME ExecutorAssumption ==
  /\ MaxBlock \in Nat \ {0, 1}
  /\ Horizon \in Nat
  /\ Forms # {}
  /\ Forms \subseteq [type : TransactionTypes, target : 0 .. MaxBlock + Horizon,
                      key : Keys]
  /\ OrderCap \in Nat \ {0}

VARIABLES
  height,           (* Chain: number of the last mined block.              *)
  oracle,           (* BlockOracle in the watch: number of `latest`.       *)
  changed,          (* The executor has not seen the watch's last value.   *)
  early,            (* |now - latest.timestamp| <= 10 s.                   *)
  pc,               (* The executor: in its select, or handling a block.   *)
  order_rx,         (* Orders sent by traders and not yet received.        *)
  bundle_q,         (* Orders waiting for a drain task.                    *)
  tasks,            (* Tasks that own a batch of orders and a block.       *)
  normal_tasks,     (* Orders whose clone went to process_normal.          *)
  bundles,          (* Every bundle constructed so far.                    *)
  form,             (* Contents of a submitted order.                      *)
  answered,         (* Orders with an answer in their response channel.    *)
  outcome           (* What the trader waiting for the order knows.        *)

chain_vars == << height, oracle, changed, early >>
order_vars == << form, answered, outcome >>
vars == << chain_vars, pc, order_rx, bundle_q, tasks, normal_tasks, bundles,
           order_vars >>

-----------------------------------------------------------------------------

(* BlockTargetType::None; Exact(block) is the block's number.              *)
AnyBlock == 0

(* The contents of an order that does not exist yet.                       *)
BlankForm == CHOOSE f \in Forms : TRUE

(* A task is free, asleep before it drains the queue, or about to build    *)
(* the bundles of its batch.                                               *)
FreeTask == [pc |-> "free", block |-> 0, batch |-> {}]

TaskStates ==
  [pc : {"free", "asleep", "sending"}, block : 0 .. MaxBlock,
   batch : SUBSET Orders]

(* `owed` are the orders whose response senders the bundle's task holds.   *)
BundleStates ==
  [orders : SUBSET Orders, block : 0 .. MaxBlock,
   stage : {"posting", "posted", "answering", "closed"},
   relayed : BOOLEAN, landed : BOOLEAN, owed : SUBSET Orders]

(* Mutant of NextBlock: one block too far.                                 *)
BlockAfterNext == oracle + 2

(* The block the next bundles are for: oracle.next.                        *)
NextBlock == oracle + 1

Batched == UNION { tasks[t].batch : t \in Tasks }
Bundled == UNION { b.orders : b \in bundles }
Owed    == UNION { b.owed : b \in bundles }
Landed  == UNION { b.orders : b \in { c \in bundles : c.landed } }

(* Orders of which some task, queue or channel still owns a response       *)
(* sender: the trader's recv() returns None exactly when there is none.    *)
Held == order_rx \cup bundle_q \cup Batched \cup normal_tasks \cup Owed

(* A block may have been published before the executor starts.             *)
Init ==
  /\ height = 1
  /\ oracle = 1
  /\ changed \in BOOLEAN
  /\ early \in BOOLEAN
  /\ pc = "select"
  /\ order_rx = {}
  /\ bundle_q = {}
  /\ tasks = [t \in Tasks |-> FreeTask]
  /\ normal_tasks = {}
  /\ bundles = {}
  /\ form = [o \in Orders |-> BlankForm]
  /\ answered = {}
  /\ outcome = [o \in Orders |-> "idle"]

-----------------------------------------------------------------------------
(* The chain, the block stream and the clock.                              *)

Replace(b, c) == bundles' = (bundles \ {b}) \cup {c}

(* A block is mined; of the bundles the relays hold for it some land.      *)
MineBlock ==
  /\ height < MaxBlock
  /\ height' = height + 1
  /\ \E lucky \in SUBSET { b \in bundles : b.relayed /\ b.block = height + 1 } :
       bundles' = { [b EXCEPT !.landed = @ \/ b \in lucky] : b \in bundles }
  /\ UNCHANGED << oracle, changed, early, pc, order_rx, bundle_q, tasks,
                  normal_tasks, order_vars >>

(* The stream fetches each announced block and sends it into the watch; a  *)
(* failed fetch skips the block.  The watch keeps the last value only.     *)
PublishBlock ==
  /\ \E n \in oracle + 1 .. height :
       /\ n < MaxBlock
       /\ oracle' = n
  /\ changed' = TRUE
  /\ early' \in BOOLEAN
  /\ UNCHANGED << height, pc, order_rx, bundle_q, tasks, normal_tasks, bundles,
                  order_vars >>

TenSecondsPass ==
  /\ early
  /\ early' = FALSE
  /\ UNCHANGED << height, oracle, changed, pc, order_rx, bundle_q, tasks,
                  normal_tasks, bundles, order_vars >>

-----------------------------------------------------------------------------
(* The traders' side of the order channel.                                 *)

(* Trader::run, OrderNew: executor_tx.send((order, response_tx)).await and *)
(* then response_rx.recv().await.  A target is the oracle.next of some     *)
(* moment so far (the oracle starts at block 1), or the launch block of a  *)
(* simulation, the first block at which the token can be traded: some      *)
(* blocks further on.                                                      *)
Submit(o) ==
  /\ outcome[o] = "idle"
  /\ Cardinality(order_rx) < OrderCap
  /\ \E f \in Forms :
       /\ f.target \in {AnyBlock} \cup 2 .. NextBlock + Horizon
       /\ form' = [form EXCEPT ![o] = f]
  /\ order_rx' = order_rx \cup {o}
  /\ outcome' = [outcome EXCEPT ![o] = "waiting"]
  /\ UNCHANGED << chain_vars, pc, bundle_q, tasks, normal_tasks, bundles,
                  answered >>

(* recv() returns Some(transaction).                                       *)
ReceiveAnswer(o) ==
  /\ outcome[o] = "waiting"
  /\ o \in answered
  /\ outcome' = [outcome EXCEPT ![o] = "filled"]
  /\ UNCHANGED << chain_vars, pc, order_rx, bundle_q, tasks, normal_tasks,
                  bundles, form, answered >>

(* recv() returns None: every clone of the sender was dropped.             *)
ReceiveClosed(o) ==
  /\ outcome[o] = "waiting"
  /\ o \notin answered
  /\ o \notin Held
  /\ outcome' = [outcome EXCEPT ![o] = "unfilled"]
  /\ UNCHANGED << chain_vars, pc, order_rx, bundle_q, tasks, normal_tasks,
                  bundles, form, answered >>

-----------------------------------------------------------------------------
(* Executor::run.                                                          *)

(* block_stream.changed() resolves and marks the current value as seen.    *)
SeeBlock ==
  /\ pc = "select"
  /\ changed
  /\ changed' = FALSE
  /\ pc' = "block"
  /\ UNCHANGED << height, oracle, early, order_rx, bundle_q, tasks,
                  normal_tasks, bundles, order_vars >>

(* The oracle is read afterwards, so a block published in between is       *)
(* handled now and once more later.  A task is spawned only if something   *)
(* is queued at this moment; it keeps the oracle.next it was spawned with. *)
HandleBlock ==
  /\ pc = "block"
  /\ pc' = "select"
  /\ IF bundle_q = {}
     THEN UNCHANGED tasks
     ELSE \E t \in Tasks :
            /\ tasks[t].pc = "free"
            /\ tasks' = [tasks EXCEPT ![t] = [pc |-> "asleep",
                                              block |-> NextBlock,
                                              batch |-> {}]]
  /\ UNCHANGED << chain_vars, order_rx, bundle_q, normal_tasks, bundles,
                  order_vars >>

(* Mutant of SendNow: the target is not compared with the next block.      *)
SendIfEarly(o) == early

(* process_bundle: send at once if the order is due and there is time, or  *)
(* queue it.                                                               *)
SendNow(o) == early /\ form[o].target <= NextBlock

ProcessBundle(o) ==
  IF SendNow(o)
  THEN /\ \E t \in Tasks :
            /\ tasks[t].pc = "free"
            /\ tasks' = [tasks EXCEPT ![t] = [pc |-> "sending",
                                              block |-> NextBlock,
                                              batch |-> {o}]]
       /\ UNCHANGED bundle_q
  ELSE /\ bundle_q' = bundle_q \cup {o}
       /\ UNCHANGED tasks

(* process_normal spawns a task that owns the order and does nothing.      *)
ProcessNormal(o) == normal_tasks' = normal_tasks \cup {o}

(* order_rx.recv(): Bundle and Auto orders are bundled, Auto and the other *)
(* orders go (Auto: a clone of it) to process_normal.                      *)
ReceiveOrder(o) ==
  /\ pc = "select"
  /\ o \in order_rx
  /\ order_rx' = order_rx \ {o}
  /\ IF form[o].type \in {"Bundle", "Auto"}
     THEN ProcessBundle(o)
     ELSE UNCHANGED << bundle_q, tasks >>
  /\ IF form[o].type = "Bundle"
     THEN UNCHANGED normal_tasks
     ELSE ProcessNormal(o)
  /\ UNCHANGED << chain_vars, pc, bundles, form, answered, outcome >>

NormalTaskEnds(o) ==
  /\ o \in normal_tasks
  /\ normal_tasks' = normal_tasks \ {o}
  /\ UNCHANGED << chain_vars, pc, order_rx, bundle_q, tasks, bundles,
                  order_vars >>

-----------------------------------------------------------------------------
(* The tasks.                                                              *)

(* BlockTargetType::None counts as the task's own block.                   *)
Due(o, block) == form[o].target <= block

(* Mutant of DrainQueue: the orders for a future block are not pushed back *)
(* after the drain.                                                        *)
ForgetFuture(t) ==
  /\ tasks[t].pc = "asleep"
  /\ tasks' = [tasks EXCEPT ![t].pc = "sending",
                            ![t].batch = { o \in bundle_q : Due(o, tasks[t].block) }]
  /\ bundle_q' = {}
  /\ UNCHANGED << chain_vars, pc, order_rx, normal_tasks, bundles, order_vars >>

(* Mutant of DrainQueue: the orders for this block stay in the queue.      *)
CopyQueue(t) ==
  /\ tasks[t].pc = "asleep"
  /\ tasks' = [tasks EXCEPT ![t].pc = "sending",
                            ![t].batch = { o \in bundle_q : Due(o, tasks[t].block) }]
  /\ UNCHANGED << chain_vars, pc, order_rx, bundle_q, normal_tasks, bundles,
                  order_vars >>

(* Six seconds later, under the lock of the queue: take all, keep the      *)
(* orders for this block, push the others back.                            *)
DrainQueue(t) ==
  /\ tasks[t].pc = "asleep"
  /\ LET due == { o \in bundle_q : Due(o, tasks[t].block) }
     IN  /\ tasks' = [tasks EXCEPT ![t].pc = "sending", ![t].batch = due]
         /\ bundle_q' = bundle_q \ due
  /\ UNCHANGED << chain_vars, pc, order_rx, normal_tasks, bundles, order_vars >>

(* Mutant of BundlesOf: the response senders are not moved to the task.    *)
SenderlessBundlesOf(batch, block) ==
  { [orders |-> { o \in batch : form[o].key = k }, block |-> block,
     stage |-> "posting", relayed |-> FALSE, landed |-> FALSE, owed |-> {}]
      : k \in { form[o].key : o \in batch } }

(* separate_orders and construct_bundle: one bundle for every target       *)
(* transaction and one for the orders without.                             *)
BundlesOf(batch, block) ==
  { [orders |-> { o \in batch : form[o].key = k }, block |-> block,
     stage |-> "posting", relayed |-> FALSE, landed |-> FALSE,
     owed |-> { o \in batch : form[o].key = k }]
      : k \in { form[o].key : o \in batch } }

SendOrders(t) ==
  /\ tasks[t].pc = "sending"
  /\ bundles' = bundles \cup BundlesOf(tasks[t].batch, tasks[t].block)
  /\ tasks' = [tasks EXCEPT ![t] = FreeTask]
  /\ UNCHANGED << chain_vars, pc, order_rx, bundle_q, normal_tasks, order_vars >>

(* Signing unwraps: a panic drops the task with its whole batch.           *)
SendOrdersPanics(t) ==
  /\ tasks[t].pc = "sending"
  /\ tasks[t].batch # {}
  /\ tasks' = [tasks EXCEPT ![t] = FreeTask]
  /\ UNCHANGED << chain_vars, pc, order_rx, bundle_q, normal_tasks, bundles,
                  order_vars >>

(* Mutant of Closed: the failed task keeps the response senders.           *)
KeepSenders(b) == [b EXCEPT !.stage = "closed"]

Closed(b) == [b EXCEPT !.stage = "closed", !.owed = {}]

(* Mutant of PostBundle: a refused bundle's orders are queued once more.   *)
PostOrRequeue(b) ==
  /\ b.stage = "posting"
  /\ \/ /\ Replace(b, [b EXCEPT !.stage = "posted", !.relayed = TRUE])
        /\ UNCHANGED bundle_q
     \/ /\ \E relayed \in BOOLEAN : Replace(b, [Closed(b) EXCEPT !.relayed = relayed])
        /\ bundle_q' = bundle_q \cup b.orders
  /\ UNCHANGED << chain_vars, pc, order_rx, tasks, normal_tasks, order_vars >>

(* Every relay is asked.  Acknowledged by one at least: wait.  By none,    *)
(* although one may have it (a lost reply): the bundle failed.             *)
PostBundle(b) ==
  /\ b.stage = "posting"
  /\ \/ Replace(b, [b EXCEPT !.stage = "posted", !.relayed = TRUE])
     \/ \E relayed \in BOOLEAN : Replace(b, [Closed(b) EXCEPT !.relayed = relayed])
  /\ UNCHANGED << chain_vars, pc, order_rx, bundle_q, tasks, normal_tasks,
                  order_vars >>

(* Mutant of ResolveBundle: an accepted bundle counts as included.         *)
TrustRelay(b) ==
  /\ b.stage = "posted"
  /\ Replace(b, [b EXCEPT !.stage = "answering"])
  /\ UNCHANGED << chain_vars, pc, order_rx, bundle_q, tasks, normal_tasks,
                  order_vars >>

(* All pending bundles have returned: included according to one relay, or  *)
(* not included, or an error at every relay.                               *)
ResolveBundle(b) ==
  /\ b.stage = "posted"
  /\ height >= b.block
  /\ \/ b.landed /\ Replace(b, [b EXCEPT !.stage = "answering"])
     \/ Replace(b, Closed(b))
  /\ UNCHANGED << chain_vars, pc, order_rx, bundle_q, tasks, normal_tasks,
                  order_vars >>

(* The answer is built from the fetched transactions and sent.             *)
AnswerOrder(b, o) ==
  /\ b.stage = "answering"
  /\ o \in b.owed
  /\ answered' = answered \cup {o}
  /\ Replace(b, IF b.owed = {o} THEN Closed(b) ELSE [b EXCEPT !.owed = @ \ {o}])
  /\ UNCHANGED << chain_vars, pc, order_rx, bundle_q, tasks, normal_tasks,
                  form, outcome >>

(* The websocket client is unwrapped: a panic drops the other senders too. *)
AnswerPanics(b) ==
  /\ b.stage = "answering"
  /\ Replace(b, Closed(b))
  /\ UNCHANGED << chain_vars, pc, order_rx, bundle_q, tasks, normal_tasks,
                  order_vars >>

-----------------------------------------------------------------------------

TraderNext == \E o \in Orders : Submit(o) \/ ReceiveAnswer(o) \/ ReceiveClosed(o)

RunNext == SeeBlock \/ HandleBlock \/ \E o \in Orders : ReceiveOrder(o)

TaskNext ==
  \/ \E o \in Orders : NormalTaskEnds(o)
  \/ \E t \in Tasks : DrainQueue(t) \/ SendOrders(t) \/ SendOrdersPanics(t)
  \/ \E b \in bundles :
       \/ PostBundle(b)
       \/ ResolveBundle(b)
       \/ AnswerPanics(b)
       \/ \E o \in Orders : AnswerOrder(b, o)

Next ==
  \/ MineBlock \/ PublishBlock \/ TenSecondsPass
  \/ TraderNext \/ RunNext \/ TaskNext

Spec == Init /\ [][Next]_vars

(* Blocks keep coming and their bodies are fetched; tokio polls every      *)
(* ready task; the select of the executor is random, so a ready branch is  *)
(* taken in the end (the orders are finite in number, so weak fairness of  *)
(* each branch says this already); a receiver that can return does.        *)
Fairness ==
  /\ WF_vars(MineBlock)
  /\ WF_vars(PublishBlock)
  /\ WF_vars(SeeBlock)
  /\ WF_vars(HandleBlock)
  /\ \A o \in Orders :
       /\ WF_vars(ReceiveOrder(o))
       /\ WF_vars(NormalTaskEnds(o))
       /\ WF_vars(ReceiveAnswer(o) \/ ReceiveClosed(o))
  /\ \A t \in Tasks : WF_vars(DrainQueue(t) \/ SendOrders(t))
  /\ WF_vars(\E b \in bundles :
               \/ PostBundle(b)
               \/ ResolveBundle(b)
               \/ \E o \in Orders : AnswerOrder(b, o))

FairSpec == Spec /\ Fairness

-----------------------------------------------------------------------------
(* Properties.                                                             *)

(* Every variable has its type; the block numbers of tasks and bundles     *)
(* stay within the chain: they are the oracle.next of some moment, however *)
(* far ahead the targets of the orders lie.                                *)
TypeOK ==
  /\ height \in 1 .. MaxBlock
  /\ oracle \in 1 .. MaxBlock - 1
  /\ changed \in BOOLEAN
  /\ early \in BOOLEAN
  /\ pc \in {"select", "block"}
  /\ order_rx \subseteq Orders
  /\ bundle_q \subseteq Orders
  /\ tasks \in [Tasks -> TaskStates]
  /\ normal_tasks \subseteq Orders
  /\ bundles \subseteq BundleStates
  /\ form \in [Orders -> Forms]
  /\ answered \subseteq Orders
  /\ outcome \in [Orders -> {"idle", "waiting", "filled", "unfilled"}]

(* No order is in two places at once: not in the channel and the queue,    *)
(* not in the queue and a drained batch, not in the batches of two tasks,  *)
(* not in two bundles.  A second bundle would buy or sell twice.  This is  *)
(* what drain, the two retains and push_back of executor/mod.rs must       *)
(* preserve while several drain tasks and the executor share bundle_q.     *)
NeverBundledTwice ==
  /\ order_rx \cap bundle_q = {}
  /\ (order_rx \cup bundle_q) \cap (Batched \cup Bundled) = {}
  /\ Batched \cap Bundled = {}
  /\ \A s, t \in Tasks : s # t => tasks[s].batch \cap tasks[t].batch = {}
  /\ \A b, c \in bundles : b # c => b.orders \cap c.orders = {}

(* A bundle is never built for a block before the target of one of its     *)
(* orders, whichever task drained it and however old the block is that the *)
(* task took with it.                                                      *)
NotBeforeTarget ==
  \A b \in bundles : \A o \in b.orders : Due(o, b.block)

(* A trader is only told of orders that landed on the chain: the position  *)
(* it opens or changes from the answer has happened.                       *)
AnsweredIsLanded == answered \subseteq Landed

(* When a trader has been told that its order is gone, no queue, task or   *)
(* unposted bundle has it any more: the trader may order again.            *)
GoneIsGone ==
  \A o \in Orders :
    outcome[o] = "unfilled" =>
      /\ o \notin Held
      /\ \A b \in bundles : o \in b.orders => b.stage = "closed"

(* An order in the queue is taken out by a drain task that bundles it, and *)
(* not lost on the way, provided the stream still delivers a block and the *)
(* block the order is for is not beyond the blocks of the model.  Until    *)
(* its block comes each drain task pushes it back.                         *)
QueuedIsDrained ==
  \A o \in Orders :
    o \in bundle_q /\ oracle + 1 < MaxBlock /\ form[o].target <= MaxBlock
      ~> o \in Batched

(* Every trader that waits for a response gets one or sees the channel     *)
(* closed, unless its order sits in the queue when the last block of the   *)
(* model has been published, or is for a block that never comes.           *)
WaitingIsResolved ==
  \A o \in Orders :
    outcome[o] = "waiting" ~>
      \/ outcome[o] # "waiting"
      \/ o \in bundle_q /\ (oracle + 1 = MaxBlock \/ form[o].target > MaxBlock)

(* The executor as the traders see it: an order that is in two bundles, or *)
(* in a bundle and still on its way to one, is in no phase of the service. *)
Pending == order_rx \cup bundle_q \cup Batched

Doubled(o) ==
  \E b \in bundles :
    /\ o \in b.orders
    /\ o \in Pending \/ \E c \in bundles \ {b} : o \in c.orders

Phase(o) ==
  IF Doubled(o) THEN "doubled"
  ELSE IF o \in Landed THEN "landed"
  ELSE IF o \in Bundled THEN "bundled"
  ELSE IF o \in Pending THEN "held"
  ELSE IF outcome[o] = "idle" THEN "idle" ELSE "discarded"

Service == INSTANCE OrderService
             WITH phase <- [o \in Orders |-> Phase(o)], open <- Held,
                  answers <- answered, reply <- outcome

(* Executor::run and its tasks implement the order service: each order is  *)
(* bundled once or discarded, for good; it is answered once, after it      *)
(* landed and while a sender is alive; and the channel closes on a trader  *)
(* only when its order cannot be bundled any more.                         *)
ImplementsOrderService == Service!Spec

-----------------------------------------------------------------------------
(* What a comment of the code says and the code does not do.               *)

(* trader.rs, OrderNew: "Transaction was not included in the block (sender *)
(* dropped without response)".                                             *)
DroppedMeansNotIncluded ==
  \A o \in Orders : outcome[o] = "unfilled" => o \notin Landed

=============================================================================
