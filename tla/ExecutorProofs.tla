--------------------------- MODULE ExecutorProofs ---------------------------
(***************************************************************************)
(* Proofs about the executor for any set of orders, any number of tasks    *)
(* and any bound on the blocks: its types, that no order is bundled twice, *)
(* that no bundle precedes a target, that an answer follows the landing.   *)
(***************************************************************************)
EXTENDS Executor, TLAPS

-----------------------------------------------------------------------------
(* Types.                                                                  *)

(* The block a bundle may be sent for is on the bounded chain.             *)
LEMMA NextBlockType == TypeOK => NextBlock \in 0 .. MaxBlock
  BY ExecutorAssumption DEF TypeOK, NextBlock

(* There is a form for orders that are not submitted yet.                  *)
LEMMA BlankFormType == BlankForm \in Forms
  BY ExecutorAssumption DEF BlankForm

(* The types hold at the start.                                            *)
LEMMA InitTypes == Init => TypeOK
<1> SUFFICES ASSUME Init PROVE TypeOK
  OBVIOUS
<1>1. /\ 1 \in 1 .. MaxBlock
      /\ 1 \in 1 .. MaxBlock - 1
      /\ 0 \in 0 .. MaxBlock
  BY ExecutorAssumption
<1>2. FreeTask \in TaskStates
  BY <1>1 DEF FreeTask, TaskStates
<1>3. tasks \in [Tasks -> TaskStates]
  BY <1>2 DEF Init
<1> QED BY <1>1, <1>3, BlankFormType DEF Init, TypeOK

(* Every step keeps the types.                                             *)
LEMMA StepTypes == TypeOK /\ [Next]_vars => TypeOK'
<1> SUFFICES ASSUME TypeOK, [Next]_vars PROVE TypeOK'
  OBVIOUS
<1> USE DEF TypeOK
<1>0. NextBlock \in 0 .. MaxBlock
  BY NextBlockType
<1>1. CASE MineBlock
  <2>1. PICK lucky \in SUBSET { b \in bundles : b.relayed /\ b.block = height + 1 } :
          bundles' = { [b EXCEPT !.landed = @ \/ b \in lucky] : b \in bundles }
    BY <1>1 DEF MineBlock
  <2>2. \A b \in BundleStates : [b EXCEPT !.landed = @ \/ b \in lucky] \in BundleStates
    BY DEF BundleStates
  <2>3. bundles' \subseteq BundleStates
    BY <2>1, <2>2
  <2> QED BY <1>1, <2>3, ExecutorAssumption DEF MineBlock, order_vars
<1>2. CASE PublishBlock
  BY <1>2, ExecutorAssumption DEF PublishBlock, order_vars
<1>3. CASE TenSecondsPass
  BY <1>3 DEF TenSecondsPass, order_vars
<1>4. ASSUME NEW o \in Orders, Submit(o) PROVE TypeOK'
  BY <1>4 DEF Submit, chain_vars
<1>5. ASSUME NEW o \in Orders, ReceiveAnswer(o) PROVE TypeOK'
  BY <1>5 DEF ReceiveAnswer, chain_vars
<1>6. ASSUME NEW o \in Orders, ReceiveClosed(o) PROVE TypeOK'
  BY <1>6 DEF ReceiveClosed, chain_vars
<1>7. CASE SeeBlock
  BY <1>7 DEF SeeBlock, order_vars
<1>8. CASE HandleBlock
  BY <1>8, <1>0 DEF HandleBlock, chain_vars, order_vars, TaskStates
<1>9. ASSUME NEW o \in Orders, ReceiveOrder(o) PROVE TypeOK'
  <2>1. ProcessBundle(o) \/ UNCHANGED << bundle_q, tasks >>
    BY <1>9 DEF ReceiveOrder
  <2>2. /\ bundle_q' \subseteq Orders
        /\ tasks' \in [Tasks -> TaskStates]
    BY <1>0, <2>1 DEF ProcessBundle, TaskStates
  <2>3. normal_tasks' \subseteq Orders
    BY <1>9 DEF ReceiveOrder, ProcessNormal
  <2> QED BY <1>9, <2>2, <2>3 DEF ReceiveOrder, chain_vars
<1>10. ASSUME NEW o \in Orders, NormalTaskEnds(o) PROVE TypeOK'
  BY <1>10 DEF NormalTaskEnds, chain_vars, order_vars
<1>11. ASSUME NEW t \in Tasks, DrainQueue(t) PROVE TypeOK'
  BY ZenonT(60), <1>11 DEF DrainQueue, chain_vars, order_vars, TaskStates
<1>12. ASSUME NEW t \in Tasks, SendOrders(t) PROVE TypeOK'
  <2>1. BundlesOf(tasks[t].batch, tasks[t].block) \subseteq BundleStates
    <3>1. tasks[t].batch \subseteq Orders /\ tasks[t].block \in 0 .. MaxBlock
      BY DEF TaskStates
    <3>2. ASSUME NEW S, S \subseteq Orders
          PROVE  [orders |-> S, block |-> tasks[t].block, stage |-> "posting",
                  relayed |-> FALSE, landed |-> FALSE, owed |-> S]
                   \in BundleStates
      BY <3>1, <3>2 DEF BundleStates
    <3> QED BY <3>1, <3>2 DEF BundlesOf
  <2>2. FreeTask \in TaskStates
    BY ExecutorAssumption DEF FreeTask, TaskStates
  <2> QED BY <1>12, <2>1, <2>2 DEF SendOrders, chain_vars, order_vars
<1>13. ASSUME NEW t \in Tasks, SendOrdersPanics(t) PROVE TypeOK'
  <2>1. FreeTask \in TaskStates
    BY ExecutorAssumption DEF FreeTask, TaskStates
  <2> QED BY <1>13, <2>1 DEF SendOrdersPanics, chain_vars, order_vars
<1>14. ASSUME NEW b \in bundles, PostBundle(b) PROVE TypeOK'
  <2>1. PICK c \in BundleStates : Replace(b, c)
    BY <1>14 DEF PostBundle, Closed, BundleStates
  <2> QED BY <1>14, <2>1 DEF PostBundle, Replace, chain_vars, order_vars
<1>15. ASSUME NEW b \in bundles, ResolveBundle(b) PROVE TypeOK'
  <2>1. PICK c \in BundleStates : Replace(b, c)
    BY <1>15 DEF ResolveBundle, Closed, BundleStates
  <2> QED BY <1>15, <2>1 DEF ResolveBundle, Replace, chain_vars, order_vars
<1>16. ASSUME NEW b \in bundles, AnswerPanics(b) PROVE TypeOK'
  <2>1. PICK c \in BundleStates : Replace(b, c)
    BY <1>16 DEF AnswerPanics, Closed, BundleStates
  <2> QED BY <1>16, <2>1 DEF AnswerPanics, Replace, chain_vars, order_vars
<1>17. ASSUME NEW b \in bundles, NEW o \in Orders, AnswerOrder(b, o) PROVE TypeOK'
  <2>1. PICK c \in BundleStates : Replace(b, c)
    BY <1>17 DEF AnswerOrder, Closed, BundleStates
  <2> QED BY <1>17, <2>1 DEF AnswerOrder, Replace, chain_vars
<1>18. CASE UNCHANGED vars
  BY <1>18 DEF vars, chain_vars, order_vars
<1> QED
  BY <1>1, <1>2, <1>3, <1>4, <1>5, <1>6, <1>7, <1>8, <1>9, <1>10, <1>11,
     <1>12, <1>13, <1>14, <1>15, <1>16, <1>17, <1>18
  DEF Next, TraderNext, RunNext, TaskNext

(* Every state of the executor has the types of TypeOK, for all constants. *)
THEOREM ExecutorTypes == Spec => []TypeOK
  BY InitTypes, StepTypes, PTL DEF Spec

-----------------------------------------------------------------------------
(* The inductive invariant.  NeverBundledTwice says where an order is not; *)
(* it is preserved because a new order was nowhere before, a task has no   *)
(* batch until it drained, and a task's batch is due at the task's block.  *)

Exclusive ==
  \A o \in Orders :
    /\ outcome[o] = "idle" => o \notin order_rx /\ o \notin bundle_q
    /\ o \in order_rx => o \notin bundle_q
    /\ \A t \in Tasks : o \in tasks[t].batch =>
         /\ outcome[o] # "idle"
         /\ o \notin order_rx /\ o \notin bundle_q
         /\ \A s \in Tasks : o \in tasks[s].batch => s = t
    /\ \A b \in bundles : o \in b.orders =>
         /\ outcome[o] # "idle"
         /\ o \notin order_rx /\ o \notin bundle_q
         /\ \A s \in Tasks : o \notin tasks[s].batch
         /\ \A c \in bundles : o \in c.orders => c = b

BatchIsDue ==
  \A t \in Tasks :
    /\ tasks[t].pc # "sending" => tasks[t].batch = {}
    /\ \A o \in tasks[t].batch : Due(o, tasks[t].block)

(* The senders a bundle owes are all there until it is answered; while it  *)
(* is answered it has landed and the others have their answer.             *)
SendersKept ==
  \A b \in bundles :
    /\ b.stage \in {"posting", "posted"} => b.owed = b.orders
    /\ b.stage = "answering" => b.landed /\ b.orders \ b.owed \subseteq answered
    /\ b.owed \subseteq b.orders
    /\ b.landed => b.block <= height

(* What a bundle still owes an answer has none: nobody is answered twice.  *)
OwedUnanswered ==
  \A b \in bundles : \A o \in b.owed : o \notin answered

IInv ==
  TypeOK /\ Exclusive /\ BatchIsDue /\ NotBeforeTarget /\ SendersKept
    /\ AnsweredIsLanded /\ OwedUnanswered /\ GoneIsGone

(* A step that replaces one bundle by another with the same orders and the *)
(* same block.                                                             *)
Rewrites(b, c) ==
  /\ Replace(b, c)
  /\ c.orders = b.orders
  /\ c.block = b.block
  /\ UNCHANGED << pc, order_rx, bundle_q, tasks, form, outcome >>

(* What a step of a bundle's task can make of the bundle.                  *)
Successors(b) ==
  { [b EXCEPT !.stage = "posted", !.relayed = TRUE],
    [b EXCEPT !.stage = "answering"], Closed(b) }
    \cup { [Closed(b) EXCEPT !.relayed = r] : r \in BOOLEAN }
    \cup { [b EXCEPT !.owed = @ \ {o}] : o \in Orders }

(* A step of a bundle's task changes its stage, its acknowledgement and    *)
(* what it owes, and nothing else.                                         *)
LEMMA SuccessorTypes ==
  ASSUME NEW b \in BundleStates, NEW c \in Successors(b)
  PROVE  c \in BundleStates /\ c.orders = b.orders /\ c.block = b.block
           /\ (c.landed <=> b.landed)
<1>1. [b EXCEPT !.stage = "posted", !.relayed = TRUE] \in BundleStates
  BY DEF BundleStates
<1>2. [b EXCEPT !.stage = "answering"] \in BundleStates
  BY DEF BundleStates
<1>3. Closed(b) \in BundleStates /\ Closed(b).orders = b.orders
        /\ Closed(b).block = b.block /\ (Closed(b).landed <=> b.landed)
  BY DEF BundleStates, Closed
<1>4. \A r \in BOOLEAN : [Closed(b) EXCEPT !.relayed = r] \in BundleStates
  BY <1>3 DEF BundleStates
<1>5. \A o \in Orders : [b EXCEPT !.owed = @ \ {o}] \in BundleStates
  BY DEF BundleStates
<1>6. CASE c = [b EXCEPT !.stage = "posted", !.relayed = TRUE]
  BY <1>1, <1>6 DEF BundleStates
<1>7. CASE c = [b EXCEPT !.stage = "answering"]
  BY <1>2, <1>7 DEF BundleStates
<1>8. CASE c = Closed(b)
  BY <1>3, <1>8
<1>9. ASSUME NEW r \in BOOLEAN, c = [Closed(b) EXCEPT !.relayed = r]
      PROVE  c \in BundleStates /\ c.orders = b.orders /\ c.block = b.block
               /\ (c.landed <=> b.landed)
  BY <1>3, <1>4, <1>9 DEF BundleStates
<1>10. ASSUME NEW o \in Orders, c = [b EXCEPT !.owed = @ \ {o}]
       PROVE  c \in BundleStates /\ c.orders = b.orders /\ c.block = b.block
               /\ (c.landed <=> b.landed)
  BY <1>5, <1>10 DEF BundleStates
<1> QED BY <1>6, <1>7, <1>8, <1>9, <1>10 DEF Successors

(* The four steps of a bundle's task are such replacements.                *)
BundleStep(b) ==
  \/ PostBundle(b) \/ ResolveBundle(b) \/ AnswerPanics(b)
  \/ \E o \in Orders : AnswerOrder(b, o)

(* A step of a bundle's task replaces that bundle and touches no queue.    *)
LEMMA BundleSteps ==
  ASSUME TypeOK, NEW b \in bundles, BundleStep(b)
  PROVE  \E c \in BundleStates : Rewrites(b, c)
<1>0. b \in BundleStates
  BY DEF TypeOK
<1>1. UNCHANGED << pc, order_rx, bundle_q, tasks, form, outcome >>
  BY DEF BundleStep, PostBundle, ResolveBundle, AnswerPanics, AnswerOrder,
         order_vars
<1>2. \E c \in Successors(b) : bundles' = (bundles \ {b}) \cup {c}
  BY DEF BundleStep, PostBundle, ResolveBundle, AnswerPanics, AnswerOrder,
         Successors, Replace
<1> QED BY <1>0, <1>1, <1>2, SuccessorTypes DEF Rewrites, Replace

(* What a bundle built by send_orders looks like.                          *)
LEMMA BuiltBundle ==
  ASSUME NEW batch, NEW block, NEW b \in BundlesOf(batch, block)
  PROVE  /\ b.orders \subseteq batch
         /\ b.owed = b.orders
         /\ b.block = block
         /\ b.stage = "posting"
         /\ ~b.landed
<1>1. PICK k : b = [orders |-> { p \in batch : form[p].key = k }, block |-> block,
                    stage |-> "posting", relayed |-> FALSE, landed |-> FALSE,
                    owed |-> { p \in batch : form[p].key = k }]
  BY DEF BundlesOf
<1> QED BY <1>1

(* Two bundles of one batch share no order.                                *)
LEMMA BuiltBundlesApart ==
  ASSUME NEW batch, NEW block,
         NEW b \in BundlesOf(batch, block), NEW c \in BundlesOf(batch, block),
         NEW o \in b.orders, o \in c.orders
  PROVE  b = c
<1>1. PICK k : b = [orders |-> { p \in batch : form[p].key = k }, block |-> block,
                    stage |-> "posting", relayed |-> FALSE, landed |-> FALSE,
                    owed |-> { p \in batch : form[p].key = k }]
  BY DEF BundlesOf
<1>2. PICK l : c = [orders |-> { p \in batch : form[p].key = l }, block |-> block,
                    stage |-> "posting", relayed |-> FALSE, landed |-> FALSE,
                    owed |-> { p \in batch : form[p].key = l }]
  BY DEF BundlesOf
<1>3. k = l
  BY <1>1, <1>2
<1> QED BY <1>1, <1>2, <1>3

(* MineBlock only marks bundles as landed.                                 *)
LEMMA LandedFields ==
  ASSUME NEW b \in BundleStates, NEW l \in BOOLEAN
  PROVE  /\ [b EXCEPT !.landed = l] \in BundleStates
         /\ [b EXCEPT !.landed = l].orders = b.orders
         /\ [b EXCEPT !.landed = l].block = b.block
         /\ [b EXCEPT !.landed = l].stage = b.stage
         /\ [b EXCEPT !.landed = l].owed = b.owed
         /\ [b EXCEPT !.landed = l].landed <=> l
  BY DEF BundleStates

(* A new block lands some bundles that are for it and leaves the others.   *)
LEMMA MinedBundles ==
  ASSUME TypeOK, MineBlock
  PROVE  \E won \in [bundles -> BOOLEAN] :
           /\ \A b \in bundles : won[b] => b.landed \/ b.block = height + 1
           /\ \A b \in bundles : b.landed => won[b]
           /\ bundles' = { [b EXCEPT !.landed = won[b]] : b \in bundles }
<1>1. PICK lucky \in SUBSET { b \in bundles : b.relayed /\ b.block = height + 1 } :
        bundles' = { [b EXCEPT !.landed = @ \/ b \in lucky] : b \in bundles }
  BY DEF MineBlock
<1> DEFINE won == [b \in bundles |-> b.landed \/ b \in lucky]
<1>2. \A b \in bundles : b.landed \in BOOLEAN
  BY DEF TypeOK, BundleStates
<1>3. \A b \in bundles : [b EXCEPT !.landed = @ \/ b \in lucky] = [b EXCEPT !.landed = won[b]]
  BY <1>2 DEF TypeOK, BundleStates
<1>4. bundles' = { [b EXCEPT !.landed = won[b]] : b \in bundles }
  BY <1>1, <1>3
<1> QED BY <1>2, <1>4

-----------------------------------------------------------------------------
(* Preservation, one conjunct of the invariant at a time.                  *)

(* No order gets to two places: a drain empties the queue it reads.        *)
LEMMA ExclusiveStep == TypeOK /\ Exclusive /\ BatchIsDue /\ [Next]_vars => Exclusive'
<1> SUFFICES ASSUME TypeOK, Exclusive, BatchIsDue, [Next]_vars PROVE Exclusive'
  OBVIOUS
<1>1. CASE MineBlock
  <2>1. UNCHANGED << order_rx, bundle_q, tasks, outcome >>
    BY <1>1 DEF MineBlock, order_vars
  <2>2. PICK won \in [bundles -> BOOLEAN] :
          bundles' = { [b EXCEPT !.landed = won[b]] : b \in bundles }
    BY <1>1, MinedBundles
  <2>3. \A b \in bundles : [b EXCEPT !.landed = won[b]].orders = b.orders
    BY LandedFields DEF TypeOK
  <2>4. ASSUME NEW o \in Orders, NEW c \in bundles', o \in c.orders
        PROVE  /\ \E b \in bundles : o \in b.orders
               /\ \A d \in bundles' : o \in d.orders => d = c
    <3>1. PICK b \in bundles : c = [b EXCEPT !.landed = won[b]] /\ o \in b.orders
      BY <2>2, <2>3, <2>4
    <3>2. ASSUME NEW d \in bundles', o \in d.orders PROVE d = c
      <4>1. PICK a \in bundles : d = [a EXCEPT !.landed = won[a]] /\ o \in a.orders
        BY <2>2, <2>3, <3>2
      <4>2. a = b
        BY <3>1, <4>1 DEF Exclusive
      <4> QED BY <3>1, <4>1, <4>2
    <3> QED BY <3>1, <3>2
  <2> QED BY <2>1, <2>4 DEF Exclusive
<1>2. ASSUME UNCHANGED << order_rx, bundle_q, tasks, bundles, outcome >>
      PROVE  Exclusive'
  BY <1>2 DEF Exclusive
<1>3. PublishBlock \/ TenSecondsPass \/ SeeBlock \/ UNCHANGED vars => Exclusive'
  BY <1>2 DEF PublishBlock, TenSecondsPass, SeeBlock, order_vars, vars
<1>4. ASSUME NEW o \in Orders, Submit(o) PROVE Exclusive'
  BY <1>4 DEF Submit, Exclusive, TypeOK
<1>5. ASSUME NEW o \in Orders, ReceiveAnswer(o) \/ ReceiveClosed(o)
      PROVE  Exclusive'
  BY <1>5 DEF ReceiveAnswer, ReceiveClosed, Exclusive, TypeOK
<1>6. CASE HandleBlock
  BY <1>6 DEF HandleBlock, order_vars, Exclusive, BatchIsDue, TypeOK
<1>7. ASSUME NEW o \in Orders, ReceiveOrder(o) PROVE Exclusive'
  <2>1. /\ o \in order_rx
        /\ order_rx' = order_rx \ {o}
        /\ UNCHANGED << bundles, outcome >>
    BY <1>7 DEF ReceiveOrder
  <2>2. o \notin bundle_q /\ outcome[o] # "idle"
    BY <2>1 DEF Exclusive
  <2>3. \A t \in Tasks : o \notin tasks[t].batch
    BY <2>1 DEF Exclusive
  <2>4. \A b \in bundles : o \notin b.orders
    BY <2>1 DEF Exclusive
  <2>5. CASE UNCHANGED << bundle_q, tasks >>
    BY <2>1, <2>5 DEF Exclusive
  <2>6. CASE bundle_q' = bundle_q \cup {o} /\ UNCHANGED tasks
    BY <2>1, <2>2, <2>3, <2>4, <2>6 DEF Exclusive
  <2>7. ASSUME NEW t \in Tasks, tasks[t].pc = "free",
               tasks' = [tasks EXCEPT ![t] = [pc |-> "sending", block |-> NextBlock,
                                              batch |-> {o}]],
               UNCHANGED bundle_q
        PROVE  Exclusive'
    <3>1. /\ tasks'[t].batch = {o}
          /\ \A s \in Tasks \ {t} : tasks'[s].batch = tasks[s].batch
      BY <2>7 DEF TypeOK
    <3>2. o \notin order_rx' /\ o \notin bundle_q'
      BY <2>1, <2>2, <2>7
    <3>3. \A s \in Tasks : o \in tasks'[s].batch => s = t
      BY <2>3, <3>1
    <3>4. \A p \in Orders \ {o} : \A s \in Tasks :
            p \in tasks'[s].batch => p \in tasks[s].batch
      BY <3>1
    <3> QED BY <2>1, <2>2, <2>4, <2>7, <3>1, <3>2, <3>3, <3>4 DEF Exclusive
  <2> QED BY <1>7, <2>5, <2>6, <2>7 DEF ReceiveOrder, ProcessBundle
<1>8. ASSUME NEW o \in Orders, NormalTaskEnds(o) PROVE Exclusive'
  BY <1>2, <1>8 DEF NormalTaskEnds, order_vars
<1>9. ASSUME NEW t \in Tasks, DrainQueue(t) PROVE Exclusive'
  <2> DEFINE due == { o \in bundle_q : Due(o, tasks[t].block) }
  <2>1. /\ tasks' = [tasks EXCEPT ![t].pc = "sending", ![t].batch = due]
        /\ bundle_q' = bundle_q \ due
        /\ UNCHANGED << order_rx, bundles, outcome >>
        /\ tasks[t].batch = {}
    BY <1>9 DEF DrainQueue, order_vars, BatchIsDue
  <2>2. /\ tasks'[t].batch = due
        /\ \A s \in Tasks \ {t} : tasks'[s].batch = tasks[s].batch
    BY <2>1 DEF TypeOK, TaskStates
  <2>3. \A o \in due : o \in bundle_q /\ o \notin bundle_q'
    BY <2>1
  <2>4. bundle_q' \subseteq bundle_q
    BY <2>1
  <2> HIDE DEF due
  <2>5. ASSUME NEW o \in Orders, NEW s \in Tasks, o \in tasks'[s].batch
        PROVE  \/ s = t /\ o \in due
               \/ s # t /\ o \in tasks[s].batch
    BY <2>2, <2>5
  <2>6. ASSUME NEW o \in Orders, NEW s \in Tasks, o \in tasks'[s].batch
        PROVE  /\ outcome'[o] # "idle"
               /\ o \notin order_rx' /\ o \notin bundle_q'
               /\ \A r \in Tasks : o \in tasks'[r].batch => r = s
    <3>1. CASE s = t /\ o \in due
      <4>1. o \in bundle_q
        BY <2>3, <3>1
      <4>2. \A r \in Tasks : o \notin tasks[r].batch
        BY <4>1 DEF Exclusive
      <4> QED BY <2>1, <2>3, <2>5, <3>1, <4>1, <4>2 DEF Exclusive
    <3>2. CASE s # t /\ o \in tasks[s].batch
      BY <2>1, <2>3, <2>4, <2>5, <3>2 DEF Exclusive
    <3> QED BY <2>5, <2>6, <3>1, <3>2
  <2>7. ASSUME NEW o \in Orders, NEW b \in bundles, o \in b.orders
        PROVE  \A s \in Tasks : o \notin tasks'[s].batch
    BY <2>3, <2>5, <2>7 DEF Exclusive
  <2> QED BY <2>1, <2>4, <2>6, <2>7 DEF Exclusive
<1>10. ASSUME NEW t \in Tasks, SendOrders(t) PROVE Exclusive'
  <2> DEFINE new == BundlesOf(tasks[t].batch, tasks[t].block)
  <2>1. /\ bundles' = bundles \cup new
        /\ tasks' = [tasks EXCEPT ![t] = FreeTask]
        /\ UNCHANGED << order_rx, bundle_q, outcome >>
    BY <1>10 DEF SendOrders, order_vars
  <2>2. /\ tasks'[t].batch = {}
        /\ \A s \in Tasks \ {t} : tasks'[s].batch = tasks[s].batch
    BY <2>1 DEF TypeOK, FreeTask
  <2>3. \A b \in new : b.orders \subseteq tasks[t].batch
    BY BuiltBundle
  <2>4. \A b, c \in new : \A o \in b.orders : o \in c.orders => b = c
    BY BuiltBundlesApart
  <2> HIDE DEF new
  <2>5. \A o \in Orders : o \in tasks[t].batch =>
          /\ \A b \in bundles : o \notin b.orders
          /\ \A s \in Tasks : o \notin tasks'[s].batch
          /\ o \notin order_rx' /\ o \notin bundle_q' /\ outcome'[o] # "idle"
    BY <2>1, <2>2 DEF Exclusive
  <2>6. \A o \in Orders : \A s \in Tasks :
          o \in tasks'[s].batch => o \in tasks[s].batch /\ s # t
    BY <2>2
  <2> QED BY <2>1, <2>3, <2>4, <2>5, <2>6 DEF Exclusive
<1>11. ASSUME NEW t \in Tasks, SendOrdersPanics(t) PROVE Exclusive'
  <2>1. /\ tasks' = [tasks EXCEPT ![t] = FreeTask]
        /\ UNCHANGED << order_rx, bundle_q, bundles, outcome >>
    BY <1>11 DEF SendOrdersPanics, order_vars
  <2>2. \A s \in Tasks : tasks'[s].batch \subseteq tasks[s].batch
    BY <2>1 DEF TypeOK, FreeTask
  <2> QED BY <2>1, <2>2 DEF Exclusive
<1>12. ASSUME NEW b \in bundles, BundleStep(b) PROVE Exclusive'
  <2>1. PICK c \in BundleStates : Rewrites(b, c)
    BY <1>12, BundleSteps
  <2>2. bundles' = (bundles \ {b}) \cup {c} /\ c.orders = b.orders
    BY <2>1 DEF Rewrites, Replace
  <2>3. UNCHANGED << order_rx, bundle_q, tasks, outcome >>
    BY <2>1 DEF Rewrites
  <2>4. \A o \in Orders : \A d \in bundles' : o \in d.orders =>
          \E a \in bundles : o \in a.orders
    BY <2>2
  <2>5. \A o \in Orders : \A d, e \in bundles' :
          o \in d.orders /\ o \in e.orders => d = e
    BY <2>2 DEF Exclusive
  <2> QED BY <2>3, <2>4, <2>5 DEF Exclusive
<1> QED
  BY <1>1, <1>3, <1>4, <1>5, <1>6, <1>7, <1>8, <1>9, <1>10, <1>11, <1>12
  DEF Next, TraderNext, RunNext, TaskNext, BundleStep

(* What is drained or sent at once is due, and is due still when it is     *)
(* bundled.                                                                *)
LEMMA DueStep ==
  TypeOK /\ Exclusive /\ BatchIsDue /\ NotBeforeTarget /\ [Next]_vars
    => BatchIsDue' /\ NotBeforeTarget'
<1> SUFFICES ASSUME TypeOK, Exclusive, BatchIsDue, NotBeforeTarget, [Next]_vars
             PROVE  BatchIsDue' /\ NotBeforeTarget'
  OBVIOUS
<1>1. CASE MineBlock
  <2>1. UNCHANGED << tasks, form >>
    BY <1>1 DEF MineBlock, order_vars
  <2>2. PICK won \in [bundles -> BOOLEAN] :
          bundles' = { [b EXCEPT !.landed = won[b]] : b \in bundles }
    BY <1>1, MinedBundles
  <2>3. \A b \in bundles : /\ [b EXCEPT !.landed = won[b]].orders = b.orders
                            /\ [b EXCEPT !.landed = won[b]].block = b.block
    BY LandedFields DEF TypeOK
  <2>4. ASSUME NEW c \in bundles', NEW o \in c.orders
        PROVE  form'[o].target <= c.block
    <3>1. PICK b \in bundles : c = [b EXCEPT !.landed = won[b]]
      BY <2>2
    <3>2. o \in b.orders /\ c.block = b.block
      BY <2>3, <2>4, <3>1
    <3> QED BY <2>1, <3>2 DEF NotBeforeTarget, Due
  <2> QED BY <2>1, <2>4 DEF BatchIsDue, NotBeforeTarget, Due
<1>2. ASSUME UNCHANGED << tasks, bundles, form >>
      PROVE  BatchIsDue' /\ NotBeforeTarget'
  BY <1>2 DEF BatchIsDue, NotBeforeTarget, Due
<1>3. \/ PublishBlock \/ TenSecondsPass \/ SeeBlock
      \/ (\E o \in Orders : NormalTaskEnds(o) \/ ReceiveAnswer(o) \/ ReceiveClosed(o))
      \/ UNCHANGED vars
      => BatchIsDue' /\ NotBeforeTarget'
  BY <1>2 DEF PublishBlock, TenSecondsPass, SeeBlock, NormalTaskEnds,
              ReceiveAnswer, ReceiveClosed, order_vars, vars
<1>4. ASSUME NEW o \in Orders, Submit(o) PROVE BatchIsDue' /\ NotBeforeTarget'
  <2>1. /\ UNCHANGED << tasks, bundles >>
        /\ \A p \in Orders \ {o} : form'[p] = form[p]
        /\ outcome[o] = "idle"
    BY <1>4 DEF Submit, TypeOK
  <2>2. /\ \A t \in Tasks : o \notin tasks[t].batch
        /\ \A b \in bundles : o \notin b.orders
    BY <2>1 DEF Exclusive
  <2>3. /\ \A t \in Tasks : tasks[t].batch \subseteq Orders
        /\ \A b \in bundles : b.orders \subseteq Orders
    BY DEF TypeOK, TaskStates, BundleStates
  <2>4. \A t \in Tasks : \A p \in tasks[t].batch : form'[p] = form[p]
    BY <2>1, <2>2, <2>3
  <2>5. \A b \in bundles : \A p \in b.orders : form'[p] = form[p]
    BY <2>1, <2>2, <2>3
  <2> QED BY <2>1, <2>4, <2>5 DEF BatchIsDue, NotBeforeTarget, Due
<1>5. CASE HandleBlock
  <2>1. UNCHANGED << bundles, form >>
    BY <1>5 DEF HandleBlock, order_vars
  <2>2. CASE UNCHANGED tasks
    BY <1>2, <2>1, <2>2
  <2>3. ASSUME NEW t \in Tasks,
               tasks' = [tasks EXCEPT ![t] = [pc |-> "asleep", block |-> NextBlock,
                                              batch |-> {}]]
        PROVE  BatchIsDue' /\ NotBeforeTarget'
    <3>1. /\ tasks'[t].batch = {}
          /\ \A s \in Tasks \ {t} : tasks'[s] = tasks[s]
      BY <2>3 DEF TypeOK
    <3> QED BY <2>1, <3>1 DEF BatchIsDue, NotBeforeTarget, Due
  <2> QED BY <1>5, <2>2, <2>3 DEF HandleBlock
<1>6. ASSUME NEW o \in Orders, ReceiveOrder(o)
      PROVE  BatchIsDue' /\ NotBeforeTarget'
  <2>1. UNCHANGED << bundles, form >>
    BY <1>6 DEF ReceiveOrder
  <2>2. CASE UNCHANGED tasks
    BY <1>2, <2>1, <2>2
  <2>3. ASSUME SendNow(o), NEW t \in Tasks,
               tasks' = [tasks EXCEPT ![t] = [pc |-> "sending", block |-> NextBlock,
                                              batch |-> {o}]]
        PROVE  BatchIsDue' /\ NotBeforeTarget'
    <3>1. /\ tasks'[t] = [pc |-> "sending", block |-> NextBlock, batch |-> {o}]
          /\ \A s \in Tasks \ {t} : tasks'[s] = tasks[s]
      BY <2>3 DEF TypeOK
    <3>2. form'[o].target <= tasks'[t].block
      BY <2>1, <2>3, <3>1 DEF SendNow
    <3> QED BY <2>1, <3>1, <3>2 DEF BatchIsDue, NotBeforeTarget, Due
  <2> QED BY <1>6, <2>2, <2>3 DEF ReceiveOrder, ProcessBundle
<1>7. ASSUME NEW t \in Tasks, DrainQueue(t)
      PROVE  BatchIsDue' /\ NotBeforeTarget'
  <2> DEFINE due == { o \in bundle_q : Due(o, tasks[t].block) }
  <2>1. /\ tasks' = [tasks EXCEPT ![t].pc = "sending", ![t].batch = due]
        /\ UNCHANGED << bundles, form >>
    BY <1>7 DEF DrainQueue, order_vars
  <2>2. /\ tasks'[t].batch = due
        /\ tasks'[t].block = tasks[t].block
        /\ tasks'[t].pc = "sending"
        /\ \A s \in Tasks \ {t} : tasks'[s] = tasks[s]
    BY <2>1 DEF TypeOK, TaskStates
  <2>3. \A o \in due : form[o].target <= tasks[t].block
    BY DEF Due
  <2> HIDE DEF due
  <2> QED BY <2>1, <2>2, <2>3 DEF BatchIsDue, NotBeforeTarget, Due
<1>8. ASSUME NEW t \in Tasks, SendOrders(t) \/ SendOrdersPanics(t)
      PROVE  BatchIsDue' /\ NotBeforeTarget'
  <2>1. /\ tasks' = [tasks EXCEPT ![t] = FreeTask]
        /\ UNCHANGED form
        /\ bundles' \subseteq bundles \cup BundlesOf(tasks[t].batch, tasks[t].block)
    BY <1>8 DEF SendOrders, SendOrdersPanics, order_vars
  <2>2. /\ tasks'[t] = FreeTask
        /\ \A s \in Tasks \ {t} : tasks'[s] = tasks[s]
    BY <2>1 DEF TypeOK
  <2>3. BatchIsDue'
    BY <2>1, <2>2 DEF BatchIsDue, FreeTask, Due
  <2>4. ASSUME NEW b \in BundlesOf(tasks[t].batch, tasks[t].block)
        PROVE  b.orders \subseteq tasks[t].batch /\ b.block = tasks[t].block
    BY BuiltBundle
  <2>5. NotBeforeTarget'
    BY <2>1, <2>4 DEF NotBeforeTarget, BatchIsDue, Due
  <2> QED BY <2>3, <2>5
<1>9. ASSUME NEW b \in bundles, BundleStep(b) PROVE BatchIsDue' /\ NotBeforeTarget'
  <2>1. PICK c \in BundleStates : Rewrites(b, c)
    BY <1>9, BundleSteps
  <2>2. /\ bundles' = (bundles \ {b}) \cup {c}
        /\ c.orders = b.orders /\ c.block = b.block
        /\ UNCHANGED << tasks, form >>
    BY <2>1 DEF Rewrites, Replace
  <2> QED BY <2>2 DEF BatchIsDue, NotBeforeTarget, Due
<1> QED
  BY <1>1, <1>3, <1>4, <1>5, <1>6, <1>7, <1>8, <1>9
  DEF Next, TraderNext, RunNext, TaskNext, BundleStep

(* An open bundle owes or has answered each of its orders, whatever fails. *)
LEMMA SendersStep ==
  TypeOK /\ SendersKept /\ AnsweredIsLanded /\ [Next]_vars
    => SendersKept' /\ AnsweredIsLanded'
<1> SUFFICES ASSUME TypeOK, SendersKept, AnsweredIsLanded, [Next]_vars
             PROVE  SendersKept' /\ AnsweredIsLanded'
  OBVIOUS
<1>0. bundles \subseteq BundleStates /\ height \in Nat /\ answered \subseteq Orders
  BY DEF TypeOK
<1>1. CASE MineBlock
  <2>1. height' = height + 1 /\ UNCHANGED answered
    BY <1>1 DEF MineBlock, order_vars
  <2>2. PICK won \in [bundles -> BOOLEAN] :
          /\ \A b \in bundles : won[b] => b.landed \/ b.block = height + 1
          /\ \A b \in bundles : b.landed => won[b]
          /\ bundles' = { [b EXCEPT !.landed = won[b]] : b \in bundles }
    BY <1>1, MinedBundles
  <2> DEFINE W(b) == [b EXCEPT !.landed = won[b]]
  <2>3. \A b \in bundles :
          /\ W(b) \in bundles'
          /\ W(b).orders = b.orders /\ W(b).block = b.block
          /\ W(b).stage = b.stage /\ W(b).owed = b.owed
          /\ W(b).landed <=> won[b]
    <3>1. \A b \in bundles : b \in BundleStates /\ won[b] \in BOOLEAN
      BY <1>0, <2>2
    <3>2. \A b \in bundles : W(b) \in bundles'
      BY <2>2
    <3> QED BY <3>1, <3>2, LandedFields
  <2>4. \A c \in bundles' : \E b \in bundles : c = W(b)
    BY <2>2
  <2> HIDE DEF W
  <2>5. ASSUME NEW b \in bundles
        PROVE  /\ W(b).stage \in {"posting", "posted"} => W(b).owed = W(b).orders
               /\ W(b).stage = "answering" =>
                    W(b).landed /\ W(b).orders \ W(b).owed \subseteq answered'
               /\ W(b).owed \subseteq W(b).orders
               /\ W(b).landed => W(b).block <= height'
    <3>1. /\ W(b).orders = b.orders /\ W(b).block = b.block
          /\ W(b).stage = b.stage /\ W(b).owed = b.owed
          /\ W(b).landed <=> won[b]
      BY <2>3
    <3>2. /\ b.stage \in {"posting", "posted"} => b.owed = b.orders
          /\ b.stage = "answering" => b.landed /\ b.orders \ b.owed \subseteq answered
          /\ b.owed \subseteq b.orders
          /\ b.landed => b.block <= height
      BY DEF SendersKept
    <3>3. b.landed => won[b]
      BY <2>2
    <3>4. won[b] => b.block <= height'
      <4>1. b.block \in Nat
        BY <1>0 DEF BundleStates
      <4>2. won[b] => b.landed \/ b.block = height + 1
        BY <2>2
      <4>3. b.landed => b.block <= height + 1
        BY <1>0, <3>2, <4>1
      <4>4. b.block = height + 1 => b.block <= height + 1
        BY <1>0, <4>1
      <4> QED BY <2>1, <4>2, <4>3, <4>4
    <3>5. W(b).stage \in {"posting", "posted"} => W(b).owed = W(b).orders
      BY <3>1, <3>2
    <3>6. W(b).stage = "answering" =>
            W(b).landed /\ W(b).orders \ W(b).owed \subseteq answered'
      BY <2>1, <3>1, <3>2, <3>3
    <3>7. W(b).owed \subseteq W(b).orders
      BY <3>1, <3>2
    <3>8. W(b).landed => W(b).block <= height'
      BY <3>1, <3>4
    <3> QED BY <3>5, <3>6, <3>7, <3>8
  <2>6. SendersKept'
    BY <2>4, <2>5 DEF SendersKept
  <2>7. AnsweredIsLanded'
    <3>1. ASSUME NEW o \in answered PROVE \E c \in bundles' : c.landed /\ o \in c.orders
      <4>1. PICK b \in bundles : b.landed /\ o \in b.orders
        BY DEF AnsweredIsLanded, Landed
      <4> QED BY <2>2, <2>3, <4>1
    <3> QED BY <2>1, <3>1 DEF AnsweredIsLanded, Landed
  <2> QED BY <2>6, <2>7
<1>2. ASSUME UNCHANGED << height, bundles, answered >>
      PROVE  SendersKept' /\ AnsweredIsLanded'
  BY <1>2 DEF SendersKept, AnsweredIsLanded, Landed
<1>3. \/ PublishBlock \/ TenSecondsPass \/ SeeBlock \/ HandleBlock
      \/ UNCHANGED vars
      => SendersKept' /\ AnsweredIsLanded'
  BY <1>2 DEF PublishBlock, TenSecondsPass, SeeBlock, HandleBlock, chain_vars,
              order_vars, vars
<1>4. ASSUME NEW o \in Orders,
             \/ Submit(o) \/ ReceiveAnswer(o) \/ ReceiveClosed(o)
             \/ ReceiveOrder(o) \/ NormalTaskEnds(o)
      PROVE  SendersKept' /\ AnsweredIsLanded'
  BY <1>2, <1>4 DEF Submit, ReceiveAnswer, ReceiveClosed, ReceiveOrder,
                    NormalTaskEnds, chain_vars, order_vars
<1>5. ASSUME NEW t \in Tasks, DrainQueue(t) \/ SendOrdersPanics(t)
      PROVE  SendersKept' /\ AnsweredIsLanded'
  BY <1>2, <1>5 DEF DrainQueue, SendOrdersPanics, chain_vars, order_vars
<1>6. ASSUME NEW t \in Tasks, SendOrders(t)
      PROVE  SendersKept' /\ AnsweredIsLanded'
  <2> DEFINE new == BundlesOf(tasks[t].batch, tasks[t].block)
  <2>1. bundles' = bundles \cup new /\ UNCHANGED << height, answered >>
    BY <1>6 DEF SendOrders, chain_vars, order_vars
  <2>2. ASSUME NEW b \in new
        PROVE b.owed = b.orders /\ b.stage = "posting" /\ ~b.landed
    BY BuiltBundle
  <2> HIDE DEF new
  <2> QED BY <2>1, <2>2 DEF SendersKept, AnsweredIsLanded, Landed
<1>7. ASSUME NEW b \in bundles, NEW c, Replace(b, c), UNCHANGED height,
             c.orders = b.orders, c.block = b.block, c.landed = b.landed,
             answered \subseteq answered',
             c.stage \in {"posting", "posted"} => c.owed = c.orders,
             c.stage = "answering" => c.landed /\ c.orders \ c.owed \subseteq answered',
             c.owed \subseteq c.orders,
             answered' \ answered \subseteq IF b.landed THEN b.orders ELSE {}
      PROVE  SendersKept' /\ AnsweredIsLanded'
  <2>1. bundles' = (bundles \ {b}) \cup {c}
    BY <1>7 DEF Replace
  <2>2. SendersKept'
    BY <1>7, <2>1 DEF SendersKept
  <2>3. ASSUME NEW o \in answered' PROVE \E d \in bundles' : d.landed /\ o \in d.orders
    <3>1. \E a \in bundles : a.landed /\ o \in a.orders
      BY <1>7 DEF AnsweredIsLanded, Landed
    <3> QED BY <1>7, <2>1, <3>1
  <2>4. AnsweredIsLanded'
    BY <2>3 DEF AnsweredIsLanded, Landed
  <2> QED BY <2>2, <2>4
<1>8. ASSUME NEW b \in bundles, PostBundle(b) PROVE SendersKept' /\ AnsweredIsLanded'
  <2>1. UNCHANGED << height, answered >>
    BY <1>8 DEF PostBundle, chain_vars, order_vars
  <2>2. b \in BundleStates /\ b.owed = b.orders
    BY <1>0, <1>8 DEF PostBundle, SendersKept
  <2>3. CASE Replace(b, [b EXCEPT !.stage = "posted", !.relayed = TRUE])
    <3> DEFINE c == [b EXCEPT !.stage = "posted", !.relayed = TRUE]
    <3>1. /\ c.orders = b.orders /\ c.block = b.block /\ c.landed = b.landed
          /\ c.stage = "posted" /\ c.owed = b.owed
      BY <2>2 DEF BundleStates
    <3> HIDE DEF c
    <3> QED BY <1>7, <2>1, <2>2, <2>3, <3>1 DEF c
  <2>4. ASSUME NEW r \in BOOLEAN, Replace(b, [Closed(b) EXCEPT !.relayed = r])
        PROVE  SendersKept' /\ AnsweredIsLanded'
    <3> DEFINE c == [Closed(b) EXCEPT !.relayed = r]
    <3>1. /\ c.orders = b.orders /\ c.block = b.block /\ c.landed = b.landed
          /\ c.stage = "closed" /\ c.owed = {}
      BY <2>2 DEF BundleStates, Closed
    <3> HIDE DEF c
    <3> QED BY <1>7, <2>1, <2>2, <2>4, <3>1 DEF c
  <2> QED BY <1>8, <2>3, <2>4 DEF PostBundle
<1>9. ASSUME NEW b \in bundles, ResolveBundle(b) PROVE SendersKept' /\ AnsweredIsLanded'
  <2>1. UNCHANGED << height, answered >>
    BY <1>9 DEF ResolveBundle, chain_vars, order_vars
  <2>2. b \in BundleStates /\ b.owed = b.orders
    BY <1>0, <1>9 DEF ResolveBundle, SendersKept
  <2>3. CASE b.landed /\ Replace(b, [b EXCEPT !.stage = "answering"])
    <3> DEFINE c == [b EXCEPT !.stage = "answering"]
    <3>1. /\ c.orders = b.orders /\ c.block = b.block /\ c.landed = b.landed
          /\ c.stage = "answering" /\ c.owed = b.owed
      BY <2>2 DEF BundleStates
    <3> HIDE DEF c
    <3> QED BY <1>7, <2>1, <2>2, <2>3, <3>1 DEF c
  <2>4. CASE Replace(b, Closed(b))
    <3>1. /\ Closed(b).orders = b.orders /\ Closed(b).block = b.block
          /\ Closed(b).landed = b.landed
          /\ Closed(b).stage = "closed" /\ Closed(b).owed = {}
      BY <2>2 DEF BundleStates, Closed
    <3> QED BY <1>7, <2>1, <2>2, <2>4, <3>1
  <2> QED BY <1>9, <2>3, <2>4 DEF ResolveBundle
<1>10. ASSUME NEW b \in bundles, AnswerPanics(b) PROVE SendersKept' /\ AnsweredIsLanded'
  <2>1. UNCHANGED << height, answered >> /\ Replace(b, Closed(b))
    BY <1>10 DEF AnswerPanics, chain_vars, order_vars
  <2>2. /\ Closed(b).orders = b.orders /\ Closed(b).block = b.block
        /\ Closed(b).landed = b.landed
        /\ Closed(b).stage = "closed" /\ Closed(b).owed = {}
    BY <1>0 DEF BundleStates, Closed
  <2> QED BY <1>7, <2>1, <2>2
<1>11. ASSUME NEW b \in bundles, NEW o \in Orders, AnswerOrder(b, o)
       PROVE  SendersKept' /\ AnsweredIsLanded'
  <2>1. /\ UNCHANGED height
        /\ answered' = answered \cup {o}
        /\ b.stage = "answering" /\ o \in b.owed
    BY <1>11 DEF AnswerOrder, chain_vars
  <2>2. b \in BundleStates /\ b.landed /\ b.owed \subseteq b.orders
          /\ b.orders \ b.owed \subseteq answered
    BY <1>0, <2>1 DEF SendersKept
  <2>3. CASE Replace(b, Closed(b))
    <3>1. /\ Closed(b).orders = b.orders /\ Closed(b).block = b.block
          /\ Closed(b).landed = b.landed
          /\ Closed(b).stage = "closed" /\ Closed(b).owed = {}
      BY <2>2 DEF BundleStates, Closed
    <3> QED BY <1>7, <2>1, <2>2, <2>3, <3>1
  <2>4. CASE Replace(b, [b EXCEPT !.owed = @ \ {o}])
    <3> DEFINE c == [b EXCEPT !.owed = @ \ {o}]
    <3>1. /\ c.orders = b.orders /\ c.block = b.block /\ c.landed = b.landed
          /\ c.stage = "answering" /\ c.owed = b.owed \ {o}
      BY <2>1, <2>2 DEF BundleStates
    <3> HIDE DEF c
    <3> QED BY <1>7, <2>1, <2>2, <2>4, <3>1 DEF c
  <2> QED BY <1>11, <2>3, <2>4 DEF AnswerOrder
<1> QED
  BY <1>1, <1>3, <1>4, <1>5, <1>6, <1>8, <1>9, <1>10, <1>11
  DEF Next, TraderNext, RunNext, TaskNext

(* An answer is sent for an order that one bundle only owes.               *)
LEMMA OwedStep ==
  TypeOK /\ Exclusive /\ SendersKept /\ AnsweredIsLanded /\ OwedUnanswered
    /\ [Next]_vars => OwedUnanswered'
<1> SUFFICES ASSUME TypeOK, Exclusive, SendersKept, AnsweredIsLanded,
                    OwedUnanswered, [Next]_vars
             PROVE  OwedUnanswered'
  OBVIOUS
<1>0. bundles \subseteq BundleStates
  BY DEF TypeOK
<1>1. ASSUME UNCHANGED answered,
             \A c \in bundles' : \E b \in bundles : c.owed \subseteq b.owed
      PROVE  OwedUnanswered'
  BY <1>1 DEF OwedUnanswered
<1>2. ASSUME UNCHANGED << bundles, answered >> PROVE OwedUnanswered'
  BY <1>2 DEF OwedUnanswered
<1>3. \/ PublishBlock \/ TenSecondsPass \/ SeeBlock \/ HandleBlock
      \/ (\E o \in Orders : \/ Submit(o) \/ ReceiveAnswer(o) \/ ReceiveClosed(o)
                          \/ ReceiveOrder(o) \/ NormalTaskEnds(o))
      \/ (\E t \in Tasks : DrainQueue(t) \/ SendOrdersPanics(t))
      \/ UNCHANGED vars
      => OwedUnanswered'
  BY <1>2 DEF PublishBlock, TenSecondsPass, SeeBlock, HandleBlock, Submit,
              ReceiveAnswer, ReceiveClosed, ReceiveOrder, NormalTaskEnds,
              DrainQueue, SendOrdersPanics, order_vars, vars
<1>4. CASE MineBlock
  <2>1. PICK won \in [bundles -> BOOLEAN] :
          bundles' = { [b EXCEPT !.landed = won[b]] : b \in bundles }
    BY <1>4, MinedBundles
  <2>2. \A b \in bundles : [b EXCEPT !.landed = won[b]].owed = b.owed
    BY <1>0, LandedFields
  <2>3. \A c \in bundles' : \E b \in bundles : c.owed \subseteq b.owed
    BY <2>1, <2>2
  <2> QED BY <1>1, <1>4, <2>3 DEF MineBlock, order_vars
<1>5. ASSUME NEW t \in Tasks, SendOrders(t) PROVE OwedUnanswered'
  <2> DEFINE new == BundlesOf(tasks[t].batch, tasks[t].block)
  <2>1. bundles' = bundles \cup new /\ UNCHANGED answered
    BY <1>5 DEF SendOrders, order_vars
  <2>2. \A b \in new : b.owed \subseteq tasks[t].batch
    BY BuiltBundle
  <2> HIDE DEF new
  <2>3. ASSUME NEW o \in tasks[t].batch PROVE o \notin answered
    <3>1. o \in Orders
      BY DEF TypeOK, TaskStates
    <3>2. \A b \in bundles : o \notin b.orders
      BY <3>1 DEF Exclusive
    <3> QED BY <3>2 DEF AnsweredIsLanded, Landed
  <2> QED BY <2>1, <2>2, <2>3 DEF OwedUnanswered
<1>6. ASSUME NEW b \in bundles, PostBundle(b) \/ ResolveBundle(b) \/ AnswerPanics(b)
      PROVE  OwedUnanswered'
  <2>1. UNCHANGED answered
    BY <1>6 DEF PostBundle, ResolveBundle, AnswerPanics, order_vars
  <2>2. \E c : c.owed \subseteq b.owed /\ bundles' = (bundles \ {b}) \cup {c}
    <3> USE <1>0 DEF BundleStates, Replace, Closed
    <3>1. CASE PostBundle(b)
      BY <3>1 DEF PostBundle
    <3>2. CASE ResolveBundle(b)
      BY <3>2 DEF ResolveBundle
    <3>3. CASE AnswerPanics(b)
      BY <3>3 DEF AnswerPanics
    <3> QED BY <1>6, <3>1, <3>2, <3>3
  <2> QED BY <1>1, <2>1, <2>2
<1>7. ASSUME NEW b \in bundles, NEW o \in Orders, AnswerOrder(b, o)
      PROVE  OwedUnanswered'
  <2>1. PICK c : /\ c.owed \subseteq b.owed \ {o}
                 /\ bundles' = (bundles \ {b}) \cup {c}
    <3>1. b \in BundleStates
      BY <1>0
    <3>2. /\ Closed(b).owed = {}
          /\ [b EXCEPT !.owed = @ \ {o}].owed = b.owed \ {o}
      BY <3>1 DEF Closed, BundleStates
    <3>3. CASE Replace(b, Closed(b))
      BY <3>2, <3>3 DEF Replace
    <3>4. CASE Replace(b, [b EXCEPT !.owed = @ \ {o}])
      BY <3>2, <3>4 DEF Replace
    <3> QED BY <1>7, <3>3, <3>4 DEF AnswerOrder
  <2>2. answered' = answered \cup {o} /\ o \in b.orders
    BY <1>7 DEF AnswerOrder, SendersKept
  <2>3. ASSUME NEW d \in bundles \ {b} PROVE o \notin d.owed
    BY <2>2 DEF Exclusive, SendersKept
  <2> QED BY <2>1, <2>2, <2>3 DEF OwedUnanswered
<1> QED
  BY <1>3, <1>4, <1>5, <1>6, <1>7 DEF Next, TraderNext, RunNext, TaskNext

(* An order whose trader saw its channel close does not come back.         *)
LEMMA GoneStep ==
  TypeOK /\ SendersKept /\ SendersKept' /\ GoneIsGone /\ [Next]_vars
    => GoneIsGone'
<1> DEFINE Gone(o) ==
      /\ o \notin order_rx /\ o \notin bundle_q /\ o \notin normal_tasks
      /\ \A t \in Tasks : o \notin tasks[t].batch
      /\ \A b \in bundles : o \notin b.owed
      /\ \A b \in bundles : o \in b.orders => b.stage = "closed"
<1>0. GoneIsGone <=> \A o \in Orders : outcome[o] = "unfilled" => Gone(o)
  BY DEF GoneIsGone, Held, Batched, Owed
<1>00. GoneIsGone' <=> \A o \in Orders : outcome'[o] = "unfilled" => Gone(o)'
  BY DEF GoneIsGone, Held, Batched, Owed
<1> SUFFICES ASSUME TypeOK, SendersKept, SendersKept', [Next]_vars,
                    \A o \in Orders : outcome[o] = "unfilled" => Gone(o),
                    NEW o \in Orders, outcome'[o] = "unfilled"
             PROVE  Gone(o)'
  BY <1>0, <1>00
<1>1. ASSUME outcome'[o] = outcome[o],
             order_rx' \subseteq order_rx, bundle_q' \subseteq bundle_q,
             normal_tasks' \subseteq normal_tasks,
             \A t \in Tasks : tasks'[t].batch \subseteq tasks[t].batch,
             \A c \in bundles' : \E b \in bundles :
               /\ c.orders = b.orders /\ c.owed \subseteq b.owed
               /\ b.stage = "closed" => c.stage = "closed"
      PROVE  Gone(o)'
  BY <1>1
<1>2. \/ PublishBlock \/ TenSecondsPass \/ SeeBlock \/ UNCHANGED vars
      \/ (\E p \in Orders : NormalTaskEnds(p))
      => Gone(o)'
  BY <1>1 DEF PublishBlock, TenSecondsPass, SeeBlock, NormalTaskEnds, chain_vars,
              order_vars, vars
<1>3. CASE MineBlock
  <2>1. PICK won \in [bundles -> BOOLEAN] :
          bundles' = { [b EXCEPT !.landed = won[b]] : b \in bundles }
    BY <1>3, MinedBundles
  <2>2. \A b \in bundles : /\ [b EXCEPT !.landed = won[b]].orders = b.orders
                            /\ [b EXCEPT !.landed = won[b]].owed = b.owed
                            /\ [b EXCEPT !.landed = won[b]].stage = b.stage
    BY LandedFields DEF TypeOK
  <2>3. ASSUME NEW c \in bundles'
        PROVE  \E b \in bundles :
                 /\ c.orders = b.orders /\ c.owed \subseteq b.owed
                 /\ b.stage = "closed" => c.stage = "closed"
    <3>1. PICK b \in bundles : c = [b EXCEPT !.landed = won[b]]
      BY <2>1
    <3> QED BY <2>2, <3>1
  <2> QED BY <1>1, <1>3, <2>3 DEF MineBlock, order_vars
<1>4. ASSUME NEW p \in Orders, Submit(p) PROVE Gone(o)'
  <2>1. outcome'[o] = outcome[o] /\ o # p
    BY <1>4 DEF Submit, TypeOK
  <2> QED BY <1>4, <2>1 DEF Submit
<1>5. ASSUME NEW p \in Orders, ReceiveAnswer(p) PROVE Gone(o)'
  <2>1. outcome'[o] = outcome[o]
    BY <1>5 DEF ReceiveAnswer, TypeOK
  <2> QED BY <1>1, <1>5, <2>1 DEF ReceiveAnswer
<1>6. ASSUME NEW p \in Orders, ReceiveClosed(p) PROVE Gone(o)'
  <2>1. CASE p # o
    <3>1. outcome'[o] = outcome[o]
      BY <1>6, <2>1 DEF ReceiveClosed, TypeOK
    <3> QED BY <1>1, <1>6, <3>1 DEF ReceiveClosed
  <2>2. CASE p = o
    <3>1. o \notin Held /\ o \notin answered
      BY <1>6, <2>2 DEF ReceiveClosed
    <3>2. /\ o \notin order_rx /\ o \notin bundle_q /\ o \notin normal_tasks
          /\ \A t \in Tasks : o \notin tasks[t].batch
          /\ \A b \in bundles : o \notin b.owed
      BY <3>1 DEF Held, Batched, Owed
    <3>3. ASSUME NEW b \in bundles, o \in b.orders PROVE b.stage = "closed"
      <4>1. b.stage \in {"posting", "posted", "answering", "closed"}
        BY DEF TypeOK, BundleStates
      <4> QED BY <3>1, <3>2, <3>3, <4>1 DEF SendersKept
    <3> QED BY <1>6, <3>2, <3>3 DEF ReceiveClosed
  <2> QED BY <2>1, <2>2
<1>7. CASE HandleBlock
  <2>1. \A t \in Tasks : tasks'[t].batch \subseteq tasks[t].batch
    BY <1>7 DEF HandleBlock, TypeOK
  <2> QED BY <1>1, <1>7, <2>1 DEF HandleBlock, order_vars
<1>8. ASSUME NEW p \in Orders, ReceiveOrder(p) PROVE Gone(o)'
  <2>1. /\ UNCHANGED << outcome, bundles >>
        /\ p \in order_rx /\ order_rx' \subseteq order_rx
        /\ normal_tasks' \subseteq normal_tasks \cup {p}
        /\ bundle_q' \subseteq bundle_q \cup {p}
    BY <1>8 DEF ReceiveOrder, ProcessBundle, ProcessNormal
  <2>2. \A t \in Tasks : tasks'[t].batch \subseteq tasks[t].batch \cup {p}
    BY <1>8 DEF ReceiveOrder, ProcessBundle, TypeOK
  <2>3. o # p
    BY <2>1
  <2> QED BY <2>1, <2>2, <2>3
<1>9. ASSUME NEW t \in Tasks, DrainQueue(t) PROVE Gone(o)'
  <2>1. /\ UNCHANGED << outcome, bundles, order_rx, normal_tasks >>
        /\ bundle_q' \subseteq bundle_q
    BY <1>9 DEF DrainQueue, order_vars
  <2>2. \A s \in Tasks : tasks'[s].batch \subseteq tasks[s].batch \cup bundle_q
    BY <1>9 DEF DrainQueue, TypeOK, TaskStates
  <2> QED BY <2>1, <2>2
<1>10. ASSUME NEW t \in Tasks, SendOrders(t) \/ SendOrdersPanics(t) PROVE Gone(o)'
  <2> DEFINE new == BundlesOf(tasks[t].batch, tasks[t].block)
  <2>1. /\ UNCHANGED << outcome, bundle_q, order_rx, normal_tasks >>
        /\ bundles' \subseteq bundles \cup new
    BY <1>10 DEF SendOrders, SendOrdersPanics, order_vars
  <2>2. \A s \in Tasks : tasks'[s].batch \subseteq tasks[s].batch
    BY <1>10 DEF SendOrders, SendOrdersPanics, FreeTask, TypeOK
  <2>3. \A b \in new : b.owed = b.orders /\ b.orders \subseteq tasks[t].batch
    BY BuiltBundle
  <2> HIDE DEF new
  <2> QED BY <2>1, <2>2, <2>3
<1>11. ASSUME NEW b \in bundles, BundleStep(b) PROVE Gone(o)'
  <2>1. PICK c \in BundleStates : Rewrites(b, c)
    BY <1>11, BundleSteps
  <2>2. /\ bundles' = (bundles \ {b}) \cup {c}
        /\ c.orders = b.orders
        /\ UNCHANGED << order_rx, bundle_q, tasks, outcome >>
    BY <2>1 DEF Rewrites, Replace
  <2>3. UNCHANGED normal_tasks
    BY <1>11 DEF BundleStep, PostBundle, ResolveBundle, AnswerPanics, AnswerOrder
  <2>4. b.stage # "closed"
    BY <1>11 DEF BundleStep, PostBundle, ResolveBundle, AnswerPanics, AnswerOrder
  <2>5. o \notin c.owed /\ o \notin c.orders
    <3>1. o \notin b.orders
      BY <2>2, <2>4
    <3>2. c.owed \subseteq c.orders
      BY <2>2 DEF SendersKept
    <3> QED BY <2>2, <3>1, <3>2
  <2> QED BY <2>2, <2>3, <2>5
<1> QED
  BY <1>2, <1>3, <1>4, <1>5, <1>6, <1>7, <1>8, <1>9, <1>10, <1>11
  DEF Next, TraderNext, RunNext, TaskNext, BundleStep

-----------------------------------------------------------------------------

(* The inductive invariant of the executor: every safety property follows  *)
(* from it.                                                                *)
THEOREM ExecutorInvariant == Spec => []IInv
<1>1. Init => IInv
  <2> SUFFICES ASSUME Init PROVE IInv
    OBVIOUS
  <2>1. TypeOK
    BY InitTypes
  <2>2. /\ order_rx = {} /\ bundle_q = {} /\ bundles = {} /\ answered = {}
        /\ \A t \in Tasks : tasks[t].batch = {}
        /\ \A o \in Orders : outcome[o] = "idle"
    BY DEF Init, FreeTask
  <2>3. Exclusive
    BY <2>2 DEF Exclusive
  <2>4. BatchIsDue
    BY <2>2 DEF BatchIsDue
  <2>5. /\ NotBeforeTarget /\ SendersKept /\ AnsweredIsLanded
        /\ OwedUnanswered /\ GoneIsGone
    BY <2>2 DEF NotBeforeTarget, SendersKept, AnsweredIsLanded, OwedUnanswered,
                GoneIsGone
  <2> QED BY <2>1, <2>3, <2>4, <2>5 DEF IInv
<1>2. IInv /\ [Next]_vars => IInv'
  BY StepTypes, ExclusiveStep, DueStep, SendersStep, OwedStep, GoneStep DEF IInv
<1> QED BY <1>1, <1>2, PTL DEF Spec

(* No order is ever in two places, so none is bundled twice, however many  *)
(* drain tasks are asleep and however the executor interleaves with them.  *)
THEOREM NoOrderBundledTwice == Spec => []NeverBundledTwice
<1>1. IInv => NeverBundledTwice
  BY DEF IInv, Exclusive, NeverBundledTwice, Batched, Bundled, TypeOK, TaskStates,
         BundleStates
<1> QED BY <1>1, ExecutorInvariant, PTL

(* No bundle is for a block before the target of one of its orders.        *)
THEOREM NoBundleBeforeTarget == Spec => []NotBeforeTarget
<1>1. IInv => NotBeforeTarget
  BY DEF IInv
<1> QED BY <1>1, ExecutorInvariant, PTL

(* Whatever a trader is told to have happened has happened on the chain.   *)
THEOREM AnswersAreTrue == Spec => []AnsweredIsLanded
<1>1. IInv => AnsweredIsLanded
  BY DEF IInv
<1> QED BY <1>1, ExecutorInvariant, PTL

(* An order given up by its trader cannot be posted any more.              *)
THEOREM GivenUpIsGone == Spec => []GoneIsGone
<1>1. IInv => GoneIsGone
  BY DEF IInv
<1> QED BY <1>1, ExecutorInvariant, PTL

-----------------------------------------------------------------------------
(* Refinement of OrderService.  The invariant rules out an order in two    *)
(* places, so an order has one of the service's phases; and it says which  *)
(* orders a step that drops senders may concern.                           *)

Where(o) ==
  IF o \in Landed THEN "landed"
  ELSE IF o \in Bundled THEN "bundled"
  ELSE IF o \in Pending THEN "held"
  ELSE IF outcome[o] = "idle" THEN "idle" ELSE "discarded"

(* Nothing is on its way to a bundle, or owed an answer, before it is      *)
(* submitted; nothing on its way is bundled; a landed order was bundled.   *)
LEMMA PlacesApart ==
  ASSUME TypeOK, Exclusive, SendersKept
  PROVE  /\ \A o \in Orders : ~Doubled(o)
         /\ \A o \in Pending \cup Bundled : o \in Orders /\ outcome[o] # "idle"
         /\ \A o \in Pending : o \notin Bundled
         /\ Landed \subseteq Bundled /\ Owed \subseteq Bundled
<1>1. \A o \in Pending \cup Bundled : o \in Orders
  BY DEF TypeOK, TaskStates, BundleStates, Pending, Batched, Bundled
<1>2. \A o \in Orders : o \in Pending => outcome[o] # "idle"
  BY DEF Exclusive, Pending, Batched
<1>3. \A o \in Orders : o \in Bundled => outcome[o] # "idle"
  BY DEF Exclusive, Bundled
<1>4. \A o \in Orders : o \in Bundled => o \notin Pending
  BY DEF Exclusive, Bundled, Pending, Batched
<1>5. Landed \subseteq Bundled /\ Owed \subseteq Bundled
  BY DEF SendersKept, Landed, Owed, Bundled
<1>6. ASSUME NEW o \in Orders PROVE ~Doubled(o)
  <2>1. \A b \in bundles : o \in b.orders => o \in Bundled
    BY DEF Bundled
  <2> QED BY <1>4, <2>1 DEF Doubled, Exclusive
<1> QED BY <1>1, <1>2, <1>3, <1>4, <1>5, <1>6

(* In the beginning nothing is bundled.                                    *)
LEMMA RefinedInit == Init => Service!Init
<1> SUFFICES ASSUME Init PROVE Service!Init
  OBVIOUS
<1>1. /\ bundles = {} /\ Batched = {} /\ Pending = {} /\ Owed = {}
      /\ \A o \in Orders : outcome[o] = "idle"
  BY DEF Init, FreeTask, Batched, Pending, Owed
<1>2. Held = {}
  BY <1>1 DEF Init, Held
<1>3. \A o \in Orders : Phase(o) = "idle"
  BY <1>1 DEF Phase, Doubled, Landed, Bundled
<1> QED BY <1>2, <1>3 DEF Init, Service!Init

(* A new block changes neither what is bundled nor what is owed.           *)
LEMMA MinedSets ==
  ASSUME TypeOK, MineBlock
  PROVE  /\ Bundled' = Bundled /\ Owed' = Owed
         /\ Landed \subseteq Landed' /\ Landed' \subseteq Bundled
<1>1. PICK won \in [bundles -> BOOLEAN] :
        /\ \A b \in bundles : b.landed => won[b]
        /\ bundles' = { [b EXCEPT !.landed = won[b]] : b \in bundles }
  BY MinedBundles
<1> DEFINE W(b) == [b EXCEPT !.landed = won[b]]
<1>2. ASSUME NEW b \in bundles
      PROVE  /\ W(b) \in bundles'
             /\ W(b).orders = b.orders /\ W(b).owed = b.owed
             /\ W(b).landed <=> won[b]
  <2>1. b \in BundleStates /\ won[b] \in BOOLEAN
    BY <1>1 DEF TypeOK
  <2>2. W(b) \in bundles'
    BY <1>1
  <2> QED BY <2>1, <2>2, LandedFields
<1>3. ASSUME NEW c \in bundles' PROVE \E b \in bundles : c = W(b)
  BY <1>1
<1> HIDE DEF W
<1>4. ASSUME NEW c \in bundles' PROVE c.orders \subseteq Bundled /\ c.owed \subseteq Owed
  <2>1. PICK b \in bundles : c = W(b)
    BY <1>3
  <2>2. c.orders = b.orders /\ c.owed = b.owed
    BY <1>2, <2>1
  <2> QED BY <2>2 DEF Bundled, Owed
<1>5. ASSUME NEW b \in bundles
      PROVE  /\ b.orders \subseteq Bundled' /\ b.owed \subseteq Owed'
             /\ b.landed => b.orders \subseteq Landed'
  <2>1. W(b) \in bundles' /\ W(b).orders = b.orders /\ W(b).owed = b.owed
    BY <1>2
  <2>2. b.landed => W(b).landed
    BY <1>1, <1>2
  <2> QED BY <2>1, <2>2 DEF Bundled, Owed, Landed
<1>6. Bundled' \subseteq Bundled /\ Owed' \subseteq Owed
  BY <1>4 DEF Bundled, Owed
<1>7. Bundled \subseteq Bundled' /\ Owed \subseteq Owed' /\ Landed \subseteq Landed'
  BY <1>5 DEF Bundled, Owed, Landed
<1>8. Landed' \subseteq Bundled'
  BY DEF Landed, Bundled
<1> QED BY <1>6, <1>7, <1>8

(* Every step is a step of the service or changes nothing a trader sees.   *)
LEMMA RefinedStep == IInv /\ IInv' /\ [Next]_vars => [Service!Next]_(Service!vars)
<1> SUFFICES ASSUME IInv, IInv', [Next]_vars PROVE [Service!Next]_(Service!vars)
  OBVIOUS
<1> DEFINE phase == [o \in Orders |-> Phase(o)]
<1>0. TypeOK /\ Exclusive /\ BatchIsDue /\ SendersKept /\ AnsweredIsLanded /\ OwedUnanswered
  BY DEF IInv
<1>a. /\ \A o \in Pending \cup Bundled : o \in Orders /\ outcome[o] # "idle"
      /\ \A o \in Pending : o \notin Bundled
      /\ Landed \subseteq Bundled /\ Owed \subseteq Bundled
  BY <1>0, PlacesApart
<1>b. phase = [o \in Orders |-> Where(o)]
  BY <1>0, PlacesApart DEF Phase, Where
<1>c. phase' = [o \in Orders |-> Where(o)']
  <2>1. ASSUME NEW o \in Orders PROVE ~Doubled(o)'
    <3>1. Exclusive'
      BY DEF IInv
    <3>2. o \in Bundled' => o \notin Pending'
      BY <3>1 DEF Exclusive, Bundled, Pending, Batched
    <3>3. \A b \in bundles' : o \in b.orders => o \in Bundled'
      BY DEF Bundled
    <3> QED BY <3>1, <3>2, <3>3 DEF Doubled, Exclusive
  <2> QED BY <2>1 DEF Phase, Where
<1>d. Held = Pending \cup normal_tasks \cup Owed
  BY DEF Held, Pending
<1>e. Held' = Pending' \cup normal_tasks' \cup Owed'
  BY DEF Held, Pending
<1>f. /\ UNCHANGED bundles => Bundled' = Bundled /\ Landed' = Landed /\ Owed' = Owed
      /\ UNCHANGED tasks => Batched' = Batched
      /\ UNCHANGED << order_rx, bundle_q, tasks >> => Pending' = Pending
  BY DEF Bundled, Landed, Owed, Pending, Batched
<1> HIDE DEF phase
<1>1. ASSUME UNCHANGED << bundles, outcome, answered, normal_tasks >>, Pending' = Pending
      PROVE  UNCHANGED << phase, Held, answered, outcome >>
  BY <1>1, <1>b, <1>c, <1>d, <1>e, <1>f DEF Where
<1>2. \/ PublishBlock \/ TenSecondsPass \/ SeeBlock \/ UNCHANGED vars
      => UNCHANGED << phase, Held, answered, outcome >>
  BY <1>1, <1>f DEF PublishBlock, TenSecondsPass, SeeBlock, order_vars, vars
<1>3. ASSUME HandleBlock PROVE UNCHANGED << phase, Held, answered, outcome >>
  <2>1. \A t \in Tasks : tasks'[t].batch = tasks[t].batch
    <3>1. CASE UNCHANGED tasks
      BY <3>1
    <3>2. ASSUME NEW s \in Tasks, tasks[s].pc = "free",
                 tasks' = [tasks EXCEPT ![s] = [pc |-> "asleep", block |-> NextBlock,
                                                batch |-> {}]]
          PROVE  \A t \in Tasks : tasks'[t].batch = tasks[t].batch
      <4>1. tasks[s].batch = {}
        BY <1>0, <3>2 DEF BatchIsDue
      <4> QED BY <1>0, <3>2, <4>1 DEF TypeOK
    <3> QED BY <1>3, <3>1, <3>2 DEF HandleBlock
  <2>2. Pending' = Pending
    BY <1>3, <2>1 DEF HandleBlock, Pending, Batched
  <2> QED BY <1>1, <1>3, <2>2 DEF HandleBlock, order_vars
<1>4. ASSUME NEW t \in Tasks, DrainQueue(t)
      PROVE  UNCHANGED << phase, Held, answered, outcome >>
  <2>1. /\ tasks[t].batch = {}
        /\ \E due \in SUBSET bundle_q :
             /\ bundle_q' = bundle_q \ due
             /\ tasks'[t].batch = due
             /\ \A s \in Tasks \ {t} : tasks'[s] = tasks[s]
    <3> DEFINE due == { o \in bundle_q : Due(o, tasks[t].block) }
    <3>1. tasks[t].batch = {}
      BY <1>0, <1>4 DEF DrainQueue, BatchIsDue
    <3>2. /\ tasks' = [tasks EXCEPT ![t].pc = "sending", ![t].batch = due]
          /\ bundle_q' = bundle_q \ due
          /\ due \in SUBSET bundle_q
      BY <1>4 DEF DrainQueue
    <3> HIDE DEF due
    <3>3. tasks'[t].batch = due /\ \A s \in Tasks \ {t} : tasks'[s] = tasks[s]
      BY <1>0, <3>2 DEF TypeOK, TaskStates
    <3> QED BY <3>1, <3>2, <3>3
  <2>2. bundle_q' \cup Batched' = bundle_q \cup Batched
    BY <2>1 DEF Batched
  <2>3. Pending' = Pending
    BY <1>4, <2>2 DEF DrainQueue, Pending
  <2> QED BY <1>1, <1>4, <2>3 DEF DrainQueue, order_vars
<1>5. CASE MineBlock
  <2> DEFINE batch == { o \in Orders : o \in Landed' /\ o \notin Landed }
  <2>4. Bundled' = Bundled /\ Owed' = Owed
    BY <1>0, <1>5, MinedSets
  <2>5. Landed \subseteq Landed' /\ Landed' \subseteq Bundled
    BY <1>0, <1>5, MinedSets
  <2>6. Pending' = Pending /\ UNCHANGED << outcome, answered, normal_tasks >>
    BY <1>5, <1>f DEF MineBlock, order_vars
  <2>7. \A o \in batch : phase[o] = "bundled"
    BY <1>b, <2>5 DEF Where
  <2>8. \A o \in Orders : Where(o)' = IF o \in batch THEN "landed" ELSE Where(o)
    BY <2>4, <2>5, <2>6 DEF Where
  <2>9. phase' = [o \in Orders |-> IF o \in batch THEN "landed" ELSE phase[o]]
    BY <1>b, <1>c, <2>8
  <2>10. Held' = Held
    BY <1>d, <1>e, <2>4, <2>6
  <2>11. Service!Land(batch) /\ batch \in SUBSET Orders
    BY <2>6, <2>7, <2>9, <2>10 DEF Service!Land, Service!Move, phase
  <2> QED BY <2>11 DEF Service!Next
<1>6. ASSUME NEW o \in Orders, Submit(o) PROVE Service!Submit(o)
  <2>1. /\ outcome[o] = "idle"
        /\ outcome' = [outcome EXCEPT ![o] = "waiting"]
        /\ UNCHANGED << bundles, answered, normal_tasks >>
        /\ Pending' = Pending \cup {o}
    BY <1>6, <1>f DEF Submit, Pending
  <2>2. o \notin Pending \cup Bundled
    BY <1>a, <2>1
  <2>3. /\ outcome'[o] = "waiting"
        /\ \A p \in Orders \ {o} : outcome'[p] = outcome[p]
    BY <1>0, <2>1 DEF TypeOK
  <2>4. Where(o) = "idle"
    BY <1>a, <2>1, <2>2 DEF Where
  <2>5. \A p \in Orders : Where(p)' = IF p \in {o} THEN "held" ELSE Where(p)
    BY <1>a, <1>f, <2>1, <2>2, <2>3 DEF Where
  <2>6. \A p \in {o} : phase[p] = "idle"
    BY <1>b, <2>4
  <2>7. phase' = [p \in Orders |-> IF p \in {o} THEN "held" ELSE phase[p]]
    BY <1>b, <1>c, <2>5
  <2>8. Held' = Held \cup {o}
    BY <1>d, <1>e, <1>f, <2>1
  <2> QED BY <2>1, <2>6, <2>7, <2>8 DEF Service!Submit, Service!Move, phase
<1>7. ASSUME NEW o \in Orders, ReceiveAnswer(o) \/ ReceiveClosed(o)
      PROVE  Service!Fill(o) \/ Service!Drop(o)
  <2>1. /\ outcome[o] = "waiting"
        /\ outcome'[o] # "idle" /\ \A p \in Orders \ {o} : outcome'[p] = outcome[p]
        /\ UNCHANGED << bundles, answered, normal_tasks >>
        /\ Pending' = Pending
    BY <1>0, <1>7, <1>f DEF ReceiveAnswer, ReceiveClosed, TypeOK
  <2>2. \A p \in Orders : Where(p)' = Where(p)
    BY <1>f, <2>1 DEF Where
  <2>3. phase' = phase
    BY <1>b, <1>c, <2>2
  <2>4. Held' = Held
    BY <1>d, <1>e, <1>f, <2>1
  <2>5. CASE ReceiveAnswer(o)
    BY <2>1, <2>3, <2>4, <2>5 DEF ReceiveAnswer, Service!Fill, phase
  <2>6. CASE ReceiveClosed(o)
    BY <2>1, <2>3, <2>4, <2>6 DEF ReceiveClosed, Service!Drop, phase
  <2> QED BY <1>7, <2>5, <2>6
(* Orders leave Pending and are not bundled; some senders may go.          *)
<1>8. ASSUME NEW batch \in SUBSET Pending, Pending' = Pending \ batch,
             UNCHANGED << bundles, answered, outcome >>,
             Held \ batch \subseteq Held', Held' \subseteq Held
      PROVE  \E closed \in SUBSET Orders : Service!Discard(batch, closed)
  <2> DEFINE closed == Held \ Held'
  <2>1. batch \in SUBSET Orders /\ closed \subseteq batch
    BY <1>a, <1>8
  <2>2. \A o \in batch : Where(o) = "held"
    BY <1>a, <1>8 DEF Where
  <2>3. \A o \in Orders : Where(o)' = IF o \in batch THEN "discarded" ELSE Where(o)
    BY <1>a, <1>f, <1>8 DEF Where
  <2>4. \A o \in batch : phase[o] = "held"
    BY <1>b, <2>1, <2>2
  <2>5. phase' = [o \in Orders |-> IF o \in batch THEN "discarded" ELSE phase[o]]
    BY <1>b, <1>c, <2>3
  <2>6. Held' = Held \ closed
    BY <1>8
  <2> HIDE DEF closed
  <2>7. Service!Discard(batch, closed)
    BY <1>8, <2>1, <2>4, <2>5, <2>6 DEF Service!Discard, Service!Move, phase
  <2> QED BY <2>1, <2>7
<1>9. ASSUME NEW o \in Orders, ReceiveOrder(o)
      PROVE  \/ UNCHANGED << phase, Held, answered, outcome >>
             \/ \E closed \in SUBSET Orders : Service!Discard({o}, closed)
  <2>1. /\ UNCHANGED << bundles, outcome, answered >>
        /\ o \in order_rx /\ order_rx' = order_rx \ {o}
    BY <1>9 DEF ReceiveOrder
  <2>2. CASE form[o].type \in {"Bundle", "Auto"}
    <3>1. \/ /\ UNCHANGED bundle_q
             /\ \E t \in Tasks :
                  /\ tasks[t].batch = {} /\ tasks'[t].batch = {o}
                  /\ \A s \in Tasks \ {t} : tasks'[s] = tasks[s]
          \/ bundle_q' = bundle_q \cup {o} /\ UNCHANGED tasks
      BY <1>0, <1>9, <2>2 DEF ReceiveOrder, ProcessBundle, BatchIsDue, TypeOK
    <3>2. bundle_q' \cup Batched' = bundle_q \cup Batched \cup {o}
      BY <3>1 DEF Batched
    <3>3. Pending' = Pending
      BY <2>1, <3>2 DEF Pending
    <3>4. normal_tasks \subseteq normal_tasks' /\ normal_tasks' \subseteq normal_tasks \cup {o}
      BY <1>9 DEF ReceiveOrder, ProcessNormal
    <3>5. Held' = Held
      BY <1>d, <1>e, <1>f, <2>1, <3>3, <3>4 DEF Pending
    <3> QED BY <1>b, <1>c, <1>f, <2>1, <3>3, <3>5 DEF Where
  <2>3. CASE form[o].type \notin {"Bundle", "Auto"}
    <3>1. /\ UNCHANGED << bundle_q, tasks >>
          /\ normal_tasks' = normal_tasks \cup {o}
      BY <1>9, <2>3 DEF ReceiveOrder, ProcessNormal
    <3>2. Pending' = Pending \ {o} /\ o \in Pending
      <4>1. o \notin bundle_q /\ o \notin Batched
        BY <1>0, <2>1 DEF Exclusive, Batched
      <4> QED BY <1>f, <2>1, <3>1, <4>1 DEF Pending
    <3>3. Held' = Held
      BY <1>d, <1>e, <1>f, <2>1, <3>1, <3>2
    <3> QED BY <1>8, <2>1, <3>2, <3>3
  <2> QED BY <2>2, <2>3
<1>10. ASSUME NEW t \in Tasks, SendOrdersPanics(t)
       PROVE  \E batch, closed \in SUBSET Orders : Service!Discard(batch, closed)
  <2> DEFINE batch == tasks[t].batch
  <2>1. /\ UNCHANGED << order_rx, bundle_q, bundles, normal_tasks, outcome, answered >>
        /\ tasks'[t].batch = {}
        /\ \A s \in Tasks \ {t} : tasks'[s] = tasks[s]
    BY <1>0, <1>10 DEF SendOrdersPanics, order_vars, TypeOK, FreeTask
  <2>2. batch \subseteq Orders
    BY <1>0 DEF TypeOK, TaskStates
  <2>3. \A o \in batch : /\ o \notin order_rx /\ o \notin bundle_q
                         /\ \A s \in Tasks : o \in tasks[s].batch => s = t
    BY <1>0, <2>2 DEF Exclusive
  <2>4. Batched' = Batched \ batch /\ batch \subseteq Batched
    BY <2>1, <2>3 DEF Batched
  <2> HIDE DEF batch
  <2>5. Pending' = Pending \ batch /\ batch \subseteq Pending
    BY <2>1, <2>3, <2>4 DEF Pending
  <2>6. Held \ batch \subseteq Held' /\ Held' \subseteq Held
    BY <1>d, <1>e, <1>f, <2>1, <2>5
  <2>7. \E closed \in SUBSET Orders : Service!Discard(batch, closed)
    BY <1>8, <2>1, <2>5, <2>6
  <2> QED BY <2>2, <2>7
(* Senders go of orders that are no more on their way to a bundle.         *)
<1>11. ASSUME UNCHANGED << answered, outcome >>, Pending' = Pending,
              Bundled' = Bundled, Landed' = Landed, Held' \subseteq Held,
              Held \ Held' \subseteq (Orders \ Pending)
       PROVE  \E closed \in SUBSET Orders : Service!Close(closed)
  <2> DEFINE closed == Held \ Held'
  <2>1. phase' = phase
    BY <1>b, <1>c, <1>11 DEF Where
  <2>2. \A o \in closed : phase[o] # "held"
    BY <1>b, <1>11 DEF Where
  <2>3. Held' = Held \ closed /\ closed \in SUBSET Orders
    BY <1>11
  <2> HIDE DEF closed
  <2> QED BY <1>11, <2>1, <2>2, <2>3 DEF Service!Close, phase
<1>12. ASSUME NEW o \in Orders, NormalTaskEnds(o)
       PROVE  \E closed \in SUBSET Orders : Service!Close(closed)
  <2>1. /\ UNCHANGED << bundles, outcome, answered >> /\ Pending' = Pending
        /\ normal_tasks' = normal_tasks \ {o}
    BY <1>12, <1>f DEF NormalTaskEnds, order_vars
  <2>2. Held' \subseteq Held /\ Held \ Held' \subseteq {o} \ Pending
    BY <1>d, <1>e, <1>f, <2>1
  <2> QED BY <1>11, <1>f, <2>1, <2>2
<1>13. ASSUME NEW t \in Tasks, SendOrders(t)
       PROVE  \E batch \in SUBSET Orders : Service!Bundle(batch)
  <2> DEFINE batch == tasks[t].batch
             new == BundlesOf(batch, tasks[t].block)
  <2>1. /\ bundles' = bundles \cup new
        /\ UNCHANGED << order_rx, bundle_q, normal_tasks, outcome, answered >>
        /\ tasks'[t].batch = {}
        /\ \A s \in Tasks \ {t} : tasks'[s] = tasks[s]
    BY <1>0, <1>13 DEF SendOrders, order_vars, TypeOK, FreeTask
  <2>2. batch \in SUBSET Orders
    BY <1>0 DEF TypeOK, TaskStates
  <2>3. \A b \in new : b.orders \subseteq batch /\ b.owed = b.orders /\ ~b.landed
    BY BuiltBundle
  <2>4. ASSUME NEW o \in batch PROVE \E b \in new : o \in b.orders
    <3> DEFINE b == [orders |-> { p \in batch : form[p].key = form[o].key },
                     block |-> tasks[t].block, stage |-> "posting",
                     relayed |-> FALSE, landed |-> FALSE,
                     owed |-> { p \in batch : form[p].key = form[o].key }]
    <3>1. b \in new
      BY DEF BundlesOf
    <3>2. o \in b.orders
      OBVIOUS
    <3> QED BY <3>1, <3>2
  <2>5. \A o \in batch : /\ o \notin order_rx /\ o \notin bundle_q
                         /\ \A s \in Tasks : o \in tasks[s].batch => s = t
    BY <1>0, <2>2 DEF Exclusive
  <2> HIDE DEF new
  <2>6. Batched' = Batched \ batch /\ batch \subseteq Batched
    BY <2>1, <2>5 DEF Batched
  <2> HIDE DEF batch
  <2>7. Pending' = Pending \ batch /\ batch \subseteq Pending
    BY <2>1, <2>5, <2>6 DEF Pending
  <2>8. Bundled' = Bundled \cup batch
    BY <2>1, <2>3, <2>4 DEF Bundled
  <2>9. Owed' = Owed \cup batch
    BY <2>1, <2>3, <2>4 DEF Owed
  <2>10. Landed' = Landed
    BY <2>1, <2>3 DEF Landed
  <2>11. Held' = Held
    BY <1>d, <1>e, <2>1, <2>7, <2>9
  <2>12. \A o \in batch : Where(o) = "held"
    BY <1>a, <2>7 DEF Where
  <2>13. \A o \in Orders : Where(o)' = IF o \in batch THEN "bundled" ELSE Where(o)
    BY <1>a, <2>1, <2>7, <2>8, <2>10 DEF Where
  <2>14. \A o \in batch : phase[o] = "held"
    BY <1>b, <2>2, <2>12
  <2>15. phase' = [o \in Orders |-> IF o \in batch THEN "bundled" ELSE phase[o]]
    BY <1>b, <1>c, <2>13
  <2>16. Service!Bundle(batch)
    BY <2>1, <2>11, <2>14, <2>15 DEF Service!Bundle, Service!Move, phase
  <2> QED BY <2>2, <2>16
<1>14. ASSUME NEW b \in bundles, BundleStep(b)
       PROVE  /\ Pending' = Pending /\ Bundled' = Bundled /\ Landed' = Landed
              /\ UNCHANGED << outcome, normal_tasks >>
              /\ \E c : /\ bundles' = (bundles \ {b}) \cup {c}
                       /\ c \in Successors(b)
  <2>1. PICK c \in Successors(b) : bundles' = (bundles \ {b}) \cup {c}
    BY <1>14 DEF BundleStep, PostBundle, ResolveBundle, AnswerPanics, AnswerOrder,
                 Successors, Replace
  <2>2. c.orders = b.orders /\ (c.landed <=> b.landed)
    BY <1>0, <2>1, SuccessorTypes DEF TypeOK
  <2>3. UNCHANGED << order_rx, bundle_q, tasks, outcome, normal_tasks >>
    BY <1>14 DEF BundleStep, PostBundle, ResolveBundle, AnswerPanics, AnswerOrder,
                 order_vars
  <2> QED BY <1>f, <2>1, <2>2, <2>3 DEF Bundled, Landed
<1>15. ASSUME NEW b \in bundles, PostBundle(b) \/ ResolveBundle(b) \/ AnswerPanics(b)
       PROVE  \E closed \in SUBSET Orders : Service!Close(closed)
  <2>1. BundleStep(b) /\ UNCHANGED answered
    BY <1>15 DEF BundleStep, PostBundle, ResolveBundle, AnswerPanics, order_vars
  <2>2. b \in BundleStates
    BY <1>0 DEF TypeOK
  <2>3. PICK c : c.owed \subseteq b.owed /\ bundles' = (bundles \ {b}) \cup {c}
    <3> USE <2>2 DEF BundleStates, Replace, Closed
    <3>1. CASE PostBundle(b)
      BY <3>1 DEF PostBundle
    <3>2. CASE ResolveBundle(b)
      BY <3>2 DEF ResolveBundle
    <3>3. CASE AnswerPanics(b)
      BY <3>3 DEF AnswerPanics
    <3> QED BY <1>15, <3>1, <3>2, <3>3
  <2>4. Owed' \subseteq Owed /\ Owed \ Owed' \subseteq Bundled
    BY <1>a, <2>3 DEF Owed
  <2>5. Held' \subseteq Held /\ Held \ Held' \subseteq Orders \ Pending
    BY <1>a, <1>d, <1>e, <1>14, <2>1, <2>4
  <2> QED BY <1>11, <1>14, <2>1, <2>5
<1>16. ASSUME NEW b \in bundles, NEW o \in Orders, AnswerOrder(b, o)
       PROVE  Service!Answer(o)
  <2>1. BundleStep(b)
    BY <1>16 DEF BundleStep
  <2>2. /\ b \in BundleStates /\ b.stage = "answering" /\ b.landed
        /\ o \in b.owed /\ o \in b.orders /\ o \notin answered
        /\ answered' = answered \cup {o}
    BY <1>0, <1>16 DEF AnswerOrder, TypeOK, SendersKept, OwedUnanswered
  <2>3. PICK c : c.owed = b.owed \ {o} /\ bundles' = (bundles \ {b}) \cup {c}
    <3>1. /\ Closed(b).owed = {}
          /\ [b EXCEPT !.owed = @ \ {o}].owed = b.owed \ {o}
      BY <2>2 DEF Closed, BundleStates
    <3>2. CASE b.owed = {o}
      BY <1>16, <3>1, <3>2 DEF AnswerOrder, Replace
    <3>3. CASE b.owed # {o}
      BY <1>16, <3>1, <3>3 DEF AnswerOrder, Replace
    <3> QED BY <3>2, <3>3
  <2>4. Owed' \subseteq Owed /\ Owed \ {o} \subseteq Owed'
    BY <2>3 DEF Owed
  <2>5. Held' \in {Held, Held \ {o}} /\ o \in Held
    <3>1. o \in Owed
      BY <2>2 DEF Owed
    <3>2. Held' \subseteq Held /\ Held \ {o} \subseteq Held' /\ o \in Held
      BY <1>d, <1>e, <1>14, <2>1, <2>4, <3>1
    <3> QED BY <3>2
  <2>6. phase' = phase
    BY <1>b, <1>c, <1>14, <2>1 DEF Where
  <2>7. phase[o] = "landed"
    BY <1>b, <2>2 DEF Where, Landed
  <2> QED BY <1>14, <2>1, <2>2, <2>5, <2>6, <2>7 DEF Service!Answer, phase
<1>17. ASSUME NEW o \in Orders, ReceiveOrder(o)
       PROVE  [Service!Next]_(Service!vars)
  <2>1. {o} \in SUBSET Orders
    OBVIOUS
  <2> QED BY <1>9, <1>17, <2>1 DEF Service!Next, Service!vars, phase
<1> QED
  BY <1>2, <1>3, <1>4, <1>5, <1>6, <1>7, <1>10, <1>12, <1>13, <1>15, <1>16,
     <1>17
  DEF Next, TraderNext, RunNext, TaskNext, Service!Next, Service!vars, phase

(* The executor with its queue, tasks and bundles implements the service   *)
(* the traders rely on: each order is bundled once or discarded for good,  *)
(* answered once, and given up only when it cannot be bundled any more.    *)
THEOREM ExecutorRefines == Spec => ImplementsOrderService
<1>1. Init => Service!Init
  BY RefinedInit
<1>2. IInv /\ IInv' /\ [Next]_vars => [Service!Next]_(Service!vars)
  BY RefinedStep
<1> QED BY <1>1, <1>2, ExecutorInvariant, PTL DEF Spec, Service!Spec, ImplementsOrderService

=============================================================================
