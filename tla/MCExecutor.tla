----------------------------- MODULE MCExecutor -----------------------------
(* Small instances of the executor.                                        *)
EXTENDS Executor, TLC

CONSTANTS o1, o2, t1, t2, normal, target_tx

MCOrders  == {o1, o2}
MCTasks   == {t1, t2}
MCKeys    == {normal, target_tx}

Form(type, target, key) == [type |-> type, target |-> target, key |-> key]

(* For any block, for the next block, for later ones; with and without a   *)
(* target transaction; an order that is not bundled.                       *)
MCForms ==
  { Form("Auto", n, normal) : n \in {0, 2, 3, 4} }
    \cup { Form("Bundle", 3, target_tx), Form("Normal", 0, normal) }

(* For the liveness: now, or a block that three drain tasks may meet.      *)
MCTimes == { Form("Bundle", n, normal) : n \in {3, 4} }

(* Orders and tasks are interchangeable in the safety properties.          *)
MCSymmetry == Permutations(Orders) \cup Permutations(Tasks)
=============================================================================
