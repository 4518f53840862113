---------------------------- MODULE OrderService ----------------------------
(***************************************************************************)
(* What the executor promises to the traders, with none of its machinery.  *)
(* A trader hands over an order together with the sending half of a        *)
(* response channel and waits.  The order is put in one bundle, once, or   *)
(* it is discarded; a bundled order lands on the chain or it does not; an  *)
(* order is answered once, after it landed.  The trader reads "not         *)
(* included" only when every copy of the sending half is gone, and by then *)
(* the order can no longer be bundled.                                     *)
(***************************************************************************)
EXTENDS Naturals

CONSTANTS
  Orders            (* Orders the traders may submit, each at most once.   *)

VARIABLES
  phase,            (* Where an order is on its way to the chain.          *)
  open,             (* Orders with a living copy of their response sender. *)
  answers,          (* Orders with an answer in their response channel.    *)
  reply             (* What the trader waiting for the order knows.        *)

vars == << phase, open, answers, reply >>

Init ==
  /\ phase = [o \in Orders |-> "idle"]
  /\ open = {}
  /\ answers = {}
  /\ reply = [o \in Orders |-> "idle"]

-----------------------------------------------------------------------------

(* The orders of a batch go from one phase to the next.                    *)
Move(batch, from, to) ==
  /\ \A o \in batch : phase[o] = from
  /\ phase' = [o \in Orders |-> IF o \in batch THEN to ELSE phase[o]]

Submit(o) ==
  /\ Move({o}, "idle", "held")
  /\ open' = open \cup {o}
  /\ reply[o] = "idle"
  /\ reply' = [reply EXCEPT ![o] = "waiting"]
  /\ UNCHANGED answers

(* The orders of the batch are bundled now and can never be bundled again. *)
Bundle(batch) ==
  /\ Move(batch, "held", "bundled")
  /\ UNCHANGED << open, answers, reply >>

(* The orders of the batch will not be bundled; senders may go with them.  *)
Discard(batch, closed) ==
  /\ Move(batch, "held", "discarded")
  /\ closed \subseteq batch
  /\ open' = open \ closed
  /\ UNCHANGED << answers, reply >>

(* The last senders of some orders go: of none that may yet be bundled.    *)
Close(closed) ==
  /\ \A o \in closed : phase[o] # "held"
  /\ open' = open \ closed
  /\ UNCHANGED << phase, answers, reply >>

Land(batch) ==
  /\ Move(batch, "bundled", "landed")
  /\ UNCHANGED << open, answers, reply >>

(* An order is answered while it has a sender, which may go with it.       *)
Answer(o) ==
  /\ phase[o] = "landed"
  /\ o \in open
  /\ o \notin answers
  /\ answers' = answers \cup {o}
  /\ open' \in {open, open \ {o}}
  /\ UNCHANGED << phase, reply >>

Fill(o) ==
  /\ reply[o] = "waiting"
  /\ o \in answers
  /\ reply' = [reply EXCEPT ![o] = "filled"]
  /\ UNCHANGED << phase, open, answers >>

Drop(o) ==
  /\ reply[o] = "waiting"
  /\ o \notin open
  /\ o \notin answers
  /\ reply' = [reply EXCEPT ![o] = "unfilled"]
  /\ UNCHANGED << phase, open, answers >>

Next ==
  \/ \E o \in Orders : Submit(o) \/ Answer(o) \/ Fill(o) \/ Drop(o)
  \/ \E batch \in SUBSET Orders :
       \/ Bundle(batch) \/ Land(batch) \/ Close(batch)
       \/ \E closed \in SUBSET Orders : Discard(batch, closed)

Spec == Init /\ [][Next]_vars

=============================================================================
