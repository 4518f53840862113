---------------------------- MODULE QueueLemmas ----------------------------
(***************************************************************************)
(* What Append, Head and Tail do to a channel: the queues of the engines,  *)
(* the simulator and the traders are sequences that grow at the end and    *)
(* are taken from at the front.                                            *)
(***************************************************************************)
EXTENDS Sequences, Integers, SequenceTheorems, TLAPS

(* A send: the queue keeps its messages and has the new one behind them.   *)
LEMMA Enqueued ==
  ASSUME NEW S, NEW q \in Seq(S), NEW x \in S
  PROVE  /\ Append(q, x) \in Seq(S)
         /\ Len(q) \in Nat
         /\ Len(Append(q, x)) = Len(q) + 1
         /\ \A i \in 1 .. Len(q) : Append(q, x)[i] = q[i] /\ q[i] \in S
         /\ Append(q, x)[Len(q) + 1] = x
         /\ \A i \in 1 .. Len(q) + 1 : i \in 1 .. Len(q) \/ i = Len(q) + 1
<1>1. Len(q) \in Nat
  BY LenProperties
<1>2. \A i \in 1 .. Len(q) : q[i] \in S
  BY ElementOfSeq
<1>3. \A i \in 1 .. Len(q) + 1 : i \in 1 .. Len(q) \/ i = Len(q) + 1
  BY <1>1
<1> QED BY <1>1, <1>2, <1>3, AppendProperties

(* A receive: the first message goes, the others move up by one place.     *)
LEMMA Dequeued ==
  ASSUME NEW S, NEW q \in Seq(S), q # << >>
  PROVE  /\ Head(q) \in S
         /\ Head(q) = q[1]
         /\ Len(q) \in Nat \ {0}
         /\ 1 \in 1 .. Len(q)
         /\ Tail(q) \in Seq(S)
         /\ Len(Tail(q)) \in Nat
         /\ Len(Tail(q)) = Len(q) - 1
         /\ \A i \in 1 .. Len(q) : q[i] \in S
         /\ \A i \in 1 .. Len(Tail(q)) :
              /\ Tail(q)[i] = q[i + 1]
              /\ i + 1 \in 1 .. Len(q)
              /\ i + 1 # 1
<1>1. Len(q) \in Nat \ {0} /\ 1 \in 1 .. Len(q)
  BY EmptySeq
<1>2. \A i \in 1 .. Len(q) : q[i] \in S
  BY ElementOfSeq
<1>3. /\ Head(q) \in S
      /\ Tail(q) \in Seq(S)
      /\ Len(Tail(q)) = Len(q) - 1
      /\ \A i \in 1 .. Len(Tail(q)) : Tail(q)[i] = q[i + 1]
  BY HeadTailProperties
<1>4. \A i \in 1 .. Len(Tail(q)) : i + 1 \in 1 .. Len(q) /\ i + 1 # 1
  BY <1>1, <1>3
<1>5. Head(q) = q[1]
  OBVIOUS
<1>6. Len(Tail(q)) \in Nat
  BY <1>1, <1>3
<1> QED BY <1>1, <1>2, <1>3, <1>4, <1>5, <1>6

(* A queue of one message, and what is left of it.                         *)
LEMMA OneQueued ==
  ASSUME NEW S, NEW x \in S
  PROVE  /\ Append(<< >>, x) = << x >>
         /\ << x >> \in Seq(S)
         /\ << x >> # << >>
         /\ Head(<< x >>) = x
         /\ Tail(<< x >>) = << >>
         /\ Len(<< x >>) = 1
         /\ << >> \in Seq(S)
  OBVIOUS

=============================================================================
