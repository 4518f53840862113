----------------------------- MODULE MCEngines -----------------------------
(* Small instances of the engines.                                         *)
EXTENDS Engines

CONSTANTS u1, u2

MCUsers == {u1, u2}

Message(user, topic) == [user |-> user, topic |-> topic]

(* Two users.  One asks for a trader twice and sends more commands than    *)
(* the channel of the trader holds, so the TraderEngine has to wait for    *)
(* it; and there is a message that cannot be read.                         *)
MCMessages ==
  << Message(u2, "malformed"),
     Message(u1, "create"),
     Message(u1, "create"),
     Message(u1, "command"),
     Message(u1, "cancel"),
     Message(u2, "create") >>

MCCreateTwice == << Message(u1, "create"), Message(u2, "create") >>

MCFaults == {"simulator_engine", "trader_engine", "simulator"}
=============================================================================
