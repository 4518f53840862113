------------------------------ MODULE MCTrader ------------------------------
(* Small instances of the trader.                                          *)
EXTENDS Trader

(* Everything but faults, with room for two signals and two requests.      *)
Calm ==
  [ buffer |-> 2, inbox |-> 1, service |-> 2,
    signals |-> AllSignals, commands |-> AllCommands, faults |-> {} ]

(* All faults together, and the smallest channels.                         *)
Faulty ==
  [ buffer |-> 1, inbox |-> 1, service |-> 1,
    signals |-> {"buyable", "profit"}, commands |-> {"terminate", "force_exit"},
    faults |-> AllFaults ]

(* A market that only says the token can be bought.                        *)
Buyable ==
  [ buffer |-> 1, inbox |-> 1, service |-> 1,
    signals |-> {"buyable"}, commands |-> {}, faults |-> {} ]

MCSettings == {Calm, Faulty}
MCBuyable  == {Buyable}
=============================================================================
