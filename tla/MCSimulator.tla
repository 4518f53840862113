---------------------------- MODULE MCSimulator ----------------------------
(* Small instances of the simulator.                                       *)
EXTENDS Simulator

CONSTANTS launch, other, trader

MCTxs          == {launch, other}
MCOpening      == {launch}
MCPairCreating == {launch}
MCTraders      == {trader}
=============================================================================
