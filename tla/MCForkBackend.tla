--------------------------- MODULE MCForkBackend ---------------------------
(* Small instances of the forked chain state.                              *)
EXTENDS ForkBackend, TLC

CONSTANTS c1, c2, weth, balance, number

MCClients   == {c1, c2}
MCAccounts  == {weth}
MCSlots     == {balance}
MCNumbers   == {number}
MCAccountOf == balance :> weth
=============================================================================
