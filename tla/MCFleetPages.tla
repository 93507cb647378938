---------------------------- MODULE MCFleetPages ----------------------------
(* Three keys for TLC: an old critical alert, a warning, and a medium alert   *)
(* as severe as it whose agent's clock is behind.                             *)
EXTENDS FleetPages

MCBucket   == <<"critical", "none", "medium">>
MCSeverity == <<"warn", "warn", "info">>
MCTs       == <<1, 3, 2>>
MCStatus   == <<"investigating", "open", "open">>
MCMatch    == [text \in Locals |-> {1}]
=============================================================================
