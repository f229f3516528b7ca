------------------------------ MODULE MCRewards -------------------------------
(* An instance of Rewards for TLC in which two farmers have a ripe crop each    *)
(* and two executions of the notification job overlap.                         *)
EXTENDS Rewards

CONSTANTS ann, bob

TwoFarmers == {ann, bob}
OnePlot    == [l \in {0} |-> 1]
FirstDay   == [l \in {0} |-> 0]
=============================================================================
