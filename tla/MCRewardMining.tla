--------------------------- MODULE MCRewardMining ---------------------------
(* RewardMining for TLC; the constants are in RewardMining.cfg.             *)
EXTENDS RewardMining
=============================================================================
