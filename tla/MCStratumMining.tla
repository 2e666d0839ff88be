--------------------------- MODULE MCStratumMining ---------------------------
(* StratumMining for TLC; the constants are in the Stratum*.cfg files.      *)
EXTENDS StratumMining
=============================================================================
