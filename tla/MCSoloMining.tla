---------------------------- MODULE MCSoloMining ----------------------------
(* SoloMining for TLC; the constants are in the Solo*.cfg files.            *)
EXTENDS SoloMining
=============================================================================
