--------------------------- MODULE MCMinerProcess ---------------------------
(* MinerProcess for TLC: a pool worker and a thread of the mode.            *)
EXTENDS MinerProcess

CONSTANTS w, m

OneWorker == {w}
BothHashers == {w, m}
SomeRequests == {Options \ {"large"}, {"aes", "large"}}
=============================================================================
