-------------------------- MODULE MCStratumClient --------------------------
(* StratumClient for TLC: the whole ladder, with few forms of each request; *)
(* the other constants are in StratumClient.cfg.                            *)
EXTENDS StratumClient

WholeLadder == <<1, 2, 3, 4, 5>>
SomeVariants == [m \in Methods |-> IF m = 4 THEN 2 ELSE 1]
TwoForms == [x \in Modes |-> 2]
=============================================================================
