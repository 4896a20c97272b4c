----------------------------- MODULE MCElector -----------------------------
(* Instances of Elector for TLC: the configurations give the constants.    *)
EXTENDS Elector
============================================================================
