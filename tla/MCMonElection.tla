--------------------------- MODULE MCMonElection ---------------------------
(* The abstract election on a small instance; monitors start from any      *)
(* stored epoch.                                                           *)
EXTENDS MonElection
============================================================================
