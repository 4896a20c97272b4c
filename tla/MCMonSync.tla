----------------------------- MODULE MCMonSync -----------------------------
(* Store synchronisation among three monitors, of which m3 is behind.      *)
EXTENDS MonSync, TLC

CONSTANTS m1, m2, m3

Start(n, i) == (m1 :> n) @@ (m2 :> n) @@ (m3 :> i)

(* A log that has been trimmed to version 2; m3 is two versions behind,    *)
(* within reach of a recent synchronisation until the next version trims   *)
(* the log further.                                                        *)
TrimmedLog == <<1, 0, 2, 0>>
Behind == Start(4, 2)
============================================================================
