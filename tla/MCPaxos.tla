------------------------------ MODULE MCPaxos ------------------------------
(* Instances of Paxos for TLC: the configurations give the constants.      *)
EXTENDS Paxos

(* The histories paxos_histories looks at: up to three versions under two  *)
(* rounds of elections, or one version under three.                        *)
Scope ==
    \/ \A m \in Mon : epoch[m] <= 4
    \/ /\ budget.renew = MaxRenew
       /\ \A m \in Mon : /\ store[m].log[2] = NoValue
                         /\ mem[m].last_committed > 0 => ~mem[m].pending
============================================================================
