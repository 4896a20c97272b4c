---------------------------- MODULE MCPaxosFive ----------------------------
(***************************************************************************)
(* Five monitors that form five quorums one after another.  FiveSpec is    *)
(* Paxos with its steps restricted to a schedule: who is up in each round  *)
(* and leads it, whom its BEGIN does not reach before the quorum breaks,   *)
(* and which leader restarts then.  A behaviour of FiveSpec is one of      *)
(* Paxos, with a variable more.                                            *)
(***************************************************************************)
EXTENDS Paxos

VARIABLE round  \* the round of Plan that is under way: epochs 2 * round - 1 and 2 * round

Plan ==
    << [leader |-> 2, quorum |-> {2, 3, 4}, deaf |-> {3, 4}, restarts |-> TRUE],
       [leader |-> 1, quorum |-> {1, 3, 4}, deaf |-> {4}, restarts |-> TRUE],
       [leader |-> 0, quorum |-> {0, 1, 2}, deaf |-> {2}, restarts |-> FALSE],
       [leader |-> 0, quorum |-> {0, 1, 2}, deaf |-> {}, restarts |-> FALSE],
       [leader |-> 1, quorum |-> {1, 2, 3}, deaf |-> {}, restarts |-> FALSE] >>

InRound(r) ==
    \/ \E m \in r.quorum : NextOdd(epoch[m]) < 2 * round /\ start_election(m)
    \/ \E m, p \in r.quorum : join_election(m, p)
    \/ win_election(r.leader) /\ quorum'[r.leader] = r.quorum
    \/ \E m, from \in r.quorum :
          /\ net[from][m] # <<>>
          /\ ~(Head(net[from][m]).op = "begin" /\ m \in r.deaf)
          /\ dispatch(m, from)
    \/ apply_transaction(r.leader)

(* Whoever is not deaf has accepted the leader's value.                    *)
Accepted(r) ==
    \A m \in r.quorum \ r.deaf :
        store[m].pending_v = 1 /\ store[m].pending_pn = mem[r.leader].accepted_pn

(* A value that everyone has accepted is committed by the leader, which    *)
(* tells nobody any more.                                                  *)
EndRound(r) ==
    /\ round < Len(Plan)
    /\ role[r.leader] = "leader" /\ epoch[r.leader] = 2 * round
    /\ Accepted(r) /\ (r.deaf = {} => chosen # <<>>)
    /\ IF r.restarts THEN crash(r.leader) ELSE UNCHANGED vars

FiveInit == Init /\ round = 1

FiveNext ==
    \/ InRound(Plan[round]) /\ round' = round
    \/ EndRound(Plan[round]) /\ round' = round + 1

FiveSpec == FiveInit /\ [][FiveNext]_<<vars, round>>
============================================================================
