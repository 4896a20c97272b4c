------------------------ MODULE MCRecoveryReservation ------------------------
(* Instances of RecoveryReservation for TLC: two placement groups.          *)
EXTENDS RecoveryReservation

MCContext == [pg : PG, ev : Events, epoch : Interval]

Layout(p, rs, ts, todo, prio, may) ==
    [primary |-> p, replicas |-> rs, targets |-> ts, todo |-> todo,
     recovery |-> prio[1], backfill |-> prio[2], may |-> may]

(* Both groups need slots of OSDs 2 and 3, from different primaries; the    *)
(* recovery of the second preempts the backfill of the first.               *)
Apart(may1, may2) ==
    <<Layout(0, {2, 3}, {2, 3}, {"backfill"}, <<2, 1>>, may1),
      Layout(1, {2, 3}, {3}, {"recovery", "backfill"}, <<2, 0>>, may2)>>

(* The same, and the second group has nothing to copy.                      *)
Brief(may1, may2) ==
    <<Layout(0, {2, 3}, {2, 3}, {"backfill"}, <<2, 1>>, may1),
      Layout(1, {2, 3}, {}, {"recovery"}, <<2, 0>>, may2)>>

(* Both groups have the same primary.                                       *)
Shared(may1, may2) ==
    <<Layout(0, {2, 3}, {3}, {"backfill"}, <<1, 0>>, may1),
      Layout(0, {3}, {3}, {"recovery", "backfill"}, <<2, 1>>, may2)>>

(* A backfill that nothing preempts, whose targets are scanned.             *)
Scans == <<Layout(0, {2, 3}, {2, 3}, {"backfill"}, <<2, 2>>, {"scan"}),
           Layout(1, {2, 3}, {3}, {"recovery", "backfill"}, <<2, 0>>, {})>>

(* A new interval of one group, or an OSD too full, or scans.               *)
MCLayouts ==
    {Brief({"interval"}, {}), Brief({}, {"interval"}), Apart({"full"}, {"full"}),
     Shared({"interval"}, {}), Shared({}, {"interval"}), Shared({"full"}, {"full"}), Scans}

(* A scanned backfill that the other group of its primary preempts.         *)
ScannedLayouts == {Shared({"scan"}, {})}
=============================================================================
