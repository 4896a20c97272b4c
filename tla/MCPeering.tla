----------------------------- MODULE MCPeering -----------------------------
(* Model checking of Peering on small clusters.                             *)
EXTENDS Peering

Cluster(osds, up, old, min_size, changes, writes, crashes, lag) ==
    [osds |-> osds, up |-> up, old |-> old, min_size |-> min_size, changes |-> changes,
     writes |-> writes, crashes |-> crashes, lag |-> lag]

(* Two OSDs that keep going down and coming back, one of which may crash:   *)
(* either may have to wait for the other.                                   *)
Pair == Cluster({0, 1}, {0, 1}, {}, 1, <<{0, 1}, {0, 1}, {0, 1}>>, 1, 1, 1)

(* Writes on both sides of an interval change: the primary's log diverges.  *)
Divergent == Cluster({0, 1}, {0, 1}, {}, 1, <<{0, 1}, {0, 1}>>, 2, 0, 1)

(* A third OSD: copies to create and to remove.                             *)
Spare == Cluster({0, 1, 2}, {0, 1, 2}, {}, 1, <<{0, 1}, {0, 1}>>, 1, 1, 1)

(* A new OSD becomes primary, and a replica comes back with a log that has  *)
(* diverged.                                                                *)
Grow == Cluster({0, 1, 2}, {1, 2}, {}, 1, <<{1}, {0}, {1}>>, 1, 0, 0)

(* An OSD with an old copy comes back.                                      *)
Stray == Cluster({0, 1, 2}, {0, 1}, {2}, 1, <<{1, 2}, {1, 2}, {1, 2}>>, 0, 0, 1)

(* The primary is away while another is alone, and comes back before or     *)
(* after that one goes down: it has to learn from those that are left that  *)
(* the group has been active since.                                         *)
Away == Cluster({0, 1, 2}, {0, 1}, {}, 1, <<{0}, {2}, {0, 1}, {0, 1}>>, 0, 0, 0)

(* An OSD outside the acting set goes down while it is asked.               *)
Probed == Cluster({0, 1, 2}, {0, 1, 2}, {}, 1, <<{0, 1}, {0, 1}, {2}>>, 0, 1, 1)

(* Too few OSDs to go active.                                               *)
Strict == Cluster({0, 1}, {0, 1}, {}, 2, <<{0, 1}, {0, 1}, {0, 1}>>, 1, 0, 1)

Clusters == {Pair, Divergent, Spare, Grow, Stray, Away, Probed, Strict}
=============================================================================
