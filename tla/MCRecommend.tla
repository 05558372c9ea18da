---------------------------- MODULE MCRecommend ----------------------------
(* Instances of Recommend: three videos, of which each route finds another  *)
(* one first.  Video 2 has more of a hot score than the newer video 3, and  *)
(* scores 10 above it when that one has the boost of the following route:   *)
(* within the tolerance of 15, which is less than a minute takes away.      *)
EXTENDS Recommend

HotScores == [v \in Videos |-> IF v = 2 THEN 6 ELSE 1]
Similarities == [v \in Videos |-> IF v = 1 THEN 4 ELSE 0]
=============================================================================
