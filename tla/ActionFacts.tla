---------------------------- MODULE ActionFacts ----------------------------
(***************************************************************************)
(* What the fact table of one (video, type) promises: a set of users and a *)
(* count, changed together by one user at a time.                          *)
(***************************************************************************)
EXTENDS Integers, FiniteSets

CONSTANT Users

VARIABLES liked, count

Init ==
    /\ liked \in SUBSET Users
    /\ count = Cardinality(liked)

Like(u) ==
    /\ u \notin liked
    /\ liked' = liked \cup {u}
    /\ count' = count + 1

Unlike(u) ==
    /\ u \in liked
    /\ liked' = liked \ {u}
    /\ count' = count - 1

Next == \E u \in Users : Like(u) \/ Unlike(u)

Spec == Init /\ [][Next]_<<liked, count>>
=============================================================================
