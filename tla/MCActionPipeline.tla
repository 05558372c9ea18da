-------------------------- MODULE MCActionPipeline --------------------------
(***************************************************************************)
(* Small instances of ActionPipeline for TLC.                              *)
(***************************************************************************)
EXTENDS ActionPipeline, TLC

CONSTANTS u1, u2, r1, r2, r3, k1, k2, k3, k4

OneUser   == {u1}
TwoUsers  == {u1, u2}
OneShard  == [u \in Users |-> 1]
TwoShards == [u \in Users |-> IF u = u1 THEN 1 ELSE 2]

MCKeyTarget == [k \in Keys |-> k \in {k1, k3}]

\* Requests are interchangeable, and so are the keys of likes and those of
\* cancellations.
RequestSymmetry ==
    Permutations(Requests) \cup Permutations({k1, k3}) \cup Permutations({k2, k4})
=============================================================================
