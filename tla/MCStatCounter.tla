---------------------------- MODULE MCStatCounter ----------------------------
(***************************************************************************)
(* Small instances of StatCounter for TLC: requests without keys.          *)
(***************************************************************************)
EXTENDS StatCounter, TLC

CONSTANTS u1, u2

MCShardOf == (u1 :> 1) @@ (u2 :> 2)
MCKeyTarget == [k \in Keys |-> TRUE]
WriterSymmetry == Permutations(Writers)
=============================================================================
