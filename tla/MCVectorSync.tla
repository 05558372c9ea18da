--------------------------- MODULE MCVectorSync ---------------------------
(* Instances of VectorSync.                                                 *)
EXTENDS VectorSync
=============================================================================
