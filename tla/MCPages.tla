------------------------------ MODULE MCPages ------------------------------
(* Instances of Pages.                                                      *)
EXTENDS Pages, TLC

CONSTANTS r1, r2

TwoReaders == {r1, r2}
=============================================================================
