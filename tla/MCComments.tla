----------------------------- MODULE MCComments -----------------------------
(***************************************************************************)
(* Small instances of Comments for TLC: two requests of a user (with a key *)
(* or not), of the author or of an admin and a third of the user with the  *)
(* key or of the admin, or two of the author next to a like and a feed     *)
(* request.                                                                *)
(***************************************************************************)
EXTENDS Comments

CONSTANTS u1, u2, u3, k1, c1, c2, c3, d1, d2

AnyoneOrAuthor == [c \in Calls |-> IF c \in {d1, d2} THEN {<<u2, NoKey>>}
                                   ELSE IF c = c3 THEN {<<u1, k1>>, <<u3, NoKey>>}
                                   ELSE (Users \X {NoKey}) \cup {<<u1, k1>>}]
TableOrDisplay == {{c1, c2, c3}, {d1, d2} \cup Procs}
=============================================================================
