--------------------------- MODULE SessionFamilies ---------------------------
(***************************************************************************)
(* What login sessions promise: a family has at most one current refresh   *)
(* token, a token that has been replaced or withdrawn never becomes        *)
(* current again, and a family that has been closed stays closed.          *)
(***************************************************************************)
CONSTANTS Families, Tokens, NoToken

VARIABLES
    current,  \* the current token of each family
    opened,   \* families that have logged in
    used      \* tokens that are or were current

Init ==
    /\ current = [f \in Families |-> NoToken]
    /\ opened = {}
    /\ used = {}

Open(f, t) ==
    /\ f \notin opened
    /\ t \notin used
    /\ current' = [current EXCEPT ![f] = t]
    /\ opened' = opened \cup {f}
    /\ used' = used \cup {t}

Renew(f, t) ==
    /\ current[f] # NoToken
    /\ t \notin used
    /\ current' = [current EXCEPT ![f] = t]
    /\ used' = used \cup {t}
    /\ UNCHANGED opened

Close(f) ==
    /\ current[f] # NoToken
    /\ current' = [current EXCEPT ![f] = NoToken]
    /\ UNCHANGED <<opened, used>>

Next ==
    \/ \E f \in Families, t \in Tokens : Open(f, t) \/ Renew(f, t)
    \/ \E f \in Families : Close(f)

Spec == Init /\ [][Next]_<<current, opened, used>>
=============================================================================
