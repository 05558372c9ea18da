---------------------------- MODULE RefreshSession ----------------------------
(***************************************************************************)
(* Refresh tokens: the refresh_token table and the concurrent calls of     *)
(* Service.Refresh that look a token up, rotate it by compare-and-swap     *)
(* and, when a spent token shows up, revoke its whole family.  Every call  *)
(* to the database is a step of its own: another tab, a retry or the       *)
(* thief of a token runs between any two of them, and a call may end       *)
(* between them (a database error, a crash).                               *)
(***************************************************************************)
EXTENDS FiniteSets, Naturals

CONSTANTS
    Families,  \* newFamilyID: one for each login
    Tokens,    \* refresh tokens, known by their hash
    NoToken,   \* the parent of a login's token
    Calls      \* calls of Refresh

VARIABLES
    issued,     \* tokens with a row
    family,     \* family_id of a row
    revoked,    \* rows with a revoked_at
    expired,    \* rows whose expires_at has passed
    delivered,  \* tokens an answer has carried to a client
    call,       \* the locals of each call
    parent,     \* history: the token a token was rotated from
    wiped,      \* history: families revoked on suspicion of reuse
    presented,  \* history: tokens clients have shown (refresh or logout)
    reshown     \* history: tokens shown again after that

rowVars == <<issued, family, revoked, expired>>
clientVars == <<presented, reshown>>
vars == <<rowVars, delivered, call, parent, wiped, clientVars>>

ASSUME TokensAssumption == NoToken \notin Tokens

Ready == [pc |-> "ready"]
Over  == [pc |-> "over"]
Locals == [pc : {"rotate", "wipe"}, token : Tokens]
            \cup [pc : {"sign"}, token : Tokens, new : Tokens]

Active == issued \ revoked
Fresh == Tokens \ issued
Members(f) == {t \in issued : family[t] = f}

TypeOK ==
    /\ issued \subseteq Tokens
    /\ family \in [Tokens -> Families]
    /\ revoked \subseteq issued
    /\ expired \subseteq issued
    /\ delivered \subseteq issued
    /\ call \in [Calls -> Locals \cup {Ready, Over}]
    /\ parent \in [Tokens -> Tokens \cup {NoToken}]
    /\ wiped \subseteq Families
    /\ presented \subseteq issued
    /\ reshown \subseteq presented

Init ==
    /\ issued = {}
    /\ family \in {[t \in Tokens |-> f] : f \in Families}
    /\ revoked = {}
    /\ expired = {}
    /\ delivered = {}
    /\ call = [c \in Calls |-> Ready]
    /\ parent = [t \in Tokens |-> NoToken]
    /\ wiped = {}
    /\ presented = {}
    /\ reshown = {}

-----------------------------------------------------------------------------
\* Mutant of Shown: a token nobody was given is taken for one.
ShownGuessed(t) ==
    /\ presented' = presented \cup {t}
    /\ reshown' = IF t \in presented THEN reshown \cup {t} ELSE reshown

\* A client shows a token it was given.
Shown(t) ==
    /\ t \in delivered
    /\ presented' = presented \cup {t}
    /\ reshown' = IF t \in presented THEN reshown \cup {t} ELSE reshown

\* Mutant of NewFamily: a login reuses a family.
NewFamilyAny(f) == TRUE

\* newFamilyID: random, so never one that exists.
NewFamily(f) == Members(f) = {}

\* Service.Login: issueRefreshSession saves the first token of a new family;
\* the answer may get lost.
Login(f, t) ==
    /\ NewFamily(f)
    /\ t \in Fresh
    /\ issued' = issued \cup {t}
    /\ family' = [family EXCEPT ![t] = f]
    /\ delivered' \in {delivered, delivered \cup {t}}
    /\ UNCHANGED <<revoked, expired, call, parent, wiped, clientVars>>

\* Mutant of Suspicious: an expired token is taken for a stolen one.
SuspiciousExpired(t) == t \in revoked \cup expired

\* A token that was rotated or revoked shows up again.
Suspicious(t) == t \in revoked

\* Service.Refresh: FindByHash, and the branch on what it read.
Find(c, t) ==
    /\ call[c] = Ready
    /\ Shown(t)
    /\ call' = [call EXCEPT ![c] =
                  IF Suspicious(t) THEN [pc |-> "wipe", token |-> t]
                  ELSE IF t \in expired THEN Over
                  ELSE [pc |-> "rotate", token |-> t]]
    /\ UNCHANGED <<rowVars, delivered, parent, wiped>>

\* Mutant of Swappable: the update is not conditional on revoked_at IS NULL.
SwappableAlways(t) == t \in issued

\* The condition of the compare-and-swap: revoked_at IS NULL.
Swappable(t) == t \in Active

\* Mutant of Spent: the new row is inserted and the old one left alone.
SpentKept(t) == revoked

\* The revoked rows once t is rotated.
Spent(t) == revoked \cup {t}

\* Rotate: revokes the token it was called with if nobody has meanwhile, and
\* inserts the new one in the same transaction.
Rotate(c, new) ==
    /\ call[c].pc = "rotate"
    /\ LET t == call[c].token IN
       /\ Swappable(t)
       /\ new \in Fresh
       /\ revoked' = Spent(t)
       /\ issued' = issued \cup {new}
       /\ family' = [family EXCEPT ![new] = family[t]]
       /\ parent' = [parent EXCEPT ![new] = t]
       /\ call' = [call EXCEPT ![c] = [pc |-> "sign", token |-> t, new |-> new]]
    /\ UNCHANGED <<expired, delivered, wiped, clientVars>>

\* The compare-and-swap found the token revoked.
RotateLost(c) ==
    /\ call[c].pc = "rotate"
    /\ ~Swappable(call[c].token)
    /\ call' = [call EXCEPT ![c] = [pc |-> "wipe", token |-> call[c].token]]
    /\ UNCHANGED <<rowVars, delivered, parent, wiped, clientVars>>

\* Mutant of Withdrawn: only the token that was shown is revoked.
WithdrawnAlone(t) == revoked \cup {t}

\* RevokeByFamily: every row of the family.
Withdrawn(t) == revoked \cup Members(family[t])

\* RevokeByFamily, then ErrRefreshTokenReuseDetected.
Wipe(c) ==
    /\ call[c].pc = "wipe"
    /\ revoked' = Withdrawn(call[c].token)
    /\ wiped' = wiped \cup {family[call[c].token]}
    /\ call' = [call EXCEPT ![c] = Over]
    /\ UNCHANGED <<issued, family, expired, delivered, parent, clientVars>>

\* FindByID and SignAccessToken: only now the client gets the new token.
Sign(c) ==
    /\ call[c].pc = "sign"
    /\ delivered' = delivered \cup {call[c].new}
    /\ call' = [call EXCEPT ![c] = Over]
    /\ UNCHANGED <<rowVars, parent, wiped, clientVars>>

\* An error of the database or the signer, a crash, a lost answer.
Abort(c) ==
    /\ call[c] \notin {Ready, Over}
    /\ call' = [call EXCEPT ![c] = Over]
    /\ UNCHANGED <<rowVars, delivered, parent, wiped, clientVars>>

\* Service.Logout: RevokeByHashIfActive of the one token.
Logout(t) ==
    /\ Shown(t)
    /\ revoked' = revoked \cup {t}
    /\ UNCHANGED <<issued, family, expired, delivered, call, parent, wiped>>

Expire(t) ==
    /\ t \in issued \ expired
    /\ expired' = expired \cup {t}
    /\ UNCHANGED <<issued, family, revoked, delivered, call, parent, wiped, clientVars>>

Refresh(c) ==
    \/ \E t \in Tokens : Find(c, t) \/ Rotate(c, t)
    \/ RotateLost(c) \/ Wipe(c) \/ Sign(c) \/ Abort(c)

Next ==
    \/ \E f \in Families, t \in Tokens : Login(f, t)
    \/ \E c \in Calls : Refresh(c)
    \/ \E t \in Tokens : Logout(t) \/ Expire(t)

Spec == Init /\ [][Next]_vars

-----------------------------------------------------------------------------
(* Properties.                                                             *)

\* A family never has two live tokens, however many refreshes of its tokens
\* run at once ("防止双 token 双活": the compare-and-swap of Rotate).
SingleActive ==
    \A t1, t2 \in Active : family[t1] = family[t2] => t1 = t2

\* A token is rotated once: of any number of concurrent refreshes with it one
\* gets a successor, and the token is dead from then on.
RotatedOnce ==
    \A t1, t2 \in issued :
        parent[t1] # NoToken =>
            /\ parent[t1] \in revoked
            /\ family[parent[t1]] = family[t1]
            /\ parent[t2] = parent[t1] => t2 = t1

\* Once reuse has been answered nobody holds a live token of the family, not
\* even the winner of a rotation that raced the detection.
WipedIsDead == \A f \in wiped : Members(f) \subseteq revoked

\* No family is revoked on suspicion unless one of its tokens really was
\* shown twice.
WipedForCause == \A f \in wiped : Members(f) \cap reshown # {}

\* What sessions promise to their users (SessionFamilies).
current == [f \in Families |->
              IF Members(f) \cap Active = {} THEN NoToken
              ELSE CHOOSE t \in Members(f) : t \in Active]

Sessions == INSTANCE SessionFamilies WITH
              opened <- {family[t] : t \in issued}, used <- issued
ImplementsSessions == Sessions!Spec
=============================================================================
