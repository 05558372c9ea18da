------------------------- MODULE RefreshSessionProofs -------------------------
(***************************************************************************)
(* Proofs about RefreshSession, for any number of families, tokens and     *)
(* concurrent calls: what holds of the token table, and that it implements *)
(* SessionFamilies.  Then about Uploads, for any uploads, files, limits    *)
(* and failures: the directory holds what the answers say.                 *)
(***************************************************************************)
EXTENDS RefreshSession, Uploads, TLAPS

\* Only rotated tokens have a parent.
Unborn == \A t \in Tokens \ issued : parent[t] = NoToken

\* What a call remembers is about rows that exist.
CallRows ==
    \A c \in Calls :
        /\ call[c].pc \in {"rotate", "wipe"} => call[c].token \in presented
        /\ call[c].pc = "sign" => call[c].new \in issued

\* Why a token is revoked: somebody showed it, or its family is wiped.
RevokedCause == \A t \in revoked : t \in presented \/ family[t] \in wiped

\* A call that is about to revoke a family has a token shown twice, or the
\* family is wiped already.
CallCause ==
    \A c \in Calls :
        /\ call[c].pc = "wipe" =>
              call[c].token \in reshown \/ family[call[c].token] \in wiped
        /\ call[c].pc = "rotate" /\ call[c].token \in revoked =>
              call[c].token \in reshown \/ family[call[c].token] \in wiped

\* Two calls that hold the same token: it was shown twice.
CallsApart ==
    \A c1, c2 \in Calls :
        /\ c1 # c2
        /\ call[c1].pc = "rotate" /\ call[c2].pc = "rotate"
        /\ call[c1].token = call[c2].token
        => call[c1].token \in reshown

Inv ==
    /\ TypeOK
    /\ SingleActive /\ RotatedOnce
    /\ WipedIsDead /\ WipedForCause
    /\ Unborn /\ CallRows /\ RevokedCause /\ CallCause /\ CallsApart

-----------------------------------------------------------------------------
\* The pc of a call tells the fields it has.
LEMMA CallShape ==
    ASSUME TypeOK, NEW c \in Calls
    PROVE  /\ call[c].pc \in {"ready", "over", "rotate", "wipe", "sign"}
           /\ call[c].pc = "ready" <=> call[c] = Ready
           /\ call[c].pc = "over" <=> call[c] = Over
           /\ call[c].pc \in {"rotate", "wipe"} => call[c].token \in Tokens
           /\ call[c].pc = "sign" =>
                call[c].token \in Tokens /\ call[c].new \in Tokens
BY DEF TypeOK, Locals, Ready, Over

\* Every table is empty at first.
LEMMA InitInv == Init => Inv
BY DEF Init, Inv, TypeOK, SingleActive, RotatedOnce, WipedIsDead, WipedForCause, Unborn,
       CallRows, RevokedCause, CallCause, CallsApart, Active, Members, Ready, Locals

\* Types are kept by every step.
LEMMA TypeStep == Inv /\ [Next]_vars => TypeOK'
<1> SUFFICES ASSUME Inv, [Next]_vars PROVE TypeOK'
  OBVIOUS
<1> USE DEF Inv, rowVars, clientVars
<1>1. ASSUME NEW f \in Families, NEW t \in Tokens, Login(f, t) PROVE TypeOK'
  BY <1>1 DEF Login, NewFamily, TypeOK, Fresh
<1>2. ASSUME NEW c \in Calls, NEW t \in Tokens, Find(c, t) PROVE TypeOK'
  <2>1. call' \in [Calls -> Locals \cup {Ready, Over}]
    BY <1>2 DEF Find, Suspicious, TypeOK, Locals
  <2> QED
    BY <1>2, <2>1 DEF Find, Suspicious, Shown, TypeOK
<1>3. ASSUME NEW c \in Calls, NEW t \in Tokens, Rotate(c, t) PROVE TypeOK'
  <2>1. call[c].token \in Tokens
    BY <1>3, CallShape DEF Rotate, Swappable, Spent
  <2>2. call' \in [Calls -> Locals \cup {Ready, Over}]
    BY <1>3, <2>1 DEF Rotate, Swappable, Spent, TypeOK, Locals
  <2> QED
    BY <1>3, <2>1, <2>2 DEF Rotate, Swappable, Spent, TypeOK, Active, Fresh
<1>4. ASSUME NEW c \in Calls, RotateLost(c) PROVE TypeOK'
  <2>1. call[c].token \in Tokens
    BY <1>4, CallShape DEF RotateLost, Swappable
  <2>2. call' \in [Calls -> Locals \cup {Ready, Over}]
    BY <1>4, <2>1 DEF RotateLost, Swappable, TypeOK, Locals
  <2> QED
    BY <1>4, <2>2 DEF RotateLost, Swappable, TypeOK
<1>5. ASSUME NEW c \in Calls, Wipe(c) PROVE TypeOK'
  BY <1>5, CallShape DEF Wipe, Withdrawn, TypeOK, Members
<1>6. ASSUME NEW c \in Calls, Sign(c) PROVE TypeOK'
  BY <1>6, CallShape DEF Sign, TypeOK, CallRows
<1>7. ASSUME NEW c \in Calls, Abort(c) PROVE TypeOK'
  BY <1>7 DEF Abort, TypeOK
<1>8. ASSUME NEW t \in Tokens, Logout(t) PROVE TypeOK'
  BY <1>8 DEF Logout, Shown, TypeOK
<1>9. ASSUME NEW t \in Tokens, Expire(t) PROVE TypeOK'
  BY <1>9 DEF Expire, TypeOK
<1>10. CASE UNCHANGED vars
  BY <1>10 DEF vars, TypeOK
<1> QED
  BY <1>1, <1>2, <1>3, <1>4, <1>5, <1>6, <1>7, <1>8, <1>9, <1>10 DEF Next, Refresh

-----------------------------------------------------------------------------
(* The tables: what rotations, revocations and logins do to live tokens.   *)

\* A step keeps the properties of the rows.
LEMMA RowsStep ==
    Inv /\ [Next]_vars => SingleActive' /\ RotatedOnce' /\ WipedIsDead'
<1> SUFFICES ASSUME Inv, [Next]_vars
             PROVE  SingleActive' /\ RotatedOnce' /\ WipedIsDead'
  OBVIOUS
<1> DEFINE Rows == SingleActive /\ RotatedOnce /\ WipedIsDead
<1> USE DEF Inv, Rows
<1>1. ASSUME NEW f \in Families, NEW t \in Tokens, Login(f, t) PROVE Rows'
  <2>1. t \notin issued /\ t \notin revoked /\ family'[t] = f
    BY <1>1 DEF Login, NewFamily, Fresh, TypeOK
  <2>2. \A x \in issued : family'[x] = family[x] /\ family[x] # f
    BY <1>1, <2>1 DEF Login, NewFamily, Members, TypeOK
  <2>3. SingleActive'
    BY <1>1, <2>1, <2>2 DEF Login, NewFamily, SingleActive, Active
  <2>4. parent[t] = NoToken
    BY <2>1 DEF Unborn
  <2>5. RotatedOnce'
    BY <1>1, <2>1, <2>2, <2>4, TokensAssumption DEF Login, NewFamily, RotatedOnce, TypeOK
  <2>6. f \notin wiped
    BY <1>1 DEF Login, NewFamily, WipedForCause
  <2>7. WipedIsDead'
    BY <1>1, <2>1, <2>2, <2>6 DEF Login, NewFamily, WipedIsDead, Members, TypeOK
  <2> QED
    BY <2>3, <2>5, <2>7
<1>3. ASSUME NEW c \in Calls, NEW new \in Tokens, Rotate(c, new) PROVE Rows'
  <2> DEFINE t == call[c].token
  <2>1. t \in issued /\ t \notin revoked /\ new \notin issued /\ t # new /\ new \notin revoked
    BY <1>3 DEF Rotate, Swappable, Spent, Active, Fresh, TypeOK
  <2>2. /\ family'[new] = family[t]
        /\ \A x \in issued : family'[x] = family[x]
    BY <1>3, <2>1 DEF Rotate, Swappable, Spent, TypeOK
  <2>3. SingleActive'
    BY <1>3, <2>1, <2>2 DEF Rotate, Swappable, Spent, SingleActive, Active
  <2>4. /\ parent'[new] = t
        /\ \A x \in issued : parent'[x] = parent[x]
    BY <1>3, <2>1 DEF Rotate, Swappable, Spent, TypeOK
  <2>5. \A x \in issued : parent[x] # t
    BY <2>1, TokensAssumption DEF RotatedOnce, TypeOK
  <2>6. RotatedOnce'
    <3>1. \A x \in issued' : x = new \/ x \in issued
      BY <1>3 DEF Rotate, Swappable, Spent
    <3>2. revoked' = revoked \cup {t} /\ revoked \subseteq issued
      BY <1>3 DEF Rotate, Swappable, Spent, TypeOK
    <3> QED
      BY <2>1, <2>2, <2>4, <2>5, <3>1, <3>2 DEF RotatedOnce
  <2>7. family[t] \notin wiped
    BY <2>1 DEF WipedIsDead, Members
  <2>8. WipedIsDead'
    BY <1>3, <2>1, <2>2, <2>7 DEF Rotate, Swappable, Spent, WipedIsDead, Members
  <2> QED
    BY <2>3, <2>6, <2>8
<1>5. ASSUME NEW c \in Calls, Wipe(c) PROVE Rows'
  <2>1. SingleActive' /\ WipedIsDead'
    BY <1>5 DEF Wipe, Withdrawn, SingleActive, WipedIsDead, Active, Members
  <2>2. RotatedOnce'
    BY <1>5 DEF Wipe, Withdrawn, RotatedOnce
  <2> QED
    BY <2>1, <2>2
<1>8. ASSUME NEW t \in Tokens, Logout(t) PROVE Rows'
  BY <1>8 DEF Logout, SingleActive, RotatedOnce, WipedIsDead, Active, Members
<1>10. ASSUME UNCHANGED <<issued, family, revoked, parent, wiped>> PROVE Rows'
  BY <1>10 DEF SingleActive, RotatedOnce, WipedIsDead, Active, Members
<1>11. ASSUME NEW c \in Calls, NEW t \in Tokens, Find(c, t) PROVE Rows'
  BY <1>10, <1>11 DEF Find, Suspicious, rowVars
<1>12. ASSUME NEW c \in Calls, RotateLost(c) \/ Sign(c) \/ Abort(c) PROVE Rows'
  BY <1>10, <1>12 DEF RotateLost, Swappable, Sign, Abort, rowVars
<1>13. ASSUME NEW t \in Tokens, Expire(t) PROVE Rows'
  BY <1>10, <1>13 DEF Expire
<1>14. CASE UNCHANGED vars
  BY <1>10, <1>14 DEF vars, rowVars
<1> QED
  BY <1>1, <1>3, <1>5, <1>8, <1>11, <1>12, <1>13, <1>14 DEF Next, Refresh

-----------------------------------------------------------------------------
(* The calls: who remembers what, and why anything is revoked.             *)

\* A step keeps what calls remember.
LEMMA MemoryStep == Inv /\ [Next]_vars => Unborn' /\ CallRows'
<1> SUFFICES ASSUME Inv, [Next]_vars PROVE Unborn' /\ CallRows'
  OBVIOUS
<1> USE DEF Inv, rowVars, clientVars
<1>1. ASSUME NEW f \in Families, NEW t \in Tokens, Login(f, t) PROVE Unborn' /\ CallRows'
  BY <1>1 DEF Login, NewFamily, Unborn, CallRows
<1>2. ASSUME NEW c \in Calls, NEW t \in Tokens, Find(c, t) PROVE Unborn' /\ CallRows'
  <2>1. Unborn'
    BY <1>2 DEF Find, Suspicious, Unborn
  <2>2. CallRows'
    BY <1>2 DEF Find, Suspicious, Shown, CallRows, TypeOK, Over
  <2> QED
    BY <2>1, <2>2
<1>3. ASSUME NEW c \in Calls, NEW t \in Tokens, Rotate(c, t) PROVE Unborn' /\ CallRows'
  <2>1. Unborn'
    BY <1>3 DEF Rotate, Swappable, Spent, Unborn, TypeOK
  <2>2. CallRows'
    BY <1>3 DEF Rotate, Swappable, Spent, CallRows, TypeOK
  <2> QED
    BY <2>1, <2>2
<1>4. ASSUME NEW c \in Calls, RotateLost(c) PROVE Unborn' /\ CallRows'
  BY <1>4 DEF RotateLost, Swappable, Unborn, CallRows, TypeOK
<1>5. ASSUME NEW c \in Calls, Wipe(c) \/ Sign(c) \/ Abort(c) PROVE Unborn' /\ CallRows'
  BY <1>5 DEF Wipe, Withdrawn, Sign, Abort, Unborn, CallRows, TypeOK, Over
<1>6. ASSUME NEW t \in Tokens, Logout(t) \/ Expire(t) PROVE Unborn' /\ CallRows'
  BY <1>6 DEF Logout, Expire, Shown, Unborn, CallRows
<1>7. CASE UNCHANGED vars
  BY <1>7 DEF vars, Unborn, CallRows
<1> QED
  BY <1>1, <1>2, <1>3, <1>4, <1>5, <1>6, <1>7 DEF Next, Refresh

\* A step keeps the reasons for which anything is revoked.
LEMMA CauseStep ==
    Inv /\ [Next]_vars => WipedForCause' /\ RevokedCause' /\ CallCause' /\ CallsApart'
<1> DEFINE Causes == WipedForCause /\ RevokedCause /\ CallCause /\ CallsApart
<1> SUFFICES ASSUME Inv, [Next]_vars PROVE Causes'
  OBVIOUS
<1> USE DEF Inv, Causes, rowVars, clientVars
<1>1. ASSUME NEW f \in Families, NEW t \in Tokens, Login(f, t) PROVE Causes'
  <2>1. \A x \in issued : family'[x] = family[x]
    BY <1>1 DEF Login, NewFamily, Fresh, TypeOK
  <2>2. WipedForCause' /\ RevokedCause'
    BY <1>1, <2>1 DEF Login, NewFamily, WipedForCause, RevokedCause, Members, TypeOK
  <2>3. \A c \in Calls : call[c].pc \in {"rotate", "wipe"} =>
            family'[call[c].token] = family[call[c].token]
    BY <2>1 DEF CallRows, TypeOK
  <2>4. CallCause' /\ CallsApart'
    BY <1>1, <2>3 DEF Login, NewFamily, CallCause, CallsApart
  <2> QED
    BY <2>2, <2>4
<1>2. ASSUME NEW c \in Calls, NEW t \in Tokens, Find(c, t) PROVE Causes'
  <2>1. WipedForCause' /\ RevokedCause'
    BY <1>2 DEF Find, Suspicious, Shown, WipedForCause, RevokedCause, Members
  <2>2. /\ \A d \in Calls : d # c => call'[d] = call[d]
        /\ call'[c].pc \in {"rotate", "wipe"} => call'[c].token = t
        /\ call'[c].pc = "rotate" <=> t \notin revoked /\ t \notin expired
        /\ call'[c].pc = "wipe" => t \in revoked
    BY <1>2 DEF Find, Suspicious, TypeOK, Over
  <2>3. CallCause'
    BY <1>2, <2>2 DEF Find, Suspicious, Shown, CallCause, RevokedCause
  <2>4. \A d \in Calls : call[d].pc = "rotate" /\ call[d].token = t => t \in reshown'
    BY <1>2 DEF Find, Suspicious, Shown, CallRows
  <2>5. CallsApart'
    BY <1>2, <2>2, <2>4 DEF Find, Suspicious, Shown, CallsApart
  <2> QED
    BY <2>1, <2>3, <2>5
<1>3. ASSUME NEW c \in Calls, NEW new \in Tokens, Rotate(c, new) PROVE Causes'
  <2> DEFINE t == call[c].token
  <2>1. /\ t \in presented /\ t \notin revoked /\ call[c].pc = "rotate"
        /\ \A x \in issued : family'[x] = family[x]
    BY <1>3 DEF Rotate, Swappable, Spent, Active, Fresh, TypeOK, CallRows
  <2>2. WipedForCause' /\ RevokedCause'
    BY <1>3, <2>1 DEF Rotate, Swappable, Spent, WipedForCause, RevokedCause, Members, TypeOK
  <2>3. /\ call'[c].pc = "sign"
        /\ \A d \in Calls : d # c => call'[d] = call[d]
        /\ \A d \in Calls : call[d].pc \in {"rotate", "wipe"} =>
              family'[call[d].token] = family[call[d].token]
    BY <1>3, <2>1 DEF Rotate, Swappable, Spent, TypeOK, CallRows
  <2>4. \A d \in Calls : d # c /\ call[d].pc = "rotate" /\ call[d].token = t => t \in reshown
    BY <2>1 DEF CallsApart
  <2>5. CallCause'
    BY <1>3, <2>3, <2>4 DEF Rotate, Swappable, Spent, CallCause
  <2>6. CallsApart'
    BY <1>3, <2>3 DEF Rotate, Swappable, Spent, CallsApart
  <2> QED
    BY <2>2, <2>5, <2>6
<1>4. ASSUME NEW c \in Calls, RotateLost(c) PROVE Causes'
  <2>1. call[c].token \in revoked
    BY <1>4 DEF RotateLost, Swappable, CallRows, TypeOK, Active
  <2>2. /\ call'[c].pc = "wipe" /\ call'[c].token = call[c].token
        /\ \A d \in Calls : d # c => call'[d] = call[d]
    BY <1>4 DEF RotateLost, Swappable, TypeOK
  <2>3. CallCause' /\ CallsApart'
    BY <1>4, <2>1, <2>2 DEF RotateLost, Swappable, CallCause, CallsApart
  <2> QED
    BY <1>4, <2>3 DEF RotateLost, Swappable, WipedForCause, RevokedCause, Members
<1>5. ASSUME NEW c \in Calls, Wipe(c) PROVE Causes'
  <2> DEFINE t == call[c].token
             f == family[t]
  <2>1. t \in issued /\ (t \in reshown \/ f \in wiped)
    BY <1>5 DEF Wipe, Withdrawn, CallCause, CallRows, TypeOK
  <2>2. WipedForCause'
    BY <1>5, <2>1 DEF Wipe, Withdrawn, WipedForCause, Members
  <2>3. RevokedCause'
    BY <1>5 DEF Wipe, Withdrawn, RevokedCause, Members
  <2>4. /\ call'[c].pc = "over"
        /\ \A d \in Calls : d # c => call'[d] = call[d]
    BY <1>5 DEF Wipe, Withdrawn, TypeOK, Over
  <2>5. CallCause' /\ CallsApart'
    BY <1>5, <2>4 DEF Wipe, Withdrawn, CallCause, CallsApart, Members
  <2> QED
    BY <2>2, <2>3, <2>5
<1>6. ASSUME NEW c \in Calls, Sign(c) \/ Abort(c) PROVE Causes'
  <2>1. /\ call'[c].pc = "over"
        /\ \A d \in Calls : d # c => call'[d] = call[d]
    BY <1>6 DEF Sign, Abort, TypeOK, Over
  <2> QED
    BY <1>6, <2>1 DEF Sign, Abort, WipedForCause, RevokedCause, CallCause, CallsApart, Members
<1>7. ASSUME NEW t \in Tokens, Logout(t) PROVE Causes'
  <2>1. WipedForCause' /\ RevokedCause'
    BY <1>7 DEF Logout, Shown, WipedForCause, RevokedCause, Members
  <2>2. CallCause'
    BY <1>7 DEF Logout, Shown, CallCause, CallRows
  <2>3. CallsApart'
    BY <1>7 DEF Logout, Shown, CallsApart
  <2> QED
    BY <2>1, <2>2, <2>3
<1>8. ASSUME NEW t \in Tokens, Expire(t) PROVE Causes'
  BY <1>8 DEF Expire, WipedForCause, RevokedCause, CallCause, CallsApart, Members
<1>9. CASE UNCHANGED vars
  BY <1>9 DEF vars, WipedForCause, RevokedCause, CallCause, CallsApart, Members
<1> QED
  BY <1>1, <1>2, <1>3, <1>4, <1>5, <1>6, <1>7, <1>8, <1>9 DEF Next, Refresh

\* Inv is inductive, so it always holds.
THEOREM Invariance == Spec => []Inv
<1>1. Init => Inv
  BY InitInv
<1>2. Inv /\ [Next]_vars => Inv'
  BY TypeStep, RowsStep, MemoryStep, CauseStep DEF Inv
<1> QED
  BY <1>1, <1>2, PTL DEF Spec

\* Types of the table, the calls and the histories.
THEOREM SessionTypes == Spec => []TypeOK
BY Invariance, PTL DEF Inv

\* However many refreshes run at once, a family never has two live tokens.
THEOREM AtMostOneActive == Spec => []SingleActive
BY Invariance, PTL DEF Inv

\* A token is rotated at most once, and is dead afterwards.
THEOREM TokenRotatedOnce == Spec => []RotatedOnce
BY Invariance, PTL DEF Inv

\* Reuse once answered, no live token of the family is left or comes back.
THEOREM ReuseKillsFamily == Spec => []WipedIsDead
BY Invariance, PTL DEF Inv

\* A family is revoked on suspicion only if one of its tokens was shown twice.
THEOREM SuspicionHasCause == Spec => []WipedForCause
BY Invariance, PTL DEF Inv

-----------------------------------------------------------------------------
(* RefreshSession implements SessionFamilies.                              *)

\* With at most one live token, the current token of a family is that token.
CurrentIsActive ==
    \A f \in Families :
        /\ \A t \in Active : family[t] = f => current[f] = t
        /\ (\A t \in Active : family[t] # f) => current[f] = NoToken

\* The invariant makes `current` well defined, at most one token qualifies.
LEMMA CurrentLemma == Inv => CurrentIsActive
BY DEF Inv, CurrentIsActive, current, SingleActive, Members, Active

\* The same of the state after a step.
LEMMA CurrentLemmaPrimed == Inv' => CurrentIsActive'
BY CurrentLemma, PTL

\* A family whose live tokens a step leaves alone keeps its current token.
LEMMA CurrentKept ==
    ASSUME CurrentIsActive, CurrentIsActive', NEW g \in Families,
           \A t : t \in Active /\ family[t] = g <=> t \in Active' /\ family'[t] = g
    PROVE  current'[g] = current[g]
<1>1. CASE \E t \in Active : family[t] = g
  BY <1>1 DEF CurrentIsActive
<1>2. CASE \A t \in Active : family[t] # g
  BY <1>2 DEF CurrentIsActive
<1> QED
  BY <1>1, <1>2

\* `current` is a function on Families.
LEMMA CurrentDomain ==
    /\ current = [f \in Families |-> current[f]]
    /\ current' = [f \in Families |-> current'[f]]
BY DEF current

\* Every step of RefreshSession is a step of SessionFamilies or changes
\* nothing there.
LEMMA SessionStep ==
    Inv /\ Inv' /\ [Next]_vars => [Sessions!Next]_<<current, {family[t] : t \in issued}, issued>>
<1> DEFINE opened == {family[t] : t \in issued}
           abstract == <<current, opened, issued>>
<1> SUFFICES ASSUME Inv, Inv', [Next]_vars PROVE [Sessions!Next]_abstract
  OBVIOUS
<1>0. CurrentIsActive /\ CurrentIsActive' /\ TypeOK /\ TypeOK'
  BY CurrentLemma, CurrentLemmaPrimed DEF Inv
<1>a. ASSUME UNCHANGED <<issued, family, revoked>> PROVE UNCHANGED abstract
  BY <1>a DEF current, Members, Active
<1>1. ASSUME NEW f \in Families, NEW t \in Tokens, Login(f, t) PROVE Sessions!Open(f, t)
  <2>1. /\ t \notin issued /\ issued' = issued \cup {t} /\ revoked' = revoked
        /\ family'[t] = f /\ t \notin revoked
        /\ \A x \in issued : family'[x] = family[x] /\ family[x] # f
    BY <1>0, <1>1 DEF Login, NewFamily, Fresh, TypeOK, Members
  <2>2. f \notin opened /\ opened' = opened \cup {f}
    BY <2>1
  <2>3. current'[f] = t
    BY <1>0, <2>1 DEF CurrentIsActive, Active
  <2>4. ASSUME NEW g \in Families, g # f PROVE current'[g] = current[g]
    BY <1>0, <2>1, <2>4, CurrentKept DEF Active
  <2>5. current' = [current EXCEPT ![f] = t]
    BY <2>3, <2>4, CurrentDomain
  <2> QED
    BY <2>1, <2>2, <2>5 DEF Sessions!Open
<1>2. ASSUME NEW c \in Calls, NEW new \in Tokens, Rotate(c, new)
      PROVE  Sessions!Renew(family[call[c].token], new) /\ family[call[c].token] \in Families
  <2> DEFINE t == call[c].token
             f == family[t]
  <2>1. /\ t \in Active /\ new \notin issued /\ new \notin revoked /\ t # new
        /\ issued' = issued \cup {new} /\ revoked' = revoked \cup {t}
        /\ f \in Families /\ family'[new] = f /\ t \in Tokens
        /\ \A x \in issued : family'[x] = family[x]
    BY <1>0, <1>2 DEF Rotate, Swappable, Spent, Active, Fresh, TypeOK
  <2>2. current[f] = t /\ t # NoToken
    BY <1>0, <2>1, TokensAssumption DEF CurrentIsActive
  <2>3. current'[f] = new
    BY <1>0, <2>1 DEF CurrentIsActive, Active
  <2>4. ASSUME NEW g \in Families, g # f PROVE current'[g] = current[g]
    BY <1>0, <2>1, <2>4, CurrentKept DEF Active
  <2>5. current' = [current EXCEPT ![f] = new]
    BY <2>3, <2>4, CurrentDomain
  <2>6. opened' = opened
    BY <2>1 DEF Active
  <2> QED
    BY <2>1, <2>2, <2>5, <2>6 DEF Sessions!Renew
<1>3. ASSUME NEW f \in Families, UNCHANGED <<issued, family>>,
             \E t \in Active : family[t] = f /\ t \in revoked',
             \A x \in Tokens : x \in revoked' => x \in revoked \/ family[x] = f,
             revoked \subseteq revoked'
      PROVE  Sessions!Close(f)
  <2>1. PICK t \in Active : family[t] = f /\ t \in revoked'
    BY <1>3
  <2>2. current[f] = t /\ t # NoToken
    BY <1>0, <2>1, TokensAssumption DEF CurrentIsActive, Active, TypeOK
  <2>3. \A x \in Active' : family'[x] # f
    BY <1>0, <1>3, <2>1 DEF Active, Inv, SingleActive
  <2>4. current'[f] = NoToken
    BY <1>0, <2>3 DEF CurrentIsActive
  <2>5. ASSUME NEW g \in Families, g # f PROVE current'[g] = current[g]
    BY <1>0, <1>3, <2>5, CurrentKept DEF Active, TypeOK
  <2>6. current' = [current EXCEPT ![f] = NoToken]
    BY <2>4, <2>5, CurrentDomain
  <2> QED
    BY <1>3, <2>2, <2>6 DEF Sessions!Close
<1>4. ASSUME NEW c \in Calls, Wipe(c) PROVE [Sessions!Next]_abstract
  <2> DEFINE f == family[call[c].token]
  <2>1. /\ f \in Families
        /\ UNCHANGED <<issued, family>> /\ revoked' = revoked \cup Members(f)
    BY <1>0, <1>4, CallShape DEF Wipe, Withdrawn, TypeOK, rowVars
  <2>2. CASE \E t \in Active : family[t] = f
    BY <1>3, <2>1, <2>2 DEF Sessions!Next, Members, Active
  <2>3. CASE \A t \in Active : family[t] # f
    BY <1>a, <2>1, <2>3 DEF Members, Active
  <2> QED
    BY <2>2, <2>3
<1>5. ASSUME NEW t \in Tokens, Logout(t) PROVE [Sessions!Next]_abstract
  <2>1. /\ UNCHANGED <<issued, family>> /\ revoked' = revoked \cup {t}
        /\ family[t] \in Families /\ t \in issued
    BY <1>0, <1>5 DEF Logout, Shown, TypeOK
  <2>2. CASE t \in Active
    BY <1>3, <2>1, <2>2 DEF Sessions!Next
  <2>3. CASE t \notin Active
    BY <1>a, <2>1, <2>3 DEF Active
  <2> QED
    BY <2>2, <2>3
<1>6. ASSUME NEW c \in Calls, NEW t \in Tokens, Find(c, t) PROVE UNCHANGED abstract
  BY <1>a, <1>6 DEF Find, Suspicious, rowVars
<1>7. ASSUME NEW c \in Calls, RotateLost(c) \/ Sign(c) \/ Abort(c) PROVE UNCHANGED abstract
  BY <1>a, <1>7 DEF RotateLost, Swappable, Sign, Abort, rowVars
<1>8. ASSUME NEW t \in Tokens, Expire(t) PROVE UNCHANGED abstract
  BY <1>a, <1>8 DEF Expire
<1>9. CASE UNCHANGED vars
  BY <1>a, <1>9 DEF vars, rowVars
<1> QED
  <2> HIDE DEF abstract
  <2> QED
    BY <1>1, <1>2, <1>4, <1>5, <1>6, <1>7, <1>8, <1>9 DEF Next, Refresh, Sessions!Next

\* Refresh sessions keep what SessionFamilies promises: one current token per
\* family, none that comes back, and no family that reopens.
THEOREM Refinement == Spec => ImplementsSessions
<1>1. Init => Sessions!Init
  BY DEF Init, Sessions!Init, current, Members
<1>2. Inv /\ Inv' /\ [Next]_vars =>
         [Sessions!Next]_<<current, {family[t] : t \in issued}, issued>>
  BY SessionStep
<1> QED
  BY <1>1, <1>2, Invariance, PTL DEF Spec, ImplementsSessions, Sessions!Spec

-----------------------------------------------------------------------------
(* Uploads: what the requests left in the upload directory.                *)

Contents == {NoFile, "part", "whole", "front"}
Stages == {"create", "copy", "probe", "temp", "ffmpeg", "rename", "ended", "died"}

Tables ==
    /\ DOMAIN request = Uploads
    /\ disk \in [Uploads -> Contents]
    /\ temp \in [Uploads -> Contents]
    /\ answer \in [Uploads -> {"none", "created", "refused", "unsaved"}]

\* A request that waits, or one with its file.
RequestOf(u) ==
    \/ request[u] = NotSent
    \/ \E pc \in Stages, f \in Offers : request[u] = [pc |-> pc, file |-> f]

\* A video that was probed and is to be rewritten.
Rewritable(f) == Validated(f) /\ MetadataFits(f) /\ ShouldFaststart(f) /\ f.kind = "video"

\* Where a request is tells what its checks have shown so far ...
Checked(u) ==
    /\ At(u, "create") \/ At(u, "copy") \/ At(u, "probe") => Validated(request[u].file)
    /\ At(u, "probe") => request[u].file.kind = "video"
    /\ At(u, "temp") \/ At(u, "ffmpeg") \/ At(u, "rename") => Rewritable(request[u].file)

\* ... and what it has put into the upload directory.  Answers end a request.
Written(u) ==
    /\ At(u, "idle") \/ At(u, "create") => disk[u] = NoFile /\ temp[u] = NoFile
    /\ At(u, "copy") => disk[u] = "part" /\ temp[u] = NoFile
    /\ At(u, "probe") \/ At(u, "temp") => disk[u] = "whole" /\ temp[u] = NoFile
    /\ At(u, "rename") => temp[u] = "front"
    /\ answer[u] # "none" => At(u, "ended")

OwnInv(u) == RequestOf(u) /\ Checked(u) /\ Written(u) /\ Matched(u)

UploadInv == Tables /\ \A u \in Uploads : OwnInv(u)

-----------------------------------------------------------------------------
\* The fields of a request whose stage is known.
LEMMA RequestShape ==
    ASSUME NEW u \in Uploads, RequestOf(u)
    PROVE  /\ At(u, "idle") <=> request[u] = NotSent
           /\ ~At(u, "idle") => /\ request[u].file \in Offers
                                /\ request[u].pc \in Stages
                                /\ request[u] = [pc |-> request[u].pc, file |-> request[u].file]
<1>1. CASE request[u] = NotSent
  BY <1>1 DEF At, NotSent
<1>2. CASE \E pc \in Stages, f \in Offers : request[u] = [pc |-> pc, file |-> f]
  <2>1. PICK pc \in Stages, f \in Offers : request[u] = [pc |-> pc, file |-> f]
    BY <1>2
  <2>2. request[u].pc = pc /\ request[u].file = f /\ pc # "idle"
    BY <2>1 DEF Stages
  <2> QED
    BY <2>1, <2>2 DEF At, NotSent
<1> QED
  BY <1>1, <1>2 DEF RequestOf

\* A step moves a request on and leaves it its file.
LEMMA Moved ==
    ASSUME Tables, NEW u \in Uploads, RequestOf(u), ~At(u, "idle"), NEW pc \in Stages, Goto(u, pc)
    PROVE  /\ request'[u] = [pc |-> pc, file |-> request[u].file]
           /\ request[u].file \in Offers
           /\ RequestOf(u)'
<1>1. /\ request[u].file \in Offers
      /\ request[u] = [pc |-> request[u].pc, file |-> request[u].file]
  BY RequestShape
<1>2. request'[u] = [request[u] EXCEPT !.pc = pc]
  BY DEF Goto, Tables
<1>3. request'[u] = [pc |-> pc, file |-> request[u].file]
  BY <1>1, <1>2
<1> QED
  BY <1>1, <1>3 DEF RequestOf

\* A step that concerns one request keeps the invariant of the others.
OthersSame(u) ==
    \A v \in Uploads \ {u} : /\ request'[v] = request[v] /\ disk'[v] = disk[v]
                             /\ temp'[v] = temp[v] /\ answer'[v] = answer[v]

LEMMA OthersKeep ==
    ASSUME UploadInv, NEW u \in Uploads, Tables', OwnInv(u)', OthersSame(u)
    PROVE  UploadInv'
<1>1. ASSUME NEW v \in Uploads \ {u} PROVE OwnInv(v)'
  <2>1. /\ OwnInv(v) /\ request'[v] = request[v] /\ disk'[v] = disk[v]
        /\ temp'[v] = temp[v] /\ answer'[v] = answer[v]
    BY DEF OthersSame, UploadInv
  <2>2. RequestOf(v)'
    BY <2>1 DEF OwnInv, RequestOf
  <2>3. Checked(v)'
    BY <2>1 DEF OwnInv, Checked, At
  <2>4. Written(v)'
    BY <2>1 DEF OwnInv, Written, At
  <2>5. Matched(v)'
    BY <2>1 DEF OwnInv, Matched, At
  <2> QED
    BY <2>2, <2>3, <2>4, <2>5 DEF OwnInv
<1> QED
  BY <1>1 DEF UploadInv

\* A validated file that is not to be rewritten but fits streams as it is.
LEMMA FitStreams ==
    ASSUME NEW f, Validated(f), f.kind = "video", MetadataFits(f)
    PROVE  /\ ~ShouldFaststart(f) => Streams(f, "whole")
           /\ ShouldFaststart(f) => Streams(f, "front")
<1>1. f.ext \in VideoExt
  BY DEF Validated, NormalizeKind, ExtensionFits
<1>2. /\ \E s \in f.streams : s.type = "video"
      /\ \A s \in f.streams : s.type \in {"video", "audio"} => s.codec \in VideoCodec \cup AudioCodec
  BY DEF MetadataFits
<1> QED
  BY <1>1, <1>2 DEF Streams, ShouldFaststart, VideoExt

-----------------------------------------------------------------------------
\* At first nothing is sent and the directory is empty.
LEMMA UploadInit1 == UploadInit => UploadInv
BY DEF UploadInit, UploadInv, Tables, OwnInv, RequestOf, Checked, Written, Matched, At,
       NotSent, NoFile, Contents

\* Every step keeps the invariant.
LEMMA UploadStep == UploadInv /\ [UploadNext]_uploadVars => UploadInv'
<1> SUFFICES ASSUME UploadInv, [UploadNext]_uploadVars PROVE UploadInv'
  OBVIOUS
<1>0. Tables /\ \A u \in Uploads : OwnInv(u)
  BY DEF UploadInv
<1> USE DEF At
<1>1. ASSUME NEW u \in Uploads, NEW f \in Offers, Receive(u, f) PROVE UploadInv'
  <2>1. Tables'
    BY <1>0, <1>1 DEF Receive, Tables
  <2>2. OwnInv(u)'
    BY <1>0, <1>1 DEF Receive, Tables, OwnInv, RequestOf, Checked, Written, Matched, Stages, Contents, NoFile
  <2>9. OthersSame(u)
    BY <1>0, <1>1 DEF OthersSame, Tables, Receive
  <2> QED
    BY <2>1, <2>2, <2>9, OthersKeep
<1>2. ASSUME NEW u \in Uploads, CreateFile(u) PROVE UploadInv'
  <2>1. Tables'
    BY <1>0, <1>2 DEF CreateFile, Goto, Tables, Contents
  <2>2. OwnInv(u)'
    <3>1. RequestOf(u)' /\ request'[u] = [pc |-> "copy", file |-> request[u].file]
      BY <1>0, <1>2, Moved DEF CreateFile, OwnInv, Stages
    <3>2. disk'[u] = "part" /\ temp'[u] = temp[u] /\ answer'[u] = answer[u]
      BY <1>0, <1>2 DEF CreateFile, Tables
    <3>3. answer[u] = "none"
      BY <1>0, <1>2 DEF CreateFile, OwnInv, Written, Tables
    <3> QED
      BY <1>0, <1>2, <3>1, <3>2, <3>3 DEF CreateFile, OwnInv, Checked, Written, Matched
  <2>9. OthersSame(u)
    BY <1>0, <1>2 DEF OthersSame, Tables, CreateFile, Goto
  <2> QED
    BY <2>1, <2>2, <2>9, OthersKeep
<1>3. ASSUME NEW u \in Uploads, CopyFile(u) PROVE UploadInv'
  <2>1. Tables'
    BY <1>0, <1>3 DEF CopyFile, Goto, Told, Tables, Contents
  <2>2. OwnInv(u)'
    <3>1. disk'[u] = "whole" /\ temp'[u] = NoFile
      BY <1>0, <1>3 DEF CopyFile, Tables, OwnInv, Written
    <3>2. CASE request[u].file.kind = "video"
      <4>1. RequestOf(u)' /\ request'[u] = [pc |-> "probe", file |-> request[u].file]
        BY <1>0, <1>3, <3>2, Moved DEF CopyFile, OwnInv, Stages
      <4>2. answer'[u] = "none"
        BY <1>0, <1>3, <3>2 DEF CopyFile, OwnInv, Written, Tables
      <4> QED
        BY <1>0, <1>3, <3>1, <3>2, <4>1, <4>2 DEF CopyFile, OwnInv, Checked, Written, Matched
    <3>3. CASE request[u].file.kind # "video"
      <4>1. RequestOf(u)' /\ request'[u] = [pc |-> "ended", file |-> request[u].file]
        BY <1>0, <1>3, <3>3, Moved DEF CopyFile, Told, OwnInv, Stages
      <4>2. answer'[u] = "created"
        BY <1>0, <1>3, <3>3 DEF CopyFile, Told, Tables
      <4> QED
        BY <3>1, <3>3, <4>1, <4>2 DEF OwnInv, Checked, Written, Matched, Streams
    <3> QED
      BY <3>2, <3>3
  <2>9. OthersSame(u)
    BY <1>0, <1>3 DEF OthersSame, Tables, CopyFile, Goto, Told
  <2> QED
    BY <2>1, <2>2, <2>9, OthersKeep
<1>4. ASSUME NEW u \in Uploads, SaveFails(u) PROVE UploadInv'
  <2>1. Tables'
    BY <1>0, <1>4 DEF SaveFails, Goto, Told, Tables
  <2>2. OwnInv(u)'
    <3>1. RequestOf(u)' /\ request'[u] = [pc |-> "ended", file |-> request[u].file]
      BY <1>0, <1>4, Moved DEF SaveFails, Told, OwnInv, Stages
    <3>2. answer'[u] = "unsaved" /\ disk'[u] = disk[u] /\ temp'[u] = temp[u]
      BY <1>0, <1>4 DEF SaveFails, Told, Tables
    <3>3. disk[u] # "whole" /\ temp[u] = NoFile
      BY <1>0, <1>4 DEF SaveFails, OwnInv, Written, NoFile
    <3> QED
      BY <3>1, <3>2, <3>3 DEF OwnInv, Checked, Written, Matched
  <2>9. OthersSame(u)
    BY <1>0, <1>4 DEF OthersSame, Tables, SaveFails, Goto, Told
  <2> QED
    BY <2>1, <2>2, <2>9, OthersKeep
<1>5. ASSUME NEW u \in Uploads, Told(u, "refused"), Removed(u), request[u].pc # "idle" PROVE UploadInv'
  <2>1. Tables'
    BY <1>0, <1>5 DEF Removed, Goto, Told, Tables, Contents
  <2>2. OwnInv(u)'
    <3>1. RequestOf(u)' /\ request'[u] = [pc |-> "ended", file |-> request[u].file]
      BY <1>0, <1>5, Moved DEF Told, OwnInv, Stages
    <3>2. answer'[u] = "refused" /\ disk'[u] = NoFile /\ temp'[u] = NoFile
      BY <1>0, <1>5 DEF Removed, Told, Tables
    <3> QED
      BY <3>1, <3>2 DEF OwnInv, Checked, Written, Matched
  <2>9. OthersSame(u)
    BY <1>0, <1>5 DEF OthersSame, Tables, Removed, Goto, Told
  <2> QED
    BY <2>1, <2>2, <2>9, OthersKeep
<1>6. ASSUME NEW u \in Uploads, Probe(u) PROVE UploadInv'
  <2>1. CASE ~MetadataFits(request[u].file)
    BY <1>5, <1>6, <2>1 DEF Probe
  <2>2. CASE MetadataFits(request[u].file)
    <3>1. Tables'
      BY <1>0, <1>6, <2>2 DEF Probe, Goto, Told, Tables
    <3>2. OwnInv(u)'
      <4> DEFINE f == request[u].file
      <4>1. /\ Validated(f) /\ f.kind = "video"
            /\ disk'[u] = "whole" /\ temp'[u] = NoFile
        BY <1>0, <1>6, <2>2 DEF Probe, Tables, OwnInv, Checked, Written
      <4>2. CASE ShouldFaststart(f)
        <5>1. RequestOf(u)' /\ request'[u] = [pc |-> "temp", file |-> f]
          BY <1>0, <1>6, <2>2, <4>2, Moved DEF Probe, OwnInv, Stages
        <5>2. answer'[u] = "none"
          BY <1>0, <1>6, <2>2, <4>2 DEF Probe, OwnInv, Written, Tables
        <5> QED
          BY <2>2, <4>1, <4>2, <5>1, <5>2 DEF OwnInv, Checked, Written, Matched, Rewritable
      <4>3. CASE ~ShouldFaststart(f)
        <5>1. RequestOf(u)' /\ request'[u] = [pc |-> "ended", file |-> f]
          BY <1>0, <1>6, <2>2, <4>3, Moved DEF Probe, Told, OwnInv, Stages
        <5>2. answer'[u] = "created"
          BY <1>0, <1>6, <2>2, <4>3 DEF Probe, Told, Tables
        <5>3. Streams(f, "whole")
          BY <2>2, <4>1, <4>3, FitStreams
        <5> QED
          BY <4>1, <5>1, <5>2, <5>3 DEF OwnInv, Checked, Written, Matched
      <4> QED
        BY <4>2, <4>3
    <3>9. OthersSame(u)
      BY <1>0, <1>6, <2>2 DEF OthersSame, Tables, Probe, Goto, Told
    <3> QED
      BY <3>1, <3>2, <3>9, OthersKeep
  <2> QED
    BY <2>1, <2>2
<1>7. ASSUME NEW u \in Uploads, ProbeFails(u) \/ FaststartFails(u) PROVE UploadInv'
  BY <1>5, <1>7 DEF ProbeFails, FaststartFails
<1>8. ASSUME NEW u \in Uploads, CreateTemp(u) PROVE UploadInv'
  <2>1. Tables'
    BY <1>0, <1>8 DEF CreateTemp, Goto, Tables, Contents
  <2>2. OwnInv(u)'
    <3>1. RequestOf(u)' /\ request'[u] = [pc |-> "ffmpeg", file |-> request[u].file]
      BY <1>0, <1>8, Moved DEF CreateTemp, OwnInv, Stages
    <3>2. disk'[u] = disk[u] /\ temp'[u] = "part" /\ answer'[u] = answer[u]
      BY <1>0, <1>8 DEF CreateTemp, Tables
    <3>3. answer[u] = "none"
      BY <1>0, <1>8 DEF CreateTemp, OwnInv, Written, Tables
    <3> QED
      BY <1>0, <1>8, <3>1, <3>2, <3>3 DEF CreateTemp, OwnInv, Checked, Written, Matched
  <2>9. OthersSame(u)
    BY <1>0, <1>8 DEF OthersSame, Tables, CreateTemp, Goto
  <2> QED
    BY <2>1, <2>2, <2>9, OthersKeep
<1>9. ASSUME NEW u \in Uploads, Faststart(u) PROVE UploadInv'
  <2>1. Tables'
    BY <1>0, <1>9 DEF Faststart, Goto, Tables, Contents
  <2>2. OwnInv(u)'
    <3>1. RequestOf(u)' /\ request'[u] = [pc |-> "rename", file |-> request[u].file]
      BY <1>0, <1>9, Moved DEF Faststart, OwnInv, Stages
    <3>2. disk'[u] = disk[u] /\ temp'[u] = "front" /\ answer'[u] = answer[u]
      BY <1>0, <1>9 DEF Faststart, Tables
    <3>3. answer[u] = "none"
      BY <1>0, <1>9 DEF Faststart, OwnInv, Written, Tables
    <3> QED
      BY <1>0, <1>9, <3>1, <3>2, <3>3 DEF Faststart, OwnInv, Checked, Written, Matched
  <2>9. OthersSame(u)
    BY <1>0, <1>9 DEF OthersSame, Tables, Faststart, Goto
  <2> QED
    BY <2>1, <2>2, <2>9, OthersKeep
<1>10. ASSUME NEW u \in Uploads, Rename(u) PROVE UploadInv'
  <2>1. Tables'
    BY <1>0, <1>10 DEF Rename, Goto, Told, Tables, Contents
  <2>2. OwnInv(u)'
    <3>1. temp[u] = "front" /\ Streams(request[u].file, "front")
      BY <1>0, <1>10, FitStreams DEF Rename, OwnInv, Checked, Written, Rewritable
    <3>2. RequestOf(u)' /\ request'[u] = [pc |-> "ended", file |-> request[u].file]
      BY <1>0, <1>10, Moved DEF Rename, Told, OwnInv, Stages
    <3>3. disk'[u] = "front" /\ temp'[u] = NoFile /\ answer'[u] = "created"
      BY <1>0, <1>10, <3>1 DEF Rename, Told, Tables
    <3> QED
      BY <3>1, <3>2, <3>3 DEF OwnInv, Checked, Written, Matched
  <2>9. OthersSame(u)
    BY <1>0, <1>10 DEF OthersSame, Tables, Rename, Goto, Told
  <2> QED
    BY <2>1, <2>2, <2>9, OthersKeep
<1>11. CASE CrashUploads
  <2>1. Tables'
    BY <1>0, <1>11 DEF CrashUploads, Tables
  <2>2. ASSUME NEW u \in Uploads PROVE OwnInv(u)'
    <3>1. RequestOf(u) /\ Checked(u) /\ Written(u) /\ Matched(u)
      BY <1>0 DEF OwnInv
    <3>2. disk'[u] = disk[u] /\ temp'[u] = temp[u] /\ answer'[u] = answer[u]
      BY <1>11 DEF CrashUploads
    <3>3. CASE At(u, "idle") \/ At(u, "ended")
      <4>1. request'[u] = request[u]
        BY <1>11, <3>3 DEF CrashUploads
      <4> QED
        BY <3>1, <3>2, <4>1 DEF OwnInv, RequestOf, Checked, Written, Matched
    <3>4. CASE ~(At(u, "idle") \/ At(u, "ended"))
      <4>0. /\ request[u].file \in Offers
            /\ request[u] = [pc |-> request[u].pc, file |-> request[u].file]
        BY <3>1, <3>4, RequestShape
      <4>1. request'[u] = [pc |-> "died", file |-> request[u].file]
        <5>1. request'[u] = [request[u] EXCEPT !.pc = "died"]
          BY <1>11, <3>4 DEF CrashUploads
        <5> QED
          BY <4>0, <5>1
      <4>2. answer'[u] = "none"
        BY <3>1, <3>2, <3>4 DEF Written, Tables
      <4> QED
        BY <4>0, <4>1, <4>2 DEF OwnInv, RequestOf, Checked, Written, Matched, Stages
    <3> QED
      BY <3>3, <3>4
  <2> QED
    BY <2>1, <2>2 DEF UploadInv
<1>12. CASE UNCHANGED uploadVars
  BY <1>12 DEF uploadVars, UploadInv, Tables, OwnInv, RequestOf, Checked, Written, Matched
<1> QED
  BY <1>1, <1>2, <1>3, <1>4, <1>6, <1>7, <1>8, <1>9, <1>10, <1>11, <1>12 DEF UploadNext

\* What the upload directory holds agrees with what clients were told, however
\* many requests fail at whatever calls or die with their process.
THEOREM DirectoryMatchesAnswers == UploadSpec => []FilesMatchAnswers
<1>1. UploadInit => UploadInv
  BY UploadInit1
<1>2. UploadInv /\ [UploadNext]_uploadVars => UploadInv'
  BY UploadStep
<1>3. UploadInv => FilesMatchAnswers
  BY DEF UploadInv, OwnInv, FilesMatchAnswers
<1> QED
  BY <1>1, <1>2, <1>3, PTL DEF UploadSpec
=============================================================================
