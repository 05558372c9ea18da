---------------------------- MODULE FollowTable ----------------------------
(***************************************************************************)
(* The tables user_follow and user_relation_stat, and the transaction of   *)
(* SetFollow (infra/persistence/relation/gorm.go).  It locks the account   *)
(* of the follower and then that of the target, so two users who follow    *)
(* each other at once lock crosswise; InnoDB then rolls one of them back.  *)
(* With both locks held no other transaction is at these two users' rows,  *)
(* so all that follows the locks is one step.                              *)
(***************************************************************************)
EXTENDS Integers, FiniteSets

CONSTANTS
    Users,          \* account ids, all of normal status
    Keys,           \* Idempotency-Key values of follows and cancellations
    NoKey,          \* the request has none
    InitialFollows, \* the pairs <<follower, target>> at first
    Asks,           \* the pairs each request may be about
    Calls,          \* requests to follow or to unfollow
    Nobody          \* the owner of a free lock

VARIABLES
    follow,     \* user_follow by <<follower, target>>: status, key
    stat,       \* user_relation_stat: following_count, follower_count
    owner,      \* which transaction holds the lock of an account row
    call,       \* the locals of a request
    gen         \* history: how many times a pair became active

tableVars == <<follow, stat, gen>>
followVars == <<tableVars, owner, call>>

Pairs == {p \in Users \X Users : p[1] # p[2]}

ASSUME FollowAssumption ==
    /\ Users \subseteq Nat /\ IsFiniteSet(Users)
    /\ NoKey \notin Keys
    /\ Nobody \notin Calls
    /\ InitialFollows \subseteq Pairs /\ Asks \in [Calls -> SUBSET Pairs]

NoRow == [status |-> "absent", key |-> NoKey]
Row == {NoRow} \cup [status : {"active", "canceled"}, key : Keys \cup {NoKey}]

Ready == [pc |-> "ready"]
Over == [pc |-> "over"]
Asked == [pc : {"user", "target", "write"}, pair : Pairs, active : BOOLEAN,
          key : Keys \cup {NoKey}]

Followed(u) == {t \in Users : u # t /\ follow[<<u, t>>].status = "active"}
Followers(t) == {u \in Users : u # t /\ follow[<<u, t>>].status = "active"}

\* The pair has been active some time.
Ever(p) == p \in InitialFollows \/ gen[p] > 0

FollowInit ==
    /\ follow = [p \in Pairs |-> IF p \in InitialFollows
                                   THEN [NoRow EXCEPT !.status = "active"] ELSE NoRow]
    /\ stat = [u \in Users |-> [following |-> Cardinality(Followed(u)),
                                followers |-> Cardinality(Followers(u))]]
    /\ owner = [u \in Users |-> Nobody]
    /\ call = [c \in Calls |-> Ready]
    /\ gen = [p \in Pairs |-> 0]

Goto(c, pc) == call' = [call EXCEPT ![c].pc = pc]

-----------------------------------------------------------------------------
(* The locks: lockNormalUser for the follower, then for the target.        *)

\* Nobody can follow themselves (NewFollow).
Begin(c, p, active, key) ==
    /\ call[c] = Ready
    /\ call' = [call EXCEPT ![c] = [pc |-> "user", pair |-> p, active |-> active, key |-> key]]
    /\ UNCHANGED <<tableVars, owner>>

Lock(c, u, next) ==
    /\ owner[u] = Nobody
    /\ owner' = [owner EXCEPT ![u] = c]
    /\ Goto(c, next)
    /\ UNCHANGED tableVars

LockUser(c)   == call[c].pc = "user" /\ Lock(c, call[c].pair[1], "target")
LockTarget(c) == call[c].pc = "target" /\ Lock(c, call[c].pair[2], "write")

\* Mutant of Released: the lock of the target is never given back.
ReleasedUserOnly(c) ==
    [u \in Users |-> IF owner[u] = c /\ u = call[c].pair[1] THEN Nobody ELSE owner[u]]

\* The end of a transaction frees its locks.
Released(c) == [u \in Users |-> IF owner[u] = c THEN Nobody ELSE owner[u]]

\* Each waits for a lock of another of them.
Crosswise(group) ==
    /\ \A d \in group : call[d].pc = "target"
    /\ {owner[call[d].pair[2]] : d \in group} = group

InTransaction(c) == call[c].pc \in {"user", "target", "write"}

\* The transaction is rolled back: InnoDB has found a cycle, or a statement has
\* failed, or the process has died.
RollBack(c) ==
    /\ InTransaction(c)
    /\ call' = [call EXCEPT ![c] = Over]
    /\ owner' = Released(c)
    /\ UNCHANGED tableVars

Victim(c) == (\E group \in SUBSET Calls : c \in group /\ Crosswise(group)) /\ RollBack(c)

-----------------------------------------------------------------------------
(* What the transaction does to the row and to the statistics.             *)

\* The row holds the key of the request: the answer is what the row says.
Repeated(row, key) == row # NoRow /\ key # NoKey /\ row.key = key

StatusOf(active) == IF active THEN "active" ELSE "canceled"

\* Mutant of Change: a cancellation with no row to cancel is counted.
ChangeAlways(row, active, key) ==
    IF Repeated(row, key) \/ row.status = StatusOf(active) THEN 0
    ELSE IF active THEN 1 ELSE -1

\* delta: a first row counts when it is active, a later one when its status
\* changes.
Change(row, active, key) ==
    IF Repeated(row, key) \/ row.status = StatusOf(active) THEN 0
    ELSE IF active THEN 1
    ELSE IF row = NoRow THEN 0 ELSE -1

RowAfter(row, active, key) ==
    IF Repeated(row, key) THEN row ELSE [status |-> StatusOf(active), key |-> key]

Clamp(n) == IF n < 0 THEN 0 ELSE n

\* The row, and updateStat for both users.
Write(p, active, key) ==
    LET delta == Change(follow[p], active, key) IN
    /\ follow' = [follow EXCEPT ![p] = RowAfter(@, active, key)]
    /\ stat' = [stat EXCEPT ![p[1]].following = Clamp(@ + delta),
                            ![p[2]].followers = Clamp(@ + delta)]
    /\ gen' = IF delta = 1 THEN [gen EXCEPT ![p] = @ + 1] ELSE gen

-----------------------------------------------------------------------------
\* user_relation_stat says how many rows are active on either side, whatever
\* transactions met or were rolled back (infra/persistence/relation/gorm.go:41).
StatsAreDegrees ==
    \A u \in Users : /\ stat[u].following = Cardinality(Followed(u))
                     /\ stat[u].followers = Cardinality(Followers(u))
=============================================================================
