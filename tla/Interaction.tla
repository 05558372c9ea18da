---------------------------- MODULE Interaction ----------------------------
(***************************************************************************)
(* The vocabulary of likes and favourites shared by the MySQL fact table,  *)
(* the Redis action hash and the action-changed event: one video and one   *)
(* action type, so a user stands for the row (user, video, type).  Rows of *)
(* other videos or types are independent of these.                         *)
(***************************************************************************)
EXTENDS Integers, FiniteSets

CONSTANTS
    Users,      \* the users who act on the video
    Keys,       \* the non-empty Idempotency-Key header values
    NoKey,      \* the header is absent (an empty string after TrimSpace)
    KeyTarget,  \* the state a key was made for: a client sends a key again
                \* only to retry the operation it made the key for
    KeyUse      \* how clients use the header: "fresh" keys, keys "retried",
                \* or "optional" (the API allows a request without one)

ASSUME UsersAssumption == IsFiniteSet(Users)
ASSUME KeysAssumption ==
    /\ NoKey \notin Keys
    /\ KeyTarget \in [Keys -> BOOLEAN]
    /\ KeyUse \in {"fresh", "retried", "optional"}

\* entity.go: ActionStatusActive = 1, ActionStatusCanceled = 2; "absent" is
\* gorm.ErrRecordNotFound, and status 0 in the Lua script.
Absent   == "absent"
Active   == "active"
Canceled == "canceled"
Statuses == {Absent, Active, Canceled}

StatusOf(active) == IF active THEN Active ELSE Canceled

\* The keys a client may send with a request whose target state is `active`,
\* when the keys of `sent` went out before.
KeysFor(active, sent) ==
    {k \in Keys : KeyTarget[k] = active /\ (KeyUse = "fresh" => k \notin sent)}
        \cup (IF KeyUse = "optional" THEN {NoKey} ELSE {})

\* clampCount, clampRedisCount: a count never shows below zero.
Clamp(n) == IF n < 0 THEN 0 ELSE n
=============================================================================
