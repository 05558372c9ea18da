----------------------------- MODULE HotWindow -----------------------------
(***************************************************************************)
(* The hot list in Redis: every like, favourite and comment is credited to *)
(* the sorted set of its minute; the first request of a minute sums up the *)
(* sets of the last WindowMinutes into a window, which all requests of the *)
(* next minutes page through by offset.  Every Redis command is a step.    *)
(***************************************************************************)
EXTENDS Integers, FiniteSets, FiniteSetsExt, Functions

CONSTANTS
    HotVideos,      \* the videos of the list
    Deltas,         \* what a credit adds: negative for a cancellation
    Credits,        \* calls of AddHotScore
    Readers,        \* clients that page through the hot list
    Limit,          \* the page size
    WindowMinutes,  \* hotWindowMinutes: 60
    BucketTTL,      \* hotMinuteBucketTTL: 120 minutes
    WindowTTL,      \* hotWindowCacheTTL: 2 minutes
    LastMinute      \* bound on the clock

VARIABLES
    now,        \* the clock, in minutes
    bucket,     \* feed:hot:minute:v1:{minute}
    window,     \* feed:hot:window:v1:{end}
    credit,     \* the locals of each call of AddHotScore
    reader,     \* the locals of each client and its request
    ever,       \* what was ever credited to a minute (history)
    abandoned   \* windows whose builder failed before EXPIRE (history)

windowVars == <<now, bucket, window, credit, reader, ever, abandoned>>

\* A bucket outlives the newest window it is in.
ASSUME HotWindowAssumption ==
    /\ IsFiniteSet(HotVideos)
    /\ Deltas \subseteq Int \ {0}
    /\ Limit \in Nat \ {0}
    /\ WindowMinutes \in Nat \ {0} /\ WindowTTL \in Nat \ {0}
    /\ BucketTTL \in Nat /\ WindowMinutes <= BucketTTL
    /\ LastMinute \in Nat

Minutes == 0..LastMinute

\* A sorted set: its members with their scores, and the minute it expires at
\* (0: it has no expiry).  Without members there is no key.
Nothing == [v \in {} |-> 0]
NoSet == [scores |-> Nothing, until |-> 0]
Exists(s) == DOMAIN s.scores # {}

ScoreIn(f, v) == IF v \in DOMAIN f THEN f[v] ELSE 0
Increased(f, v, d) == [u \in DOMAIN f \cup {v} |-> ScoreIn(f, u) + (IF u = v THEN d ELSE 0)]

\* The sum of the scores that f has for its minutes.
SumOver(f) ==
    LET M == DOMAIN f
    IN  [v \in UNION {DOMAIN f[m] : m \in M} |-> MapThenSumSet(LAMBDA m : ScoreIn(f[m], v), M)]

Closed == [pc |-> "closed", end |-> 0, offset |-> 0]

WindowTypeOK ==
    /\ now \in Minutes
    /\ DOMAIN bucket = Minutes /\ DOMAIN window = Minutes /\ DOMAIN ever = Minutes
    /\ \A m \in Minutes :
        /\ DOMAIN bucket[m].scores \subseteq HotVideos /\ bucket[m].until \in Nat
        /\ DOMAIN window[m].scores \subseteq HotVideos /\ window[m].until \in Nat
        /\ DOMAIN ever[m] \subseteq HotVideos
    /\ credit \in [Credits -> {-1, -2} \cup Minutes]
    /\ reader \in [Readers -> [pc : {"closed", "ask", "union", "trim", "range", "ended"},
                               end : Minutes, offset : Nat]]
    /\ abandoned \in SUBSET Minutes

\* A call of AddHotScore is not made, is over, or has written to a minute's set.
Unmade == -1
Over == -2

WindowInit ==
    /\ now = 0
    /\ bucket = [m \in Minutes |-> NoSet]
    /\ window = [e \in Minutes |-> NoSet]
    /\ credit = [c \in Credits |-> Unmade]
    /\ reader = [r \in Readers |-> Closed]
    /\ ever = [m \in Minutes |-> Nothing]
    /\ abandoned = {}

-----------------------------------------------------------------------------
(* Time.                                                                   *)

Expired(s) == s.until # 0 /\ s.until <= now + 1
Lapse(s) == IF Expired(s) THEN NoSet ELSE s

Minute ==
    /\ now < LastMinute
    /\ now' = now + 1
    /\ bucket' = [m \in Minutes |-> Lapse(bucket[m])]
    /\ window' = [e \in Minutes |-> Lapse(window[e])]
    /\ UNCHANGED <<credit, reader, ever, abandoned>>

-----------------------------------------------------------------------------
(* AddHotScore.                                                            *)

\* ZINCRBY in the set of the minute the call was made in, which may be over.
Increase(c, v, d, m) ==
    /\ credit[c] = Unmade
    /\ m \in {now - 1, now} \cap Minutes
    /\ bucket' = [bucket EXCEPT ![m].scores = Increased(@, v, d)]
    /\ ever' = [ever EXCEPT ![m] = Increased(@, v, d)]
    /\ credit' = [credit EXCEPT ![c] = m]
    /\ UNCHANGED <<now, window, reader, abandoned>>

\* Mutant of BucketUntil: the bucket lives as long as a window.
BucketUntilShort(t) == t + WindowMinutes - 1

BucketUntil(t) == t + BucketTTL

\* EXPIRE, a call of its own.
ExpireBucket(c) ==
    /\ credit[c] \in Minutes
    /\ LET m == credit[c]
       IN  bucket' = IF Exists(bucket[m]) THEN [bucket EXCEPT ![m].until = BucketUntil(now)]
                                          ELSE bucket
    /\ credit' = [credit EXCEPT ![c] = Over]
    /\ UNCHANGED <<now, window, reader, ever, abandoned>>

\* It fails: the set keeps the expiry it had, or has none.
ExpireBucketFails(c) ==
    /\ credit[c] \in Minutes
    /\ credit' = [credit EXCEPT ![c] = Over]
    /\ UNCHANGED <<now, bucket, window, reader, ever, abandoned>>

-----------------------------------------------------------------------------
(* ListHotWindowPage.                                                      *)

\* A first page is of the window that ends in this minute.
Open(r) ==
    /\ reader[r].pc = "closed"
    /\ reader' = [reader EXCEPT ![r] = [Closed EXCEPT !.pc = "ask", !.end = now]]
    /\ UNCHANGED <<now, bucket, window, credit, ever, abandoned>>

\* EXISTS, for the window of the cursor.
Ask(r) ==
    /\ reader[r].pc = "ask"
    /\ reader' = [reader EXCEPT ![r].pc =
                    IF Exists(window[reader[r].end]) THEN "range" ELSE "union"]
    /\ UNCHANGED <<now, bucket, window, credit, ever, abandoned>>

\* hotWindowMinuteKeys: the minute of the window's end is among them.
MinuteKeys(e) == {m \in Minutes : e - WindowMinutes < m /\ m <= e}

\* ZUNIONSTORE puts a set without expiry in the place of what is there.
Union(r) ==
    /\ reader[r].pc = "union"
    /\ LET e == reader[r].end
       IN  /\ window' = [window EXCEPT ![e] =
                          [scores |-> SumOver([m \in MinuteKeys(e) |-> bucket[m].scores]),
                           until |-> 0]]
           /\ abandoned' = abandoned \ {e}
           /\ reader' = [reader EXCEPT ![r].pc = "trim"]
    /\ UNCHANGED <<now, bucket, credit, ever>>

\* Mutant of Trimmed: the EXPIRE of the pipeline is missing.
TrimmedOnly(s) ==
    [scores |-> RestrictValues(s.scores, LAMBDA n : n > 0), until |-> s.until]

\* ZREMRANGEBYSCORE -inf 0, and EXPIRE if the set has members left.
Trimmed(s) ==
    LET positive == RestrictValues(s.scores, LAMBDA n : n > 0)
    IN  IF positive = Nothing THEN NoSet ELSE [scores |-> positive, until |-> now + WindowTTL]

Trim(r) ==
    /\ reader[r].pc = "trim"
    /\ window' = [window EXCEPT ![reader[r].end] = Trimmed(@)]
    /\ reader' = [reader EXCEPT ![r].pc = "range"]
    /\ UNCHANGED <<now, bucket, credit, ever, abandoned>>

\* ZREVRANGE from the offset, limit + 1 members, of which limit are shown: the
\* offset of the next page is in the cursor, with the window's end.
ReadPage(r) ==
    /\ reader[r].pc = "range"
    /\ LET q == reader[r]
           left == Cardinality(DOMAIN window[q.end].scores) - q.offset
       IN  reader' = IF left > Limit
                     THEN [reader EXCEPT ![r].pc = "ask", ![r].offset = @ + Limit]
                     ELSE [reader EXCEPT ![r] = [Closed EXCEPT !.pc = "ended"]]
    /\ UNCHANGED <<now, bucket, window, credit, ever, abandoned>>

\* A command fails or the process dies; the client may ask once more.
PageFails(r) ==
    /\ reader[r].pc \in {"union", "trim", "range"}
    /\ reader' = [reader EXCEPT ![r].pc = "ask"]
    /\ abandoned' = IF reader[r].pc = "trim" THEN abandoned \cup {reader[r].end} ELSE abandoned
    /\ UNCHANGED <<now, bucket, window, credit, ever>>

-----------------------------------------------------------------------------
WindowNext ==
    \/ Minute
    \/ \E c \in Credits :
        \/ \E v \in HotVideos, d \in Deltas, m \in Minutes : Increase(c, v, d, m)
        \/ ExpireBucket(c)
        \/ ExpireBucketFails(c)
    \/ \E r \in Readers :
        \/ Open(r)
        \/ Ask(r)
        \/ Union(r)
        \/ Trim(r)
        \/ ReadPage(r)
        \/ PageFails(r)

WindowSpec == WindowInit /\ [][WindowNext]_windowVars

-----------------------------------------------------------------------------
(* Properties.                                                             *)

\* A window is built from all that was credited in its WindowMinutes, however
\* its buckets were written and expire, also when a client comes back with its
\* cursor up to BucketTTL - WindowMinutes after the window's end.
UnionExact ==
    [][\A r \in Readers :
        (Union(r) /\ now - reader[r].end <= BucketTTL - WindowMinutes) =>
            LET e == reader[r].end
            IN  window'[e].scores = SumOver(Restrict(ever, Minutes \cap (e - WindowMinutes + 1)..e))
      ]_windowVars

\* A window without an expiry is one that is being built, or one whose builder
\* failed between storing it and giving it its expiry.
WindowsExpire ==
    \A e \in Minutes :
        Exists(window[e]) /\ window[e].until = 0 =>
            e \in abandoned \/ \E r \in Readers : reader[r].pc = "trim" /\ reader[r].end = e
=============================================================================
