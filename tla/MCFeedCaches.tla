---------------------------- MODULE MCFeedCaches ----------------------------
(* Instances of FeedCards and of HotWindow in one run.  The two share no key  *)
(* of Redis and no request: a behaviour is one of the first or of the second. *)
EXTENDS FeedCards, HotWindow, TLC

CONSTANTS v1, v2

VARIABLE part  \* the module the behaviour is of

TwoVideos == {v1, v2}
\* The deletion names one video; the other one shares its page.
OneVideo == [d \in Deletes |-> v1]

UpAndDown == {-1, 2}

EitherInit ==
    /\ Init
    /\ WindowInit
    /\ part \in {"cards", "window"}

EitherNext ==
    /\ \/ part = "cards" /\ Next /\ UNCHANGED windowVars
       \/ part = "window" /\ WindowNext /\ UNCHANGED vars
    /\ UNCHANGED part

EitherSpec == EitherInit /\ [][EitherNext]_<<vars, windowVars, part>>

\* Requests, clients and the videos of the hot list are alike.  The credits are
\* named like the requests: there are fewer permutations to try.
Alike == Permutations(Requests) \cup Permutations(Readers) \cup Permutations(HotVideos)
=============================================================================
