--------------------------- MODULE MCRefreshSession ---------------------------
(* Small instances of RefreshSession and of Uploads in one run.  Both are about  *)
(* calls of clients that end between two steps; they share no state, so a        *)
(* behaviour is one of the first or of the second.                               *)
EXTENDS RefreshSession, Uploads, TLC

VARIABLE part  \* the module the behaviour is of

Playable == {[type |-> "video", codec |-> "h264", side |-> MaxDimension],
             [type |-> "audio", codec |-> "aac", side |-> 0],
             [type |-> "data", codec |-> "tmcd", side |-> 0]}
Silent == {[type |-> "audio", codec |-> "mp3", side |-> 0]}
Exotic == {[type |-> "video", codec |-> "h264", side |-> 720],
           [type |-> "video", codec |-> "prores", side |-> 720]}
TooLarge == {[type |-> "video", codec |-> "vp9", side |-> MaxDimension + 1]}

Video(ext, size, duration, streams) ==
    [kind |-> "video", ext |-> ext, mime |-> "video/mp4", size |-> size,
     duration |-> duration, streams |-> streams]
Other(kind, ext, mime, size) ==
    [kind |-> kind, ext |-> ext, mime |-> mime, size |-> size, duration |-> 0, streams |-> {}]

\* Files at, and just over, each bound.
SomeOffers ==
    {Video(e, Megabytes.video, MaxDuration, Playable) : e \in {".mp4", ".mov", ".webm", ".avi"}}
    \cup {Video(".mp4", 1, 1, s) : s \in {Silent, Exotic, TooLarge}}
    \cup {Video(".mp4", 1, d, Playable) : d \in {0, MaxDuration + 1}}
    \cup {Video(".mp4", n, 1, Playable) : n \in {0, Megabytes.video + 1}}
    \cup {Other(k, ".png", m, Megabytes.avatar) : k \in {"avatar", "cover"}, m \in {"image/png", "text/plain"}}
    \cup {Other("avatar", ".png", "image/png", Megabytes.avatar + 1)}
    \cup {Other(k, ".bin", "text/plain", n) : k \in {"", "file", "other"}, n \in {Megabytes.upload - 1, Megabytes.upload}}

EitherInit == Init /\ UploadInit /\ part \in {"sessions", "uploads"}

EitherNext ==
    /\ \/ part = "sessions" /\ Next /\ UNCHANGED uploadVars
       \/ part = "uploads" /\ UploadNext /\ UNCHANGED vars
    /\ UNCHANGED part

EitherSpec == EitherInit /\ [][EitherNext]_<<vars, uploadVars, part>>

Symmetry == Permutations(Tokens) \cup Permutations(Calls) \cup Permutations(Families)
            \cup Permutations(Uploads)
=============================================================================
