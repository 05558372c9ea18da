------------------------------ MODULE Uploads ------------------------------
(***************************************************************************)
(* The upload handler: a file is checked by size, extension and sniffed    *)
(* type, saved under a name of its own, probed if it is a video and, for   *)
(* mp4 and mov, rewritten into a temporary file that takes its place.      *)
(* Requests may fail at every call, and die with the process.              *)
(***************************************************************************)
EXTENDS Integers

CONSTANTS
    Uploads,        \* the requests, each with the name of its file
    Offers          \* the files that clients send

Megabytes == [upload |-> 1024, video |-> 512, cover |-> 20, avatar |-> 20, file |-> 1024]
MaxDuration == 600
MaxDimension == 3840

VideoExt == {".mp4", ".mov", ".webm"}
ImageExt == {".jpg", ".jpeg", ".png", ".webp"}
VideoMIME == {"application/octet-stream", "video/mp4", "video/quicktime", "video/webm"}
ImageMIME == {"image/jpeg", "image/png", "image/webp"}
VideoCodec == {"h264", "h265", "hevc", "vp8", "vp9", "av1"}
AudioCodec == {"", "aac", "mp3", "opus", "vorbis"}

ASSUME UploadsAssumption ==
    \A f \in Offers : f.size \in Nat /\ f.duration \in Nat

VARIABLES
    request,    \* where each upload is, and the file it brings
    disk,       \* what is under the name of each upload
    temp,       \* what is in its temporary file
    answer      \* what the client was told

uploadVars == <<request, disk, temp, answer>>

NoFile == "none"
NotSent == [pc |-> "idle"]

UploadInit ==
    /\ request = [u \in Uploads |-> NotSent]
    /\ disk = [u \in Uploads |-> NoFile]
    /\ temp = [u \in Uploads |-> NoFile]
    /\ answer = [u \in Uploads |-> "none"]

-----------------------------------------------------------------------------
(* The checks.                                                             *)

\* An absent kind is that of other files.
NormalizeKind(raw) == IF raw = "" THEN "file" ELSE raw

SizeFits(f, kind) == f.size \in 1..Megabytes[kind]

ExtensionFits(f, kind) ==
    CASE kind = "video" -> f.ext \in VideoExt
      [] kind \in {"cover", "avatar"} -> f.ext \in ImageExt
      [] OTHER -> TRUE

\* The type that the first 512 bytes show.
MIMEFits(f, kind) ==
    CASE kind = "video" -> f.mime \in VideoMIME
      [] kind \in {"cover", "avatar"} -> f.mime \in ImageMIME
      [] OTHER -> TRUE

\* MaxBytesReader counts the whole body, which is longer than its file.
Validated(f) ==
    /\ f.size < Megabytes.upload
    /\ f.kind \in {"video", "cover", "avatar", "file", ""}
    /\ LET kind == NormalizeKind(f.kind)
       IN  SizeFits(f, kind) /\ ExtensionFits(f, kind) /\ MIMEFits(f, kind)

MetadataFits(f) ==
    /\ f.duration \in 1..MaxDuration
    /\ \E s \in f.streams : s.type = "video"
    /\ \A s \in f.streams :
        /\ s.type = "video" => s.side \in 1..MaxDimension /\ s.codec \in VideoCodec
        /\ s.type = "audio" => s.codec \in AudioCodec

ShouldFaststart(f) == f.ext \in {".mp4", ".mov"}

-----------------------------------------------------------------------------
(* Create.                                                                 *)

At(u, pc) == request[u].pc = pc
Goto(u, pc) == request' = [request EXCEPT ![u].pc = pc]

\* The request ends and the client is told a.
Told(u, a) == Goto(u, "ended") /\ answer' = [answer EXCEPT ![u] = a]

Receive(u, f) ==
    /\ At(u, "idle")
    /\ request' = [request EXCEPT ![u] = [pc |-> IF Validated(f) THEN "create" ELSE "ended", file |-> f]]
    /\ answer' = [answer EXCEPT ![u] = IF Validated(f) THEN "none" ELSE "refused"]
    /\ UNCHANGED <<disk, temp>>

\* SaveUploadedFile creates the file, and copies the body into it.
CreateFile(u) ==
    /\ At(u, "create")
    /\ Goto(u, "copy")
    /\ disk' = [disk EXCEPT ![u] = "part"]
    /\ UNCHANGED <<temp, answer>>

CopyFile(u) ==
    /\ At(u, "copy")
    /\ disk' = [disk EXCEPT ![u] = "whole"]
    /\ IF request[u].file.kind = "video" THEN Goto(u, "probe") /\ UNCHANGED answer
                                         ELSE Told(u, "created")
    /\ UNCHANGED temp

\* What was written so far stays.
SaveFails(u) ==
    /\ At(u, "create") \/ At(u, "copy")
    /\ Told(u, "unsaved")
    /\ UNCHANGED <<disk, temp>>

\* Mutant of Removed: the target stays, only the temporary file goes.
RemovedTemp(u) ==
    /\ temp' = [temp EXCEPT ![u] = NoFile]
    /\ UNCHANGED disk

\* The deferred removal of the temporary file, and that of the target.
Removed(u) ==
    /\ temp' = [temp EXCEPT ![u] = NoFile]
    /\ disk' = [disk EXCEPT ![u] = NoFile]

\* ffprobe answers.
Probe(u) ==
    /\ At(u, "probe")
    /\ LET f == request[u].file
       IN  IF ~MetadataFits(f) THEN Told(u, "refused") /\ Removed(u)
           ELSE /\ IF ShouldFaststart(f) THEN Goto(u, "temp") /\ UNCHANGED answer
                                         ELSE Told(u, "created")
                /\ UNCHANGED <<disk, temp>>

\* ffprobe is missing, fails, or is killed after 30 s or when the client hangs up.
ProbeFails(u) ==
    /\ At(u, "probe")
    /\ Told(u, "refused")
    /\ Removed(u)

CreateTemp(u) ==
    /\ At(u, "temp")
    /\ Goto(u, "ffmpeg")
    /\ temp' = [temp EXCEPT ![u] = "part"]
    /\ UNCHANGED <<disk, answer>>

\* ffmpeg copies the streams and puts the index in front.
Faststart(u) ==
    /\ At(u, "ffmpeg")
    /\ Goto(u, "rename")
    /\ temp' = [temp EXCEPT ![u] = "front"]
    /\ UNCHANGED <<disk, answer>>

Rename(u) ==
    /\ At(u, "rename")
    /\ disk' = [disk EXCEPT ![u] = temp[u]]
    /\ temp' = [temp EXCEPT ![u] = NoFile]
    /\ Told(u, "created")

\* The temporary file, ffmpeg (also after its 2 minutes) or the renaming fails.
FaststartFails(u) ==
    /\ At(u, "temp") \/ At(u, "ffmpeg") \/ At(u, "rename")
    /\ Told(u, "refused")
    /\ Removed(u)

\* The process dies with its requests; nothing cleans up after it.
CrashUploads ==
    /\ request' = [u \in Uploads |-> IF At(u, "idle") \/ At(u, "ended") THEN request[u]
                                     ELSE [request[u] EXCEPT !.pc = "died"]]
    /\ request' # request
    /\ UNCHANGED <<disk, temp, answer>>

UploadNext ==
    \/ \E u \in Uploads, f \in Offers : Receive(u, f)
    \/ \E u \in Uploads : CreateFile(u) \/ CopyFile(u) \/ SaveFails(u) \/ Probe(u) \/ ProbeFails(u)
    \/ \E u \in Uploads : CreateTemp(u) \/ Faststart(u) \/ Rename(u) \/ FaststartFails(u)
    \/ CrashUploads

UploadSpec == UploadInit /\ [][UploadNext]_uploadVars

-----------------------------------------------------------------------------
(* Properties.                                                             *)

\* A client's player can show the file from its first bytes on: its pictures and
\* its sound are in codecs that players know.  Streams of other types do not matter.
Streams(f, content) ==
    f.kind = "video" => /\ content = IF f.ext = ".webm" THEN "whole" ELSE "front"
                        /\ \E s \in f.streams : s.type = "video"
                        /\ \A s \in f.streams :
                            s.type \in {"video", "audio"} => s.codec \in VideoCodec \cup AudioCodec

\* What the upload directory holds of a request agrees with its answer.
Matched(u) ==
    /\ answer[u] = "created" => /\ disk[u] \in {"whole", "front"} /\ temp[u] = NoFile
                                /\ Streams(request[u].file, disk[u])
    /\ answer[u] = "refused" => disk[u] = NoFile /\ temp[u] = NoFile
    /\ answer[u] = "unsaved" => disk[u] # "whole" /\ temp[u] = NoFile

\* The upload directory agrees with the answers: a URL that was given out names
\* a complete file that can be streamed, and a request that was refused at any
\* step left neither its file nor a temporary one.  Only a save that failed may
\* leave a part of the file, and only a death of the process a temporary file.
FilesMatchAnswers == \A u \in Uploads : Matched(u)
=============================================================================
