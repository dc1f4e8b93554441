------------------------------- MODULE Decoder -------------------------------
(***************************************************************************)
(* The native side of ffmpegjni.java: jni/ffmpegjni.c over libavformat     *)
(* (Demux) and avcodec_open.                                               *)
(*                                                                         *)
(* The client makes one call at a time, in any order it likes.  The one    *)
(* context of the library is in fmt_ctx: a call that uses it when it is    *)
(* not there, or was freed, is a fault, and the end of the process.        *)
(***************************************************************************)
EXTENDS Demux

CONSTANTS
    Video,       \* the streams whose codec is a video codec
    Decodable,   \* ... with a decoder, once the codec is known
    GiveUp       \* 10000 in GetFramePictureAt

ASSUME CodecsAssumption == Video \subseteq Streams /\ Decodable \subseteq Streams
ASSUME GiveUpAssumption == GiveUp \in Nat /\ GiveUp > 10

VARIABLES
    fmtCtx,   \* fmt_ctx: "null", "open", "freed"; "opening" while Open sets it
    opened,   \* the streams whose codec context has a codec (avctx->codec)
    job,      \* GetFramePictureAt while it looks for a picture, else NoJob
    told,     \* history: what Open or Close said last
    saved,    \* history: the call before this one has saved a picture
    returned, \* history: what it returned, if it was GetFramePictureAt
    fault     \* history: the call that used a context that is not there

picture == <<saved, returned>>
decoder == <<fmtCtx, opened, job, told, picture, fault>>
vars == <<demux, decoder>>

NoJob == [stream |-> 0, pc |-> "none", codecid |-> 0, capturenow |-> FALSE]

Init ==
    /\ DemuxInit
    /\ fmtCtx = "null"
    /\ opened = {}
    /\ job = NoJob
    /\ told = "nothing"
    /\ saved = FALSE
    /\ returned = 0
    /\ fault = "none"

(* No call is in progress. *)
Idle ==
    /\ fault = "none"
    /\ fmtCtx # "opening"
    /\ op \in {"closed", "idle"}
    /\ job = NoJob

NoPicture == saved' = FALSE /\ returned' = 0

Faults(call) ==
    /\ fault' = call
    /\ UNCHANGED <<demux, fmtCtx, opened, job, told, picture>>

---------------------------------------------------------------------------
(* Open and Close.                                                         *)

(* A context that is still open is lost: nothing refers to it any more.    *)
Open ==
    /\ Idle
    /\ CloseFile
    /\ fmtCtx' = "opening"
    /\ opened' = {}
    /\ NoPicture
    /\ UNCHANGED <<job, told, fault>>

OpenInputFile(f) ==
    /\ fmtCtx = "opening"
    /\ OpenFile(f)
    /\ fmtCtx' = "open"
    /\ UNCHANGED <<opened, job, told, picture, fault>>

OpenInputFails ==
    /\ fmtCtx = "opening"
    /\ fmtCtx' = "null"
    /\ told' = "failed"
    /\ UNCHANGED <<demux, opened, job, picture, fault>>

(* A mistake: the pointer to what was closed stays. *)
StreamInfoFailsOpen ==
    /\ InfoFails
    /\ fmtCtx' = "freed"
    /\ told' = "failed"
    /\ UNCHANGED <<opened, job, picture, fault>>

StreamInfoFails ==
    /\ InfoFails
    /\ fmtCtx' = "null"
    /\ told' = "failed"
    /\ UNCHANGED <<opened, job, picture, fault>>

(* av_find_stream_info and av_read_frame run; Open succeeds when the first *)
(* of them returns.                                                        *)
Read ==
    /\ Step
    /\ told' = IF op # "frame" /\ op' = "idle" THEN "succeeded" ELSE told
    /\ UNCHANGED <<fmtCtx, opened, job, picture, fault>>

Close ==
    /\ Idle
    /\ \/ /\ fmtCtx = "freed"
          /\ Faults("Close")
       \/ /\ fmtCtx = "open"
          /\ CloseFile
          /\ fmtCtx' = "freed"
          /\ opened' = {}
          /\ told' = "closed"
          /\ NoPicture
          /\ UNCHANGED <<job, fault>>
       \/ /\ fmtCtx = "null"
          /\ told' = "closed"
          /\ NoPicture
          /\ UNCHANGED <<demux, fmtCtx, opened, job, fault>>

---------------------------------------------------------------------------
(* Calls that only look.                                                   *)

ChecksContext == {"GetStreamCount", "GetStreamCodecID", "showformat"}
ChecksTooLate == {"GetStreamCodecType", "showstreaminfo"}

Query(call) ==
    /\ Idle
    /\ fmtCtx = "freed" \/ (fmtCtx = "null" /\ call \in ChecksTooLate)
    /\ Faults(call)

---------------------------------------------------------------------------
(* GetFramePictureAt                                                       *)

Return(codecid, hasPicture) ==
    /\ returned' = codecid
    /\ saved' = hasPicture
    /\ job' = NoJob

(* avcodec_open refuses a context that has a codec; it may fail anyhow.    *)
(* What is opened for this call is left open.                              *)
OpenCodec(s) ==
    \/ /\ Return(-4, FALSE)
       /\ UNCHANGED opened
    \/ /\ s \notin opened
       /\ opened' = opened \cup {s}
       /\ \/ /\ s \notin Video
             /\ Return(1, FALSE)
          \/ /\ s \in Video
             /\ job' = [NoJob EXCEPT !.stream = s, !.pc = "read", !.codecid = -10]
             /\ NoPicture

(* The stream number is not checked but for being too large. *)
GetFramePictureAt(s) ==
    /\ Idle
    /\ \/ /\ fmtCtx = "freed"
          /\ Faults("GetFramePictureAt")
       \/ /\ fmtCtx = "null"
          /\ Return(0, FALSE)
          /\ UNCHANGED <<demux, fmtCtx, opened, told, fault>>
       \/ /\ fmtCtx = "open"
          /\ \/ /\ s \notin Streams
                /\ Return(-1, FALSE)
                /\ UNCHANGED opened
             \/ /\ s \in Streams /\ s \notin Decodable \ probing
                /\ Return(-2, FALSE)
                /\ UNCHANGED opened
             \/ /\ s \in Decodable \ probing
                /\ OpenCodec(s)
          /\ UNCHANGED <<demux, fmtCtx, told, fault>>

NextFrame ==
    /\ job.pc = "read"
    /\ ReadFrame
    /\ job' = [job EXCEPT !.pc = "look"]
    /\ UNCHANGED <<fmtCtx, opened, told, picture, fault>>

(* A mistake: the counter is returned as it is. *)
ReadFailsUnsaid ==
    /\ job.pc = "look" /\ op = "idle"
    /\ result # "frame"
    /\ Return(job.codecid, FALSE)
    /\ UNCHANGED <<demux, fmtCtx, opened, told, fault>>

ReadFails ==
    /\ job.pc = "look" /\ op = "idle"
    /\ result # "frame"
    /\ Return(-5, FALSE)
    /\ UNCHANGED <<demux, fmtCtx, opened, told, fault>>

FrameOf(s) == result = "frame" /\ Last(out).stream = s

SkipOther ==
    /\ job.pc = "look" /\ op = "idle"
    /\ result = "frame" /\ ~FrameOf(job.stream)
    /\ job' = [job EXCEPT !.pc = "read"]
    /\ UNCHANGED <<demux, fmtCtx, opened, told, picture, fault>>

(* The counter of the frames without a picture is the codecid. *)
GoOn(codecid, capturenow) ==
    /\ job' = [job EXCEPT !.pc = "read", !.codecid = codecid,
                          !.capturenow = capturenow]
    /\ UNCHANGED picture

(* A frame from the given second on, or without a time, is decoded, and    *)
(* with it all that follow.                                                *)
Decode ==
    /\ job.pc = "look" /\ op = "idle"
    /\ FrameOf(job.stream)
    /\ \/ Return(job.codecid, TRUE)
       \/ Return(-6, FALSE)    \* no converter
       \/ Return(-7, FALSE)    \* no memory for the picture
       \/ LET codecid == job.codecid - 1 IN    \* no picture yet
            IF codecid > -GiveUp THEN GoOn(codecid, TRUE) ELSE Return(codecid, FALSE)
    /\ UNCHANGED <<demux, fmtCtx, opened, told, fault>>

(* A mistake: frames that are not decoded never end the search. *)
SkipForEver ==
    /\ job.pc = "look" /\ op = "idle"
    /\ FrameOf(job.stream)
    /\ ~job.capturenow
    /\ GoOn(job.codecid - 1, FALSE)
    /\ UNCHANGED <<demux, fmtCtx, opened, told, fault>>

Skip ==
    /\ job.pc = "look" /\ op = "idle"
    /\ FrameOf(job.stream)
    /\ ~job.capturenow
    /\ LET codecid == job.codecid - 1 IN
         IF codecid < -GiveUp THEN Return(codecid, FALSE) ELSE GoOn(codecid, FALSE)
    /\ UNCHANGED <<demux, fmtCtx, opened, told, fault>>

---------------------------------------------------------------------------

Work ==
    \/ \E f \in Files : OpenInputFile(f)
    \/ OpenInputFails \/ StreamInfoFails
    \/ Read
    \/ NextFrame \/ ReadFails \/ SkipOther \/ Decode \/ Skip

Next ==
    \/ Open \/ Close
    \/ \E call \in ChecksContext \cup ChecksTooLate : Query(call)
    \/ \E s \in Streams \cup {0} : GetFramePictureAt(s)
    \/ Work

Spec == Init /\ [][Next]_vars /\ WF_vars(Work)

---------------------------------------------------------------------------
(* Properties.                                                             *)

(* Every variable holds a value of its type; in particular the counter     *)
(* stays in its range, as GetFramePictureAt gives up in time.              *)
TypeOK ==
    /\ DemuxTypeOK
    /\ fmtCtx \in {"null", "opening", "open", "freed"}
    /\ opened \subseteq Decodable
    /\ job \in [stream : Streams \cup {0}, pc : {"none", "read", "look"},
                codecid : {0} \cup -GiveUp..-10, capturenow : BOOLEAN]
    /\ told \in {"nothing", "failed", "succeeded", "closed"}
    /\ saved \in BOOLEAN
    /\ returned \in Int
    /\ fault \in {"none", "Close", "GetFramePictureAt"}
                   \cup ChecksContext \cup ChecksTooLate

(* Whoever calls only between an Open that succeeded and the Close never   *)
(* meets a context that is not there; and a failed Open does no harm to    *)
(* the calls that check the context.                                       *)
FaultsAreMisuse ==
    fault # "none" =>
        /\ told # "succeeded"
        /\ fault \notin ChecksTooLate => told = "closed"

(* The test of ffmpegjni.java:48-50 tells from what GetFramePictureAt      *)
(* returned for a video stream whether there is a picture: it accepts none *)
(* that was not saved, and misses one only at the very end of the count.   *)
Accepted(codecid) == codecid > -GiveUp /\ (codecid > 0 \/ codecid <= -10)

AcceptedMeansSaved ==
    /\ Accepted(returned) => saved \/ returned = 1
    /\ saved => Accepted(returned) \/ returned = -GiveUp

(* Each call returns. *)
CallsReturn == ~Idle ~> (Idle \/ fault # "none")
=============================================================================
