---------------------------- MODULE Decoder_proofs ----------------------------
(***************************************************************************)
(* What holds of the native calls for every set of files and streams and   *)
(* every limit: only a client that breaks the protocol can make them use a *)
(* context that is not there, and the number GetFramePictureAt returns     *)
(* tells whether there is a picture.  Below these calls the container is   *)
(* read as PacketSource says, by the lemmas of Demux_proofs.               *)
(***************************************************************************)
EXTENDS Decoder, Demux_proofs

(* Where no call of libavformat is in progress, none is half done. *)
Quiet == op \in {"closed", "idle"} => at = "top"

(* What the client was told of the context.                                *)
ToldOfContext ==
    /\ (op # "closed") <=> (fmtCtx = "open")
    /\ fmtCtx \in {"null", "opening", "open", "freed"}
    /\ fmtCtx = "null" => told # "succeeded"
    /\ fmtCtx = "freed" => told = "closed"

(* The search for a picture: its counter lies where Accepted is true, but  *)
(* for its last value; and libavformat only reads frames for it.           *)
JobOK ==
    job # NoJob => /\ job.codecid \in Int
                   /\ -GiveUp <= job.codecid /\ job.codecid <= -10
                   /\ fmtCtx = "open"
                   /\ op \in {"idle", "frame"}

(* After a fault nothing runs. *)
FaultIsTheEnd ==
    fault # "none" => /\ job = NoJob
                      /\ op = "closed"
                      /\ fmtCtx # "opening"
                      /\ told # "succeeded"
                      /\ fault \notin ChecksTooLate => told = "closed"

IInv ==
    /\ Quiet
    /\ ToldOfContext
    /\ JobOK
    /\ FaultIsTheEnd
    /\ AcceptedMeansSaved

---------------------------------------------------------------------------
(* A step of libavformat leaves a closed or idle container alone, and ends *)
(* quiet.                                                                  *)
LEMMA StepIsQuiet ==
    ASSUME Quiet, Step
    PROVE  /\ op \notin {"closed", "idle"}
           /\ op' # "closed"
           /\ op = "frame" => op' \in {"frame", "idle"}
           /\ Quiet'
<1> USE DEF Quiet
<1>1. CASE InfoReads \/ InfoEnds
  BY <1>1 DEF InfoReads, InfoEnds
<1>2. ASSUME EndPass, op = "scan"
      PROVE  op' \in {"scan", "idle"} /\ (op' = "scan" \/ at' = "top")
  <2>1. CASE Rewind
    BY <2>1 DEF Rewind
  <2>2. CASE BeginPass(scan.retry + 1)
    BY <2>2, <1>2 DEF BeginPass
  <2> QED BY <1>2, <2>1, <2>2 DEF EndPass
<1>3. CASE ScanFlush
  BY <1>3 DEF ScanFlush, BeginPass
<1>4. CASE ScanReads
  BY <1>4 DEF ScanReads
<1>5. CASE ScanHasReadEnough
  BY <1>5, <1>2 DEF ScanHasReadEnough
<1>6. CASE TakeBuffered
  BY <1>6 DEF TakeBuffered
<1>7. CASE PassOn
  BY <1>7 DEF PassOn, ReadsPacket
<1>8. CASE HoldBack
  BY <1>8 DEF HoldBack, ReadsPacket
<1>9. CASE GiveUpProbing
  BY <1>9 DEF GiveUpProbing, PacketFails
<1>10. CASE FlushParser
  BY <1>10 DEF FlushParser, NoPacket, PacketFails, GiveFrame
<1>11. CASE ReturnsError
  BY <1>11, <1>2 DEF ReturnsError, NoPacket, PacketFails, GiveError
<1>12. CASE NotReady
  BY <1>12 DEF NotReady, GiveError
<1>13. CASE WantsPacket
  BY <1>13 DEF WantsPacket
<1>14. CASE AsItIs
  BY <1>14 DEF AsItIs, GiveFrame
<1>15. CASE Parse
  <2>1. at = "internal" /\ \/ UNCHANGED <<op, at>>
                           \/ \E frame : GiveFrame(frame)
    BY <1>15 DEF Parse
  <2> QED BY <2>1 DEF GiveFrame
<1>16. CASE Parsed
  BY <1>16 DEF Parsed
<1> QED
  BY <1>1, <1>3, <1>4, <1>5, <1>6, <1>7, <1>8, <1>9, <1>10, <1>11, <1>12, <1>13,
     <1>14, <1>15, <1>16 DEF Step

(* In the initial state nothing is open, and nothing was said.             *)
LEMMA InitHolds == Init => IInv
BY GiveUpAssumption DEF Init, DemuxInit, IInv, Quiet, ToldOfContext, JobOK, FaultIsTheEnd,
   AcceptedMeansSaved, Accepted

---------------------------------------------------------------------------
(* The client's calls.                                                     *)

LEMMA OpenPreserves == ASSUME IInv, Open PROVE IInv'
<1> SUFFICES ASSUME Idle, CloseFile, fmtCtx' = "opening", NoPicture,
                    UNCHANGED <<job, told, fault>>
             PROVE  IInv'
  BY DEF Open
<1> QED
  BY GiveUpAssumption
     DEF IInv, Quiet, ToldOfContext, JobOK, FaultIsTheEnd, AcceptedMeansSaved, Accepted,
         Idle, CloseFile, NoPicture

LEMMA ClosePreserves == ASSUME IInv, Close PROVE IInv'
BY GiveUpAssumption
   DEF IInv, Quiet, ToldOfContext, JobOK, FaultIsTheEnd, AcceptedMeansSaved, Accepted,
       Idle, Close, CloseFile, NoPicture, Faults, demux, source, probe, parse, answer,
       picture, ChecksTooLate

LEMMA QueryPreserves ==
    ASSUME IInv, NEW call \in ChecksContext \cup ChecksTooLate, Query(call)
    PROVE  IInv'
BY DEF IInv, Quiet, ToldOfContext, JobOK, FaultIsTheEnd, AcceptedMeansSaved, Accepted,
       Idle, Query, Faults, demux, source, probe, parse, answer, picture,
       ChecksTooLate, ChecksContext

(* A call that ends at once returns a code the test refuses, or a codec.   *)
LEMMA ReturnPreserves ==
    ASSUME IInv, fmtCtx # "freed", UNCHANGED <<demux, fmtCtx, told, fault>>,
           NEW c \in Int, NEW b \in BOOLEAN, Return(c, b), fault = "none",
           Accepted(c) => b \/ c = 1, b => Accepted(c) \/ c = -GiveUp
    PROVE  IInv'
BY DEF IInv, Quiet, ToldOfContext, JobOK, FaultIsTheEnd, AcceptedMeansSaved, Accepted,
       Return, demux, source

LEMMA PicturePreserves ==
    ASSUME IInv, NEW s \in Streams \cup {0}, GetFramePictureAt(s) PROVE IInv'
<1> USE GiveUpAssumption
<1>1. CASE fmtCtx = "freed"
  BY <1>1 DEF IInv, Quiet, ToldOfContext, JobOK, FaultIsTheEnd, AcceptedMeansSaved, Accepted,
       Idle, GetFramePictureAt, Faults, demux, source, probe, parse, answer, picture,
       ChecksTooLate
<1>2. CASE fmtCtx = "null"
  <2>1. Return(0, FALSE) /\ UNCHANGED <<demux, fmtCtx, told, fault>> /\ fault = "none"
    BY <1>2 DEF GetFramePictureAt, Idle
  <2>2. ~Accepted(0) /\ 0 \in Int
    BY DEF Accepted
  <2> QED BY <1>2, <2>1, <2>2, ReturnPreserves
<1>3. CASE fmtCtx = "open"
  <2>1. UNCHANGED <<demux, fmtCtx, told, fault>> /\ fault = "none"
        /\ op \in {"closed", "idle"}
    BY <1>3 DEF GetFramePictureAt, Idle
  <2>2. \/ \E c \in {-1, -2, -4, 1} : Return(c, FALSE)
        \/ /\ job' = [NoJob EXCEPT !.stream = s, !.pc = "read", !.codecid = -10]
           /\ NoPicture
    BY <1>3 DEF GetFramePictureAt, OpenCodec
  <2>3. CASE \E c \in {-1, -2, -4, 1} : Return(c, FALSE)
    <3>1. PICK c \in {-1, -2, -4, 1} : Return(c, FALSE)
      BY <2>3
    <3>2. c \in Int /\ (Accepted(c) => c = 1)
      BY <3>1 DEF Accepted
    <3> QED BY <1>3, <2>1, <3>1, <3>2, ReturnPreserves
  <2>4. CASE /\ job' = [NoJob EXCEPT !.stream = s, !.pc = "read", !.codecid = -10]
             /\ NoPicture
    <3>1. job'.codecid = -10
      BY <2>4 DEF NoJob
    <3> QED
      BY <1>3, <2>1, <2>4, <3>1
         DEF IInv, Quiet, ToldOfContext, JobOK, FaultIsTheEnd, AcceptedMeansSaved, Accepted,
             NoPicture, demux, source
  <2> QED BY <2>2, <2>3, <2>4
<1> QED BY <1>1, <1>2, <1>3 DEF GetFramePictureAt

---------------------------------------------------------------------------
(* The steps of a call in progress.                                        *)

LEMMA OpeningPreserves ==
    ASSUME IInv, (\E f \in Files : OpenInputFile(f)) \/ OpenInputFails PROVE IInv'
<1>1. CASE \E f \in Files : OpenInputFile(f)
  BY <1>1 DEF IInv, Quiet, ToldOfContext, JobOK, FaultIsTheEnd, AcceptedMeansSaved, Accepted,
       OpenInputFile, OpenFile, picture, answer
<1>2. CASE OpenInputFails
  BY <1>2 DEF IInv, Quiet, ToldOfContext, JobOK, FaultIsTheEnd, AcceptedMeansSaved, Accepted,
       OpenInputFails, picture, demux, source
<1> QED BY <1>1, <1>2

LEMMA InfoPreserves == ASSUME IInv, StreamInfoFails PROVE IInv'
BY DEF IInv, Quiet, ToldOfContext, JobOK, FaultIsTheEnd, AcceptedMeansSaved,
       Accepted, StreamInfoFails, InfoFails, CloseFile, picture

LEMMA ReadPreserves == ASSUME IInv, Read PROVE IInv'
<1>1. /\ op \notin {"closed", "idle"} /\ op' # "closed" /\ Quiet'
      /\ op = "frame" => op' \in {"frame", "idle"}
  BY StepIsQuiet DEF IInv, Read
<1> QED
  BY <1>1 DEF IInv, ToldOfContext, JobOK, FaultIsTheEnd, AcceptedMeansSaved,
       Accepted, Read, picture

LEMMA LookPreserves ==
    ASSUME IInv, NextFrame \/ ReadFails \/ SkipOther \/ Decode \/ Skip PROVE IInv'
<1> USE GiveUpAssumption
<1>0. job # NoJob /\ fault = "none" /\ fmtCtx = "open"
      /\ job.codecid \in Int /\ -GiveUp <= job.codecid /\ job.codecid <= -10
  <2>1. job.pc \in {"read", "look"}
    BY DEF NextFrame, ReadFails, SkipOther, Decode, Skip
  <2>2. job # NoJob
    BY <2>1 DEF NoJob
  <2> QED BY <2>2 DEF IInv, JobOK, FaultIsTheEnd
<1>1. CASE NextFrame
  <2>1. job'.codecid = job.codecid \/ job' = NoJob
    BY <1>1, <1>0 DEF NextFrame
  <2> QED
    BY <1>0, <1>1, <2>1
       DEF IInv, Quiet, ToldOfContext, JobOK, FaultIsTheEnd, AcceptedMeansSaved, Accepted,
           NextFrame, ReadFrame, picture, source
<1>2. CASE ReadFails
  <2>1. ~Accepted(-5) /\ -5 \in Int
    BY DEF Accepted
  <2> QED BY <1>0, <1>2, <2>1, ReturnPreserves DEF ReadFails
<1>3. CASE SkipOther
  BY <1>0, <1>3
     DEF IInv, Quiet, ToldOfContext, JobOK, FaultIsTheEnd, AcceptedMeansSaved, Accepted,
         SkipOther, picture, demux, source
<1>4. ASSUME NEW c \in Int, NEW b \in BOOLEAN, GoOn(c, b), c >= -GiveUp, c <= -10,
             UNCHANGED <<demux, fmtCtx, told, fault>>
      PROVE  IInv'
  BY <1>0, <1>4
     DEF IInv, Quiet, ToldOfContext, JobOK, FaultIsTheEnd, AcceptedMeansSaved, Accepted,
         GoOn, picture, demux, source
<1>5. CASE Decode
  <2>1. UNCHANGED <<demux, fmtCtx, told, fault>>
    BY <1>5 DEF Decode
  <2>2. CASE Return(job.codecid, TRUE)
    <3>1. Accepted(job.codecid) \/ job.codecid = -GiveUp
      BY <1>0 DEF Accepted
    <3> QED BY <1>0, <2>1, <2>2, <3>1, ReturnPreserves
  <2>3. CASE Return(-6, FALSE) \/ Return(-7, FALSE)
    <3>1. ~Accepted(-6) /\ ~Accepted(-7) /\ -6 \in Int /\ -7 \in Int
      BY DEF Accepted
    <3> QED BY <1>0, <2>1, <2>3, <3>1, ReturnPreserves
  <2>4. CASE job.codecid - 1 > -GiveUp /\ GoOn(job.codecid - 1, TRUE)
    <3>1. /\ job.codecid - 1 \in Int
          /\ job.codecid - 1 >= -GiveUp /\ job.codecid - 1 <= -10
      BY <1>0, <2>4
    <3> QED BY <1>4, <2>1, <2>4, <3>1
  <2>5. CASE ~(job.codecid - 1 > -GiveUp) /\ Return(job.codecid - 1, FALSE)
    <3>1. ~Accepted(job.codecid - 1) /\ job.codecid - 1 \in Int
      BY <1>0, <2>5 DEF Accepted
    <3> QED BY <1>0, <2>1, <2>5, <3>1, ReturnPreserves
  <2> QED BY <1>5, <2>2, <2>3, <2>4, <2>5 DEF Decode
<1>6. CASE Skip
  <2>1. UNCHANGED <<demux, fmtCtx, told, fault>>
    BY <1>6 DEF Skip
  <2>2. CASE job.codecid - 1 < -GiveUp /\ Return(job.codecid - 1, FALSE)
    <3>1. ~Accepted(job.codecid - 1) /\ job.codecid - 1 \in Int
      BY <1>0, <2>2 DEF Accepted
    <3> QED BY <1>0, <2>1, <2>2, <3>1, ReturnPreserves
  <2>3. CASE ~(job.codecid - 1 < -GiveUp) /\ GoOn(job.codecid - 1, FALSE)
    <3>1. /\ job.codecid - 1 \in Int
          /\ job.codecid - 1 >= -GiveUp /\ job.codecid - 1 <= -10
      BY <1>0, <2>3
    <3> QED BY <1>4, <2>1, <2>3, <3>1
  <2> QED BY <1>6, <2>2, <2>3 DEF Skip
<1> QED BY <1>1, <1>2, <1>3, <1>5, <1>6

---------------------------------------------------------------------------
(* The inductive invariant of the native calls.                            *)
THEOREM Invariance == Spec => []IInv
<1>1. ASSUME IInv, [Next]_vars PROVE IInv'
  <2>1. CASE Open
    BY <1>1, <2>1, OpenPreserves
  <2>2. CASE Close
    BY <1>1, <2>2, ClosePreserves
  <2>3. CASE \E call \in ChecksContext \cup ChecksTooLate : Query(call)
    BY <1>1, <2>3, QueryPreserves
  <2>4. CASE \E s \in Streams \cup {0} : GetFramePictureAt(s)
    BY <1>1, <2>4, PicturePreserves
  <2>5. CASE Work
    BY <1>1, <2>5, OpeningPreserves, InfoPreserves, ReadPreserves, LookPreserves DEF Work
  <2>6. CASE UNCHANGED vars
    BY <1>1, <2>6 DEF IInv, Quiet, ToldOfContext, JobOK, FaultIsTheEnd, AcceptedMeansSaved,
       Accepted, vars, demux, decoder, picture
  <2> QED BY <1>1, <2>1, <2>2, <2>3, <2>4, <2>5, <2>6 DEF Next
<1> QED BY InitHolds, <1>1, PTL DEF Spec

(* No call of a client that keeps to "Open succeeded, then Close" uses a   *)
(* format context that was freed or never set.                             *)
THEOREM OnlyMisuseFaults == Spec => []FaultsAreMisuse
<1>1. IInv => FaultsAreMisuse
  BY DEF IInv, FaultIsTheEnd, FaultsAreMisuse
<1> QED BY Invariance, <1>1, PTL

(* The test of ffmpegjni.java:48-50 is right for every value of the limit  *)
(* above 10.                                                               *)
THEOREM TestTellsPicture == Spec => []AcceptedMeansSaved
<1>1. IInv => AcceptedMeansSaved
  BY DEF IInv
<1> QED BY Invariance, <1>1, PTL

---------------------------------------------------------------------------
(* What the calls do to the container they read.                           *)

LEMMA Moves ==
    ASSUME [Next]_vars
    PROVE  \/ UNCHANGED demux
           \/ op # "scan" /\ CloseFile
           \/ \E f \in Files : OpenFile(f)
           \/ Step
           \/ ReadFrame
BY DEF Next, Work, Open, Close, Faults, Query, GetFramePictureAt, OpenInputFile, OpenInputFails,
       Idle, StreamInfoFails, InfoFails, Read, NextFrame, ReadFails, SkipOther, Decode, Skip,
       vars

(* The container is in order, whatever the client calls.                   *)
THEOREM ContainerInvariance == Spec => []DemuxInv
<1>1. Init => DemuxInv
    BY InitInv DEF Init
<1>2. ASSUME DemuxInv, [Next]_vars PROVE DemuxInv'
    BY <1>2, Moves, StutterInv, CloseInv, OpenInv, StepInv, ReadFrameInv
<1> QED BY <1>1, <1>2, PTL DEF Spec

(* However the packets of the streams are mixed and however large they     *)
(* are: raw_packet_buffer_remaining_size is what it should be, and the     *)
(* buffer never exceeds its size by a whole packet (utils.c:569-578).      *)
THEOREM BufferIsBounded == Spec => []RawBufferBounded
<1>1. DemuxInv => RawBufferBounded
    BY DEF DemuxInv
<1> QED BY ContainerInvariance, <1>1, PTL

---------------------------------------------------------------------------
(* The types of the native side.                                           *)

Jobs == [stream : Streams \cup {0}, pc : {"none", "read", "look"},
         codecid : Int, capturenow : BOOLEAN]

CallsOK ==
    /\ opened \subseteq Decodable
    /\ job \in Jobs
    /\ told \in {"nothing", "failed", "succeeded", "closed"}
    /\ saved \in BOOLEAN
    /\ returned \in Int
    /\ fault \in {"none", "Close", "GetFramePictureAt"} \cup ChecksContext \cup ChecksTooLate

LEMMA NoJobType == NoJob \in Jobs
BY DEF NoJob, Jobs

LEMMA NothingReturned == 0 \in Int /\ FALSE \in BOOLEAN
OBVIOUS

LEMMA CallsPreserve == ASSUME CallsOK, [Next]_vars PROVE CallsOK'
<1> USE NoJobType DEF CallsOK, picture
<1>1. CASE Open \/ Close
    <2>1. /\ opened' = opened \/ opened' = {}
          /\ told' \in {told, "closed"} /\ fault' \in {fault, "Close"} /\ job' = job
          /\ UNCHANGED <<saved, returned>> \/ (saved' = FALSE /\ returned' = 0)
        BY <1>1 DEF Open, Close, Faults, NoPicture
    <2> QED BY <2>1, NothingReturned, Zenon
<1>2. CASE \E call \in ChecksContext \cup ChecksTooLate : Query(call)
    BY <1>2 DEF Query, Faults
<1>3. CASE \E s \in Streams \cup {0} : GetFramePictureAt(s)
    <2>1. PICK s \in Streams \cup {0} : GetFramePictureAt(s)
        BY <1>3
    <2>2. CASE Faults("GetFramePictureAt")
        BY <2>2 DEF Faults
    <2>3. CASE \E c \in {0, -1, -2, -4, 1} : Return(c, FALSE) /\ UNCHANGED <<told, fault>>
               /\ opened' \subseteq Decodable
        <3>1. PICK c \in {0, -1, -2, -4, 1} : Return(c, FALSE)
            BY <2>3
        <3>2. c \in Int
            BY <3>1
        <3> QED BY <2>3, <3>1, <3>2 DEF Return
    <2>4. CASE /\ s \in Decodable /\ opened' = opened \cup {s} /\ NoPicture
               /\ job' = [NoJob EXCEPT !.stream = s, !.pc = "read", !.codecid = -10]
               /\ UNCHANGED <<told, fault>>
        <3>1. job' \in Jobs
            <4>1. job' = [stream |-> s, pc |-> "read", codecid |-> -10, capturenow |-> FALSE]
                BY <2>4 DEF NoJob
            <4>2. -10 \in Int
                OBVIOUS
            <4> QED BY <2>1, <4>1, <4>2 DEF Jobs
        <3>2. opened' \subseteq Decodable
            BY <2>4
        <3>3. saved' = FALSE /\ returned' = 0
            BY <2>4 DEF NoPicture
        <3> QED BY <2>4, <3>1, <3>2, <3>3, NothingReturned, Zenon
    <2> QED BY <2>1, <2>2, <2>3, <2>4 DEF GetFramePictureAt, OpenCodec
<1>4. CASE (\E f \in Files : OpenInputFile(f)) \/ OpenInputFails \/ StreamInfoFails \/ Read
    BY <1>4 DEF OpenInputFile, OpenInputFails, StreamInfoFails, Read
<1>5. CASE NextFrame \/ SkipOther
    <2>1. job' \in Jobs
        BY <1>5 DEF NextFrame, SkipOther, Jobs
    <2> QED BY <1>5, <2>1 DEF NextFrame, SkipOther
<1>6. ASSUME NEW c \in Int, NEW b \in BOOLEAN, Return(c, b) \/ GoOn(c, b),
             UNCHANGED <<opened, told, fault>>
      PROVE  CallsOK'
    <2>1. CASE Return(c, b)
        BY <1>6, <2>1 DEF Return
    <2>2. CASE GoOn(c, b)
        <3>1. job' \in Jobs
            BY <2>2 DEF GoOn, Jobs
        <3> QED BY <1>6, <2>2, <3>1 DEF GoOn
    <2> QED BY <1>6, <2>1, <2>2
<1>7. CASE ReadFails \/ Decode \/ Skip
    <2>1. job.codecid \in Int /\ job.codecid - 1 \in Int /\ {-5, -6, -7} \subseteq Int
          /\ UNCHANGED <<opened, told, fault>>
        <3>1. job.codecid \in Int
            BY DEF Jobs
        <3>2. UNCHANGED <<opened, told, fault>>
            BY <1>7 DEF ReadFails, Decode, Skip
        <3> QED BY <3>1, <3>2
    <2>2. \E c \in Int, b \in BOOLEAN : Return(c, b) \/ GoOn(c, b)
        BY <1>7, <2>1 DEF ReadFails, Decode, Skip
    <2> QED BY <1>6, <2>1, <2>2
<1>8. CASE UNCHANGED vars
    BY <1>8 DEF vars, decoder
<1> QED BY <1>1, <1>2, <1>3, <1>4, <1>5, <1>7, <1>8 DEF Next, Work

(* Every variable keeps its type, those of the container among them; and   *)
(* the counter of GetFramePictureAt its range.                             *)
THEOREM TypeCorrect == Spec => []TypeOK
<1>1. Init => CallsOK
    <2> SUFFICES ASSUME Init PROVE CallsOK
        OBVIOUS
    <2>1. opened = {} /\ job = NoJob /\ told = "nothing" /\ saved = FALSE /\ returned = 0
          /\ fault = "none"
        BY DEF Init
    <2> QED BY <2>1, NoJobType, NothingReturned, Zenon DEF CallsOK
<1>2. Spec => []CallsOK
    BY <1>1, CallsPreserve, PTL DEF Spec
<1>3. DemuxInv /\ IInv /\ CallsOK => TypeOK
    <2> SUFFICES ASSUME DemuxInv, IInv, CallsOK PROVE TypeOK
        OBVIOUS
    <2>1. job.codecid \in {0} \cup -GiveUp..-10
        <3>1. CASE job = NoJob
            BY <3>1 DEF NoJob
        <3>2. CASE job # NoJob
            BY <3>2, GiveUpAssumption DEF IInv, JobOK
        <3> QED BY <3>1, <3>2
    <2>2. job \in [stream : Streams \cup {0}, pc : {"none", "read", "look"},
                   codecid : {0} \cup -GiveUp..-10, capturenow : BOOLEAN]
        BY <2>1 DEF CallsOK, Jobs
    <2> QED BY <2>2 DEF TypeOK, CallsOK, DemuxInv, IInv, ToldOfContext
<1> QED BY ContainerInvariance, Invariance, <1>2, <1>3, PTL

---------------------------------------------------------------------------
(* The data of the streams.                                                *)

LEMMA CleanSteps == ASSUME [CleanRewind]_vars PROVE CleanRewind
BY DEF CleanRewind, vars, demux

(* If nothing is held back when the scan of an MPEG file ends: what the    *)
(* parsers, the two queues and the current packet hold and what the file   *)
(* still has, one after the other, is what was not returned yet.  So       *)
(* av_find_stream_info keeps the position (avformat.h:933).                *)
THEOREM PositionIsKept == Spec /\ [][CleanRewind]_vars => []PositionKept
<1>1. Init => PositionKept
    BY InitKept DEF Init
<1>2. ASSUME DemuxInv, PositionKept, [Next]_vars, [CleanRewind]_vars
      PROVE  PositionKept'
    BY <1>2, CleanSteps, Moves, StutterKept, CloseKept, OpenKept, StepKept, ReadFrameKept
<1> QED BY ContainerInvariance, <1>1, <1>2, PTL DEF Spec

(* Then every step of libavformat is one of PacketSource, or none: each    *)
(* byte is returned once, in the order of the file, and the end is         *)
(* reported when nothing is left.                                          *)
THEOREM SourceIsImplemented == Spec /\ [][CleanRewind]_vars => ImplementsSource
<1>1. Init => S!Init
    BY InitImplements DEF Init
<1>2. ASSUME DemuxInv, PositionKept, DemuxInv', PositionKept', [Next]_vars
      PROVE  S!Next \/ UNCHANGED S!vars
    <2>1. CASE UNCHANGED demux
        BY <2>1, Stutters DEF demux, source
    <2>2. CASE CloseFile
        BY <2>2, CloseImplements DEF S!Next
    <2>3. CASE \E f \in Files : OpenFile(f)
        BY <1>2, <2>3, OpenImplements DEF S!Next
    <2> QED BY <1>2, <2>1, <2>2, <2>3, Moves, StepImplements, ReadFrameImplements
<1>3. Spec /\ [][CleanRewind]_vars => S!Spec
    BY ContainerInvariance, PositionIsKept, <1>1, <1>2, PTL DEF Spec, S!Spec
<1> QED BY <1>3 DEF ImplementsSource

(* Nothing is held back then if every stream of an MPEG file is known when *)
(* it is opened.                                                           *)
THEOREM KnownStreamsRewindCleanly ==
    ASSUME NoneProbedInMPEG
    PROVE  Spec => [][CleanRewind]_vars
<1>1. Init => ScansDirectly
    BY DEF Init, DemuxInit, ScansDirectly
<1>2. ASSUME DemuxInv, ScansDirectly, [Next]_vars PROVE ScansDirectly'
    <2>1. CASE UNCHANGED demux
        BY <1>2, <2>1 DEF demux, probe, ScansDirectly
    <2>2. CASE Step
        BY <1>2, <2>2, StepScans
    <2>3. CASE CloseFile \/ ReadFrame \/ \E f \in Files : OpenFile(f)
        BY <1>2, <2>3 DEF CloseFile, ReadFrame, OpenFile, ScansDirectly
    <2> QED BY <1>2, <2>1, <2>2, <2>3, Moves
<1>3. ASSUME DemuxInv, ScansDirectly, [Next]_vars PROVE [CleanRewind]_vars
    <2>1. CASE op = "scan" /\ op' # "scan" /\ at = "flush"
        <3>1. CASE Step
            BY <1>3, <2>1, <3>1, ScanSteps DEF ScanFlush, BeginPass
        <3>2. CASE UNCHANGED demux \/ ReadFrame \/ \E f \in Files : OpenFile(f)
            BY <2>1, <3>2 DEF ReadFrame, OpenFile, demux
        <3> QED BY <1>3, <2>1, <3>1, <3>2, Moves
    <2> QED BY <1>3, <2>1 DEF CleanRewind, ScansDirectly
<1> QED BY ContainerInvariance, <1>1, <1>2, <1>3, PTL DEF Spec
=============================================================================
