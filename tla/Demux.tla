-------------------------------- MODULE Demux --------------------------------
(***************************************************************************)
(* How libavformat/utils.c reads a container: av_find_stream_info, which   *)
(* looks ahead to learn what the streams are, and av_read_frame.           *)
(*                                                                         *)
(* A packet may wait in three places before the caller sees it.  While a   *)
(* stream's codec is still being guessed from its data, av_read_packet     *)
(* keeps its packets, and all that follow, in raw_packet_buffer.  The      *)
(* parser of a stream collects the data of packets until it has a frame.   *)
(* And what av_find_stream_info read ahead waits in packet_buffer.         *)
(*                                                                         *)
(* For MPEG files it also looks for the last timestamp: it throws away     *)
(* what it has, reads the end of the file, and starts again.               *)
(*                                                                         *)
(* One loop iteration of one of these functions is one step; "op" is the   *)
(* call from outside, "at" the function it has reached.  The flags GENPTS  *)
(* and the discarding of streams are off, as they are in the application.  *)
(***************************************************************************)
EXTENDS Integers, SequencesExt

CONSTANTS
    Streams,          \* stream numbers, from 1
    Files,            \* containers: packets, probed and parsed streams, MPEG or not
    MaxProbePackets,  \* MAX_PROBE_PACKETS
    RawBufferSize,    \* RAW_PACKET_BUFFER_SIZE
    ScanSize,         \* DURATION_MAX_READ_SIZE
    ScanRetries,      \* DURATION_MAX_RETRY
    MaxAgain          \* bound: how often a file cannot be read before its end

ASSUME StreamsAssumption == Streams \subseteq Nat \ {0}
ASSUME FilesAssumption ==
    \A f \in Files :
        /\ f.packets \in Seq([stream : Streams, size : Nat \ {0}])
        /\ f.probed \subseteq Streams /\ f.parsed \subseteq Streams
        /\ f.mpeg \in BOOLEAN
ASSUME NumbersAssumption ==
    /\ MaxProbePackets \in Nat \ {0}
    /\ RawBufferSize \in Nat \ {0}
    /\ ScanSize \in Nat \ {0}
    /\ ScanRetries \in Nat
    /\ MaxAgain \in Nat

NoFile == [packets |-> <<>>, probed |-> {}, parsed |-> {}, mpeg |-> FALSE]

VARIABLES
    file,          \* the container being read, NoFile when none is open
    pos,           \* the packet the demuxer reads next
    op,            \* "closed", "idle", or the call: "info", "scan" (part of it), "frame"
    at,            \* "top" of that call, av_read_frame_"internal", av_read_"packet"
    raw,           \* raw_packet_buffer
    room,          \* raw_packet_buffer_remaining_size
    probing,       \* streams whose codec_id is CODEC_ID_PROBE
    probePackets,  \* AVStream.probe_packets
    parsing,       \* streams with need_parsing
    parsers,       \* ... that have a parser
    pending,       \* what the parser of a stream has not made a frame of yet
    cur,           \* cur_st, and what is left of its cur_pkt
    buffer,        \* packet_buffer
    scan,          \* av_estimate_timings_from_pts: its retry and read_size
    out,           \* history: the frames av_read_frame has returned
    result,        \* how its last call ended
    again          \* how often the file could not be read before its end

source == <<file, pos, again>>
probe == <<raw, room, probing, probePackets>>
parse == <<parsing, parsers, pending, cur>>
answer == <<out, result>>
demux == <<source, op, at, probe, parse, buffer, scan, answer>>

NoCur == [stream |-> 0, rest |-> <<>>]
NoScan == [retry |-> 0, read |-> 0]

Packet(i) == file.packets[i]

(* The bytes of packet i, and those of stream s in it. *)
Units(i) == [k \in 1..Packet(i).size |-> <<i, k>>]
Data(i, s) == IF Packet(i).stream = s THEN Units(i) ELSE <<>>

DemuxInit ==
    /\ file = NoFile
    /\ pos = 1
    /\ op = "closed"
    /\ at = "top"
    /\ raw = <<>>
    /\ room = RawBufferSize
    /\ probing = {}
    /\ probePackets = [s \in Streams |-> MaxProbePackets]
    /\ parsing = {}
    /\ parsers = {}
    /\ pending = [s \in Streams |-> <<>>]
    /\ cur = NoCur
    /\ buffer = <<>>
    /\ scan = NoScan
    /\ out = <<>>
    /\ result = "none"
    /\ again = 0

---------------------------------------------------------------------------
(* Opening and closing.                                                    *)

(* av_open_input_file succeeds, and av_find_stream_info begins. *)
OpenFile(f) ==
    /\ op = "closed"
    /\ file' = f
    /\ op' = "info"
    /\ at' = "top"
    /\ probing' = f.probed
    /\ probePackets' = [s \in Streams |-> MaxProbePackets]
    /\ parsing' = f.parsed
    /\ parsers' = f.parsed \ f.probed
    /\ UNCHANGED <<pos, again, raw, room, pending, cur, buffer, scan, answer>>

(* av_close_input_file *)
CloseFile ==
    /\ file' = NoFile
    /\ pos' = 1
    /\ op' = "closed"
    /\ at' = "top"
    /\ raw' = <<>>
    /\ room' = RawBufferSize
    /\ probing' = {}
    /\ probePackets' = [s \in Streams |-> MaxProbePackets]
    /\ parsing' = {}
    /\ parsers' = {}
    /\ pending' = [s \in Streams |-> <<>>]
    /\ cur' = NoCur
    /\ buffer' = <<>>
    /\ scan' = NoScan
    /\ out' = <<>>
    /\ result' = "none"
    /\ again' = 0

---------------------------------------------------------------------------
(* av_find_stream_info: what it learns about the streams is left out, so   *)
(* it may stop whenever the code may.                                      *)

InfoReads ==
    /\ op = "info" /\ at = "top"
    /\ at' = "internal"
    /\ UNCHANGED <<source, op, probe, parse, buffer, scan, answer>>

InfoEnds ==
    /\ op = "info" /\ at \in {"top", "eof"}
    /\ op' = IF file.mpeg THEN "scan" ELSE "idle"
    /\ at' = IF file.mpeg THEN "flush" ELSE "top"
    /\ UNCHANGED <<source, probe, parse, buffer, scan, answer>>

(* The end of the file, or an error, came before the parameters of any     *)
(* stream; the caller closes the file.                                     *)
InfoFails ==
    /\ op = "info" /\ at = "eof"
    /\ CloseFile

---------------------------------------------------------------------------
(* av_estimate_timings_from_pts                                            *)

(* Where packet n ends in the file; packets have headers. *)
Bytes(n) == n + Len(FlattenSeq([i \in 1..n |-> Units(i)]))
FileSize == Bytes(Len(file.packets))

Limit(n) == ScanSize * 2 ^ n

(* url_fseek; the demuxer goes on with the first whole packet. *)
SeekTo(offset) ==
    pos' = Min({Len(file.packets) + 1} \cup
               {i \in 1..Len(file.packets) : Bytes(i - 1) >= offset})

BeginPass(retry) ==
    /\ scan' = [retry |-> retry, read |-> 0]
    /\ at' = "top"
    /\ SeekTo(FileSize - Limit(retry))
    /\ UNCHANGED op

Rewind ==
    /\ scan' = NoScan
    /\ op' = "idle"
    /\ at' = "top"
    /\ SeekTo(0)

(* The pass found a timestamp, or another one starts further ahead. *)
EndPass ==
    \/ /\ scan.read > 0
       /\ Rewind
    \/ IF FileSize > Limit(scan.retry) /\ scan.retry < ScanRetries
          THEN BeginPass(scan.retry + 1)
          ELSE Rewind

(* flush_packet_queue, and away with the parsers. *)
ScanFlush ==
    /\ op = "scan" /\ at = "flush"
    /\ raw' = <<>>
    /\ room' = RawBufferSize
    /\ buffer' = <<>>
    /\ parsers' = {}
    /\ pending' = [s \in Streams |-> <<>>]
    /\ cur' = NoCur
    /\ BeginPass(0)
    /\ UNCHANGED <<file, again, probing, probePackets, parsing, answer>>

ScanReads ==
    /\ op = "scan" /\ at = "top"
    /\ scan.read < Limit(Max({scan.retry - 1, 0}))
    /\ at' = "packet"
    /\ UNCHANGED <<source, op, probe, parse, buffer, scan, answer>>

ScanHasReadEnough ==
    /\ op = "scan" /\ at = "top"
    /\ scan.read >= Limit(Max({scan.retry - 1, 0}))
    /\ EndPass
    /\ UNCHANGED <<file, again, probe, parse, buffer, answer>>

---------------------------------------------------------------------------
(* av_read_packet                                                          *)

(* Its packets are held back: the codec is not known yet. *)
Probed(s) == s \in probing /\ probePackets[s] # 0

(* A mistake: the size of the buffer is not looked at. *)
HeadIsKnown == raw # <<>> /\ ~Probed(Packet(raw[1]).stream)

HeadIsReady ==
    /\ raw # <<>>
    /\ ~Probed(Packet(raw[1]).stream) \/ room < Packet(raw[1]).size

(* It returns packet i; av_read_frame_internal makes it the current one.   *)
(* A parser is looked for once; none exists for an unknown codec.          *)
Hand(i) ==
    IF op = "scan"
      THEN /\ scan' = [scan EXCEPT !.read = @ + Packet(i).size]
           /\ at' = "top"
           /\ UNCHANGED parse
      ELSE /\ cur' = [stream |-> Packet(i).stream, rest |-> Units(i)]
           /\ at' = "internal"
           /\ LET new == ({Packet(i).stream} \cap parsing) \ parsers IN
                 /\ parsers' = parsers \cup (new \ probing)
                 /\ parsing' = parsing \ (new \cap probing)
           /\ UNCHANGED <<scan, pending>>

TakeBuffered ==
    /\ at = "packet"
    /\ HeadIsReady
    /\ raw' = Tail(raw)
    /\ room' = room + Packet(raw[1]).size
    /\ Hand(raw[1])
    /\ UNCHANGED <<source, op, probing, probePackets, buffer, answer>>

ReadsPacket ==
    /\ at = "packet"
    /\ ~HeadIsReady
    /\ pos <= Len(file.packets)
    /\ pos' = pos + 1

(* A mistake: packets of a known stream overtake those that wait. *)
PassOnAtOnce ==
    /\ ReadsPacket
    /\ ~Probed(Packet(pos).stream)
    /\ Hand(pos)
    /\ UNCHANGED <<file, again, op, probe, buffer, answer>>

PassOn ==
    /\ ReadsPacket
    /\ raw = <<>> /\ ~Probed(Packet(pos).stream)
    /\ Hand(pos)
    /\ UNCHANGED <<file, again, op, probe, buffer, answer>>

(* set_codec_from_probe_data may recognise the codec.  The count may pass 0 *)
(* while another stream's packets wait, and then ends nothing any more.    *)
HoldBack ==
    /\ ReadsPacket
    /\ raw # <<>> \/ Probed(Packet(pos).stream)
    /\ raw' = Append(raw, pos)
    /\ room' = room - Packet(pos).size
    /\ LET s == Packet(pos).stream IN
         IF s \in probing
           THEN /\ probePackets' = [probePackets EXCEPT ![s] = @ - 1]
                /\ probing' \in {probing, probing \ {s}}
           ELSE UNCHANGED <<probing, probePackets>>
    /\ UNCHANGED <<file, again, op, at, parse, buffer, scan, answer>>

(* read_packet fails, not by EAGAIN: at the end of the file, or before it, *)
(* where the reader stays at the packet that it could not read.            *)
PacketFails ==
    /\ at = "packet"
    /\ ~HeadIsReady
    /\ \/ /\ pos > Len(file.packets)
          /\ UNCHANGED again
       \/ /\ pos <= Len(file.packets)
          /\ again < MaxAgain
          /\ again' = again + 1

(* A mistake: the probing does not end. *)
TryAgain ==
    /\ at = "packet"
    /\ ~HeadIsReady
    /\ raw # <<>>
    /\ pos > Len(file.packets)
    /\ UNCHANGED demux

(* An error other than EAGAIN ends the probing of every stream. *)
GiveUpProbing ==
    /\ PacketFails
    /\ raw # <<>>
    /\ probePackets' = [s \in Streams |-> 0]
    /\ UNCHANGED <<file, pos, op, at, raw, room, probing, parse, buffer, scan, answer>>

---------------------------------------------------------------------------
(* av_read_frame_internal and av_read_frame                                *)

NoPacket ==
    /\ PacketFails
    /\ raw = <<>>

(* av_read_frame_internal returns a frame ... *)
GiveFrame(frame) ==
    /\ at' = "top"
    /\ \/ /\ op = "info"
          /\ buffer' = Append(buffer, frame)
          /\ UNCHANGED <<op, answer>>
       \/ /\ op = "frame"
          /\ op' = "idle"
          /\ out' = Append(out, frame)
          /\ result' = "frame"
          /\ UNCHANGED buffer

(* ... or an error. *)
GiveError(error) ==
    \/ /\ op = "info"
       /\ at' = IF error = "again" THEN "top" ELSE "eof"
       /\ UNCHANGED <<op, answer>>
    \/ /\ op = "frame"
       /\ op' = "idle"
       /\ at' = "top"
       /\ result' = error
       /\ UNCHANGED out

(* Then each parser gives what it still has, one stream per call. *)
FlushParser ==
    /\ NoPacket
    /\ op # "scan"
    /\ \E s \in parsing \cap parsers :
         /\ pending[s] # <<>>
         /\ \A u \in parsing \cap parsers : pending[u] # <<>> => s <= u
         /\ GiveFrame([stream |-> s, units |-> pending[s]])
         /\ pending' = [pending EXCEPT ![s] = <<>>]
    /\ UNCHANGED <<file, pos, probe, parsing, parsers, cur, scan>>

ReturnsError ==
    /\ NoPacket
    /\ \/ /\ op = "scan"
          /\ EndPass
          /\ UNCHANGED answer
       \/ /\ op # "scan"
          /\ \A s \in parsing \cap parsers : pending[s] = <<>>
          /\ GiveError(IF pos > Len(file.packets) THEN "end" ELSE "error")
          /\ UNCHANGED <<pos, scan>>
    /\ UNCHANGED <<file, probe, parse, buffer>>

(* The source has nothing yet: EAGAIN, also while packets are held back.   *)
NotReady ==
    /\ at = "packet"
    /\ ~HeadIsReady
    /\ again < MaxAgain
    /\ again' = again + 1
    /\ \/ /\ op = "scan"
          /\ UNCHANGED <<op, at, answer>>
       \/ GiveError("again")
    /\ UNCHANGED <<file, pos, probe, parse, buffer, scan>>

HasParser == cur.stream \in parsing \cap parsers

WantsPacket ==
    /\ at = "internal"
    /\ cur = NoCur
    /\ at' = "packet"
    /\ UNCHANGED <<source, op, probe, parse, buffer, scan, answer>>

AsItIs ==
    /\ at = "internal"
    /\ cur # NoCur /\ ~HasParser
    /\ GiveFrame([stream |-> cur.stream, units |-> cur.rest])
    /\ cur' = NoCur
    /\ UNCHANGED <<source, probe, parsing, parsers, pending, scan>>

(* av_parser_parse2 takes some of the data; it may have a frame then. *)
Parse ==
    /\ at = "internal"
    /\ HasParser /\ cur.rest # <<>>
    /\ \E n \in 0..Len(cur.rest) :
         LET taken == pending[cur.stream] \o SubSeq(cur.rest, 1, n) IN
         /\ cur' = [cur EXCEPT !.rest = SubSeq(@, n + 1, Len(@))]
         /\ \/ /\ n > 0
               /\ pending' = [pending EXCEPT ![cur.stream] = taken]
               /\ UNCHANGED <<op, at, buffer, answer>>
            \/ /\ taken # <<>>
               /\ pending' = [pending EXCEPT ![cur.stream] = <<>>]
               /\ GiveFrame([stream |-> cur.stream, units |-> taken])
    /\ UNCHANGED <<source, probe, parsing, parsers, scan>>

Parsed ==
    /\ at = "internal"
    /\ HasParser /\ cur.rest = <<>>
    /\ cur' = NoCur
    /\ UNCHANGED <<source, op, at, probe, parsing, parsers, pending, buffer, scan, answer>>

ReadFrame ==
    /\ op = "idle"
    /\ IF buffer # <<>>
         THEN /\ out' = Append(out, Head(buffer))
              /\ buffer' = Tail(buffer)
              /\ result' = "frame"
              /\ UNCHANGED <<op, at>>
         ELSE /\ op' = "frame"
              /\ at' = "internal"
              /\ result' = "none"
              /\ UNCHANGED <<out, buffer>>
    /\ UNCHANGED <<source, probe, parse, scan>>

---------------------------------------------------------------------------

(* What runs by itself once a call has been made. *)
Step ==
    \/ InfoReads \/ InfoEnds
    \/ ScanFlush \/ ScanReads \/ ScanHasReadEnough
    \/ TakeBuffered \/ PassOn \/ HoldBack \/ GiveUpProbing
    \/ FlushParser \/ ReturnsError \/ NotReady
    \/ WantsPacket \/ AsItIs \/ Parse \/ Parsed

---------------------------------------------------------------------------
(* Properties.                                                             *)

Frames == [stream : Streams, units : Seq(Nat \X Nat)]

(* Every variable holds a value of its type. *)
DemuxTypeOK ==
    /\ file \in Files \cup {NoFile}
    /\ pos \in 1..Len(file.packets) + 1
    /\ op \in {"closed", "idle", "info", "scan", "frame"}
    /\ at \in {"top", "eof", "flush", "internal", "packet"}
    /\ raw \in Seq(1..Len(file.packets))
    /\ room \in Int
    /\ probing \subseteq Streams
    /\ probePackets \in [Streams -> Int]
    /\ parsing \subseteq Streams /\ parsers \subseteq Streams
    /\ pending \in [Streams -> Seq(Nat \X Nat)]
    /\ cur \in [stream : Streams \cup {0}, rest : Seq(Nat \X Nat)]
    /\ buffer \in Seq(Frames)
    /\ scan \in [retry : 0..ScanRetries, read : Nat]
    /\ out \in Seq(Frames)
    /\ result \in {"none", "frame", "end", "error", "again"}
    /\ again \in 0..MaxAgain

(* raw_packet_buffer_remaining_size is right, and the buffer never exceeds *)
(* RAW_PACKET_BUFFER_SIZE by a whole packet.                               *)
RawBufferBounded ==
    /\ room = RawBufferSize - Len(FlattenSeq([k \in 1..Len(raw) |-> Units(raw[k])]))
    /\ raw # <<>> => room > - Packet(Last(raw)).size

(* The frames returned are the streams of the file. *)
DataOf(s, frames) ==
    FlattenSeq([k \in 1..Len(frames) |->
                  IF frames[k].stream = s THEN frames[k].units ELSE <<>>])

FileData(s) == FlattenSeq([k \in 1..Len(file.packets) |-> Data(k, s)])

(* What libavformat holds of a stream, in the order in which it comes out. *)
Current(s) == IF cur.stream = s THEN cur.rest ELSE <<>>
Held(s) == FlattenSeq([k \in 1..Len(raw) |-> Data(raw[k], s)])
Unread(s) ==
    FlattenSeq([k \in 1..(Len(file.packets) + 1 - pos) |-> Data(pos + k - 1, s)])

Ahead(s) ==
    DataOf(s, buffer) \o (pending[s] \o Current(s)) \o (Held(s) \o Unread(s))

(* avformat.h:933 of av_find_stream_info, "The logical file position is    *)
(* not changed by this function; examined packets may be buffered": what   *)
(* it read ahead comes first, and each byte once.                          *)
PositionKept ==
    op # "scan" => \A s \in Streams : DataOf(s, out) \o Ahead(s) = FileData(s)

S == INSTANCE PacketSource WITH
        Pieces <- Nat \X Nat,
        left <- [s \in Streams |->
                   SubSeq(FileData(s), Len(DataOf(s, out)) + 1, Len(FileData(s)))],
        last <- result

(* The container is read as PacketSource promises. *)
ImplementsSource == S!Spec
=============================================================================
