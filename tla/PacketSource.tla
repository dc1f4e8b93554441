---------------------------- MODULE PacketSource ----------------------------
(***************************************************************************)
(* What av_read_frame promises the reader of a container (avformat.h): the *)
(* next frame of some stream, each byte of each stream once and in the     *)
(* order of the file, and "end of file" only when there is nothing left.   *)
(***************************************************************************)
EXTENDS Integers, Sequences

CONSTANTS Streams,
          Pieces    \* the smallest pieces of data that a reader can tell apart

VARIABLES left,     \* what is still to be returned of each stream
          out,      \* the frames returned since the container was opened
          last      \* how the last call ended: frame, end, error, again; or none

vars == <<left, out, last>>

Nothing == [s \in Streams |-> <<>>]

Init == left = Nothing /\ out = <<>> /\ last = "none"

Open ==
    /\ left = Nothing
    /\ left' \in [Streams -> Seq(Pieces)]
    /\ out' = <<>>
    /\ last' = "none"

Close == left' = Nothing /\ out' = <<>> /\ last' = "none"

Call == last' = "none" /\ UNCHANGED <<left, out>>

Return(s, n) ==
    /\ left' = [left EXCEPT ![s] = SubSeq(@, n + 1, Len(@))]
    /\ out' = Append(out, [stream |-> s, units |-> SubSeq(left[s], 1, n)])
    /\ last' = "frame"

ReportEnd ==
    /\ left = Nothing
    /\ last' = "end"
    /\ UNCHANGED <<left, out>>

(* Nothing to read yet, or it cannot be read: the caller may try again. *)
ReportAgain == last' \in {"again", "error"} /\ UNCHANGED <<left, out>>

Next ==
    \/ Open
    \/ Close
    \/ Call
    \/ \E s \in Streams : \E n \in 1..Len(left[s]) : Return(s, n)
    \/ ReportEnd
    \/ ReportAgain

Spec == Init /\ [][Next]_vars
=============================================================================
