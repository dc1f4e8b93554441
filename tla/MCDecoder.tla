------------------------------ MODULE MCDecoder ------------------------------
(* TLC instances of Decoder: stream 1 is a video stream, 2 is not. *)
EXTENDS Decoder

P(s, size) == [stream |-> s, size |-> size]

Containers(packets, probed, mpeg) ==
    [packets : packets, probed : probed, parsed : {{1}, Streams}, mpeg : mpeg]

MCPackets ==
    { <<P(2, 1), P(1, 2), P(1, 1), P(2, 1)>>,
      <<P(1, 1), P(1, 1), P(2, 1), P(1, 1), P(2, 1)>> }

(* MPEG files are read from their end first.  In those whose streams are   *)
(* not all known by then, that can go wrong: MCScanned; not so if they are *)
(* so short that one pass reads them.                                      *)
MCFiles ==
    Containers(MCPackets, SUBSET Streams, {FALSE})
        \cup Containers(MCPackets, {{}}, {TRUE})
        \cup Containers({<<P(1, 1)>>}, {{1}}, {TRUE})

MCScanned == Containers({<<P(2, 3), P(1, 1)>>}, {{2}}, {TRUE})
=============================================================================
