------------------------------ MODULE MCControl ------------------------------
(* A TLC instance of Control: an action with inputs and outputs as they     *)
(* come in SetAVTransportURI and GetPositionInfo, and one with an input.    *)
EXTENDS Control

CONSTANTS Set, Play, URI, MetaData, Track, Speed

MCIn == (Set :> <<URI, MetaData>>) @@ (Play :> <<Speed>>)
MCOut == (Set :> <<Track>>) @@ (Play :> <<>>)
Symmetry == Permutations(Threads) \cup Permutations(Hosts)
=============================================================================
