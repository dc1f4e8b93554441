----------------------------- MODULE MCEventing -----------------------------
(* TLC instances of Eventing. *)
EXTENDS Eventing

CONSTANTS LastChange, TransportState

(* AVTransport: LastChange is evented, TransportState and the rest are not. *)
MCOneVar == <<LastChange>>
MCTable == <<TransportState, LastChange>>
Symmetry == Permutations(Threads) \cup Permutations(Subs \ Portless)
MCLeases == {0, INFINITE}
MCForever == {INFINITE}
=============================================================================
