----------------------------- MODULE MCRenderer -----------------------------
(* TLC instances of Renderer. *)
EXTENDS Renderer

CONSTANTS mp4, mkv, avi, jpg, png

(* An image and a video; an unsupported video and a supported one;         *)
(* nothing but an unsupported one; a duration without a fraction; a URL    *)
(* without a port.                                                         *)
MCOffers ==
    { <<[url |-> jpg, duration |-> "none"], [url |-> mp4, duration |-> "fraction"]>>,
      <<[url |-> avi, duration |-> "none"], [url |-> mkv, duration |-> "none"],
        [url |-> jpg, duration |-> "none"]>>,
      <<[url |-> avi, duration |-> "fraction"]>>,
      <<[url |-> mp4, duration |-> "nofraction"]>>,
      <<[url |-> png, duration |-> "none"], [url |-> mp4, duration |-> "none"]>> }

(* Where two requests race, two offers are enough. *)
MCTwoOffers ==
    { <<[url |-> avi, duration |-> "none"], [url |-> mp4, duration |-> "none"]>>,
      <<[url |-> mkv, duration |-> "none"]>> }

Symmetry == Permutations(Threads)
=============================================================================
