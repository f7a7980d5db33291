---------------------------- MODULE MCNavigation ----------------------------
(***************************************************************************)
(* A small instance of Navigation for TLC: three Spaces on one display,    *)
(* on which a burst of steps goes far enough to chain, and one on another. *)
(***************************************************************************)
EXTENDS Navigation

MCStrip == [d \in Displays |-> IF d = 1 THEN <<11, 12, 13>> ELSE <<21>>]
=============================================================================
