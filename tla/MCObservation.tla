--------------------------- MODULE MCObservation ---------------------------
(***************************************************************************)
(* A small instance of Observation for TLC: one application with two       *)
(* windows or a window and a surface, another with one window.             *)
(***************************************************************************)
EXTENDS Observation

CONSTANTS a, b

MCApps  == {a, b}
MCOwner == [w \in Windows |-> IF w = 3 THEN b ELSE a]
=============================================================================
