---------------------------- MODULE SingleFlight ----------------------------
(***************************************************************************)
(* What a bounded worker promises its owner, with no threads, channels,    *)
(* epochs or clocks: at most one job exists at a time; a question is       *)
(* answered with the value of that very job or with an error; an owner     *)
(* that gives up leaves the job behind, and until that job is gone every   *)
(* new question is refused.                                                *)
(***************************************************************************)
CONSTANTS Jobs, Errors, None

VARIABLES asked,       \* the question the owner is blocked on, or None
          outstanding, \* the job that has been started and not yet retired
          broken,      \* a job was lost: nothing is ever started again
          answer       \* the last thing the owner was told

vars == <<asked, outstanding, broken, answer>>

Init == asked = None /\ outstanding = None /\ broken = FALSE /\ answer = None

Reply(j, v) == [asked |-> j, got |-> v]

Ask(j) ==
  /\ asked = None
  /\ outstanding = None
  /\ ~broken
  /\ asked' = j
  /\ outstanding' = j
  /\ answer' = None
  /\ UNCHANGED broken

Refuse(j) ==
  /\ asked = None
  /\ outstanding # None \/ broken
  /\ \E e \in Errors : answer' = Reply(j, e)
  /\ UNCHANGED <<asked, outstanding, broken>>

Serve ==
  /\ asked # None
  /\ outstanding = asked
  /\ answer' = Reply(asked, outstanding)
  /\ asked' = None
  /\ outstanding' = None
  /\ UNCHANGED broken

GiveUp ==
  /\ asked # None
  /\ \E e \in Errors : answer' = Reply(asked, e)
  /\ asked' = None
  /\ UNCHANGED <<outstanding, broken>>

Retire ==
  /\ asked = None
  /\ outstanding # None
  /\ outstanding' = None
  /\ UNCHANGED <<asked, broken, answer>>

\* The abandoned job is retired and its successor started in one call.
Replace(j) ==
  /\ asked = None
  /\ outstanding # None
  /\ asked' = j
  /\ outstanding' = j
  /\ answer' = None
  /\ UNCHANGED broken

Lose ==
  /\ outstanding # None
  /\ outstanding' = None
  /\ broken' = TRUE
  /\ UNCHANGED <<asked, answer>>

Next ==
  \/ \E j \in Jobs : Ask(j) \/ Refuse(j) \/ Replace(j)
  \/ Serve \/ GiveUp \/ Retire \/ Lose

Spec == Init /\ [][Next]_vars
=============================================================================
