---------------------------- MODULE SingleViewer ----------------------------
(***************************************************************************)
(* What the desktop viewer lease promises (docs/architecture.md:85, "One   *)
(* viewer is permitted at a time"): a viewer takes the lease only when it  *)
(* is free, starts at most one capture helper while it holds it, and gives *)
(* it back only after that helper is gone.  DesktopLease implements it.    *)
(***************************************************************************)
CONSTANTS Viewers, Nobody

VARIABLES
  holder,  \* the viewer that holds the lease, or Nobody
  phase    \* how far the holder is with its one capture helper

vars == <<holder, phase>>

Phases == {"free", "held", "capturing", "done"}

Init ==
  /\ holder = Nobody
  /\ phase = "free"

Acquire(v) ==
  /\ phase = "free"
  /\ phase' = "held"
  /\ holder' = v

Spawn ==
  /\ phase = "held"
  /\ phase' = "capturing"
  /\ UNCHANGED holder

Finish ==
  /\ phase \in {"held", "capturing"}
  /\ phase' = "done"
  /\ UNCHANGED holder

Release ==
  /\ phase = "done"
  /\ phase' = "free"
  /\ holder' = Nobody

\* The gateway process and its helpers end together.
Crash ==
  /\ phase' = "free"
  /\ holder' = Nobody

Next ==
  \/ \E v \in Viewers : Acquire(v)
  \/ Spawn
  \/ Finish
  \/ Release
  \/ Crash

Spec == Init /\ [][Next]_vars
=============================================================================
