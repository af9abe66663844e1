-------------------------- MODULE ConflatingChannel --------------------------
(***************************************************************************)
(* What the JPEG gate promises (docs/eutherbrowse-low-latency-slice.md:19, *)
(* "Gate retains at most one pending JPEG and replaces it whenever a newer *)
(* capture arrives"): frames are handed over one at a time, each hand-over *)
(* takes the newest frame there is, and every frame in between is dropped. *)
(* FrameGate implements it.                                                *)
(***************************************************************************)
EXTENDS Naturals

VARIABLES
  newest,  \* number of the newest frame
  taken,   \* number of the last frame handed over
  busy     \* that frame is not acknowledged yet

vars == <<newest, taken, busy>>

Init ==
  /\ newest = 0
  /\ taken = 0
  /\ busy = FALSE

Publish ==
  /\ newest' = newest + 1
  /\ UNCHANGED <<taken, busy>>

Take ==
  /\ ~busy
  /\ taken < newest
  /\ taken' = newest
  /\ busy' = TRUE
  /\ UNCHANGED newest

Acknowledge ==
  /\ busy
  /\ busy' = FALSE
  /\ UNCHANGED <<newest, taken>>

Next == Publish \/ Take \/ Acknowledge

Spec == Init /\ [][Next]_vars
=============================================================================
