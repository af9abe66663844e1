---------------------------- MODULE MCFrameGate ----------------------------
(* FrameGate on small instances. *)
EXTENDS FrameGate
=============================================================================
