--------------------------- MODULE MCDesktopLease ---------------------------
(* DesktopLease on small instances.  No symmetry: it is not sound for the   *)
(* liveness of a single request.                                           *)
EXTENDS DesktopLease
=============================================================================
