-------------------------- MODULE MCDesktopBridges --------------------------
(* DesktopBridges on a small instance. *)
EXTENDS DesktopBridges
=============================================================================
