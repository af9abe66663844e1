--------------------------- MODULE MCTerminalRelay ---------------------------
(* TerminalRelay on small instances. *)
EXTENDS TerminalRelay
=============================================================================
