-------------------------- MODULE MCTerminalSessions --------------------------
(* TerminalSessions on small instances. *)
EXTENDS TerminalSessions, TLC

Symmetry == Permutations(Requests) \cup Permutations(Attachments)
=============================================================================
