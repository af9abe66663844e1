--------------------------- MODULE MCBrowserWindows ---------------------------
(* BrowserWindows on small instances. *)
EXTENDS BrowserWindows, TLC

Symmetry == Permutations(Requests)
=============================================================================
