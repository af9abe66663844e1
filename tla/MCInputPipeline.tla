-------------------------- MODULE MCInputPipeline --------------------------
(* InputPipeline on small instances. *)
EXTENDS InputPipeline

ForgeBrowser == [bridge |-> "wss", backend |-> "sway", locks |-> FALSE]
HyprlandDesktop == [bridge |-> "webrtc", backend |-> "hyprland", locks |-> TRUE]
ForgeDesktop == [bridge |-> "webrtc", backend |-> "sway", locks |-> TRUE]

BrowserAndDesktops == {ForgeBrowser, HyprlandDesktop, ForgeDesktop}
=============================================================================
