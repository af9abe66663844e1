--------------------------- MODULE DesktopBridges ---------------------------
(***************************************************************************)
(* The two bridge tasks that DesktopLease takes as one step: the WebRTC    *)
(* signalling bridge (desktop_socket) and the VNC bridge                   *)
(* (desktop_vnc_socket).  Every await of a task is a place where it can    *)
(* stand still while its client, its helper or the rest of the gateway     *)
(* moves: the wake of the output, the four seconds WayVNC has to create    *)
(* its socket, a send to the client, a write to the helper, the two        *)
(* seconds at the end; then the locals are dropped in reverse order.       *)
(*                                                                         *)
(* The requests and the outputs are those of DesktopLease, of which this   *)
(* module is an instance under the mapping at L.  FrameGate has the third  *)
(* bridge, whose client has a heartbeat and whose sends have a time limit. *)
(***************************************************************************)
EXTENDS Naturals, FiniteSets

CONSTANTS
  Requests, Viewers, Outputs, Headless, Forge, NoOutput, Free, Cancels

ASSUME BridgeAssumption ==
  /\ Headless \in Outputs /\ Forge \in Outputs /\ Headless # Forge /\ NoOutput \notin Outputs
  /\ Free \notin Requests
  /\ Cancels \in BOOLEAN

VARIABLES
  active, viewer_connected, selection, transition, present, late,
  rpc, want, target, switches,  \* as in DesktopLease
  bridge                        \* per viewer: its bridge task, a record

managerVars == <<active, viewer_connected, selection>>
leaseVars == <<active, viewer_connected, selection, transition, present, late,
               rpc, want, target, switches>>
vars == <<leaseVars, bridge>>

\* Where a task can stand; Vpcs of DesktopLease, in detail.
Running  == {"waking", "connecting", "relay", "sending", "writing", "dropChild"}
Draining == {"stopping", "waiting"}
Ending   == {"dropFiles", "ending"}
Pcs == {"idle", "admitted", "upgrading"} \cup Running \cup Draining \cup Ending

\* A client is "stalled" while it is there and does not read, "silent" when its
\* connection is half open and stays so, "failing" when the gateway has since
\* sent something that will never be acknowledged.  The two
\* socket files are made and removed together; files says whether there may be
\* one.  A hold is "taken" also when systemd-inhibit failed to start.
Bridge ==
  [at : Pcs,
   transport : {"none", "webrtc", "vnc"},
   out : Outputs \cup {NoOutput},
   child : {"none", "up", "hung", "gone"},
   client : {"none", "here", "stalled", "silent", "failing", "left"},
   files : BOOLEAN,
   hold : {"none", "taken", "dropped"}]

NoBridge ==
  [at |-> "idle", transport |-> "none", out |-> NoOutput, child |-> "none",
   client |-> "none", files |-> FALSE, hold |-> "none"]

Alive(b) == b.child \in {"up", "hung"}

\* For DesktopLease the command that wakes the output counts as the helper: it
\* is part of the capture and is over before the lease is free.
AbstractPc(b) ==
  CASE b.at \in Running -> "bridging"
    [] b.at \in Draining -> "draining"
    [] b.at \in Ending -> "ending"
    [] OTHER -> b.at
Captures(b) == b.at = "waking" \/ Alive(b)

AbstractPcs == [v \in Viewers |-> AbstractPc(bridge[v])]
Captured    == [v \in Viewers |-> bridge[v].out]
Helpers     == [v \in Viewers |-> Captures(bridge[v])]

L == INSTANCE DesktopLease WITH vpc <- AbstractPcs, cap <- Captured, helper <- Helpers

Init ==
  /\ bridge = [v \in Viewers |-> NoBridge]
  /\ L!Init

-----------------------------------------------------------------------------
(* The steps of DesktopLease that no bridge takes.                         *)

RequestStep(r) == UNCHANGED bridge /\ L!RequestStep(r)

Elsewhere ==
  /\ UNCHANGED bridge
  /\ \/ \E r \in Requests :
          L!StartRequest(r) \/ L!StopRequest(r) \/ L!Cancel(r)
     \/ \E o \in Outputs : L!Hotplug(o)
     \/ L!LateCommand

\* The service unit ends every process of the gateway's group.  Socket files it
\* leaves have random names that no later bridge uses; they are not followed.
Restart == bridge' = [v \in Viewers |-> NoBridge] /\ L!Restart
-----------------------------------------------------------------------------
(* Taking the lease.                                                       *)

Becomes(v, b) == bridge' = [bridge EXCEPT ![v] = b]
At(v, pc) == [bridge[v] EXCEPT !.at = pc]

\* Past the loop the task looks at its client no more; the connection is closed.
Leave(v, pc) == [At(v, pc) EXCEPT !.client = "left"]

Admit(v) ==
  /\ bridge[v].at = "idle"
  /\ active
  /\ \E t \in {"webrtc", "vnc"} :
       Becomes(v, [At(v, "admitted") EXCEPT !.transport = t, !.client = "here"])
  /\ UNCHANGED leaseVars

\* The compare-exchange; WayVNC or the profile may be missing before it.
Acquire(v) ==
  /\ bridge[v].at = "admitted"
  /\ \/ Becomes(v, NoBridge) /\ UNCHANGED <<viewer_connected, switches>>
     \/ /\ ~viewer_connected
        /\ viewer_connected' = TRUE
        /\ switches' = 0
        /\ Becomes(v, At(v, "upgrading"))
  /\ UNCHANGED <<active, selection, transition, present, late, rpc, want, target>>

\* WebRTC spawns its helper at once.
Spawned(v) == [At(v, "relay") EXCEPT !.out = selection, !.child = "up"]

\* Mutant of Woken: `let _ = start_vnc_idle_hold()` drops the inhibitor at once.
WokenUnheld(v) == [At(v, "waking") EXCEPT !.out = selection, !.hold = "dropped"]

\* VNC first takes the idle hold and asks the compositor to wake the output.
Woken(v) == [At(v, "waking") EXCEPT !.out = selection, !.hold = "taken"]

\* The upgraded task snapshots the selection.  The upgrade itself, or the spawn,
\* may fail.
Start(v) ==
  /\ bridge[v].at = "upgrading"
  /\ \/ Becomes(v, Leave(v, "ending"))
     \/ /\ selection # NoOutput
        /\ Becomes(v, IF bridge[v].transport = "vnc" THEN Woken(v) ELSE Spawned(v))
  /\ UNCHANGED leaseVars

\* The wake command fails, WayVNC cannot be spawned, or it runs.
Wake(v) ==
  /\ bridge[v].at = "waking"
  /\ \/ Becomes(v, Leave(v, "dropFiles"))
     \/ Becomes(v, [At(v, "connecting") EXCEPT !.child = "up"])
  /\ UNCHANGED leaseVars

\* A process that hangs still listens; one that exited refuses.
Connect(v) ==
  /\ bridge[v].at = "connecting"
  /\ bridge[v].files
  /\ Alive(bridge[v])
  /\ Becomes(v, At(v, "relay"))
  /\ UNCHANGED leaseVars

\* try_wait finds the process gone, or the four seconds are over: kill and wait
\* for it, then remove the socket files.
ConnectFails(v) ==
  /\ bridge[v].at = "connecting"
  /\ Becomes(v, [Leave(v, "dropFiles") EXCEPT !.child = "gone", !.files = FALSE])
  /\ UNCHANGED leaseVars
-----------------------------------------------------------------------------
(* The relay loop: select over the helper's output, the client's messages  *)
(* and the helper's exit.  The body of a branch awaits without the others. *)

\* Output of the helper, handed to the client's connection.
Output(v) ==
  /\ bridge[v].at = "relay"
  /\ bridge[v].child = "up"
  /\ Becomes(v, [At(v, "sending") EXCEPT !.client = IF @ = "silent" THEN "failing" ELSE @])
  /\ UNCHANGED leaseVars

\* A send to a client that does not read returns until the buffers are full, and
\* nothing limits the wait then; one to a client that left may still succeed.
Sent(v) ==
  /\ bridge[v].at = "sending"
  /\ \/ Becomes(v, At(v, "relay"))
     \/ bridge[v].client = "left" /\ Becomes(v, Leave(v, "stopping"))
  /\ UNCHANGED leaseVars

\* A message of the client, on its way to the helper.
Message(v) ==
  /\ bridge[v].at = "relay"
  /\ bridge[v].client = "here"
  /\ Becomes(v, At(v, "writing"))
  /\ UNCHANGED leaseVars

\* write_all: an error propagates.  A helper that hangs leaves room in its pipe
\* or does not; nothing limits the wait.
Written(v) ==
  /\ bridge[v].at = "writing"
  /\ Becomes(v, IF Alive(bridge[v]) THEN At(v, "relay") ELSE Leave(v, "dropChild"))
  /\ UNCHANGED leaseVars

\* A close frame, the end of the stream or an error of it.
ClientGone(v) ==
  /\ bridge[v].at = "relay"
  /\ bridge[v].client = "left"
  /\ Becomes(v, At(v, "stopping"))
  /\ UNCHANGED leaseVars

\* Mutant of HelperGone: neither its end of output nor its exit is a way out.
HelperGoneIgnored(v) ==
  /\ bridge[v].at = "relay"
  /\ bridge[v].child = "gone"
  /\ UNCHANGED vars

\* The end of the helper's output breaks the loop, its exit or an error of the
\* read leaves the task.
HelperGone(v) ==
  /\ bridge[v].at = "relay"
  /\ bridge[v].child = "gone"
  /\ Becomes(v, Leave(v, "stopping")) \/ Becomes(v, Leave(v, "dropChild"))
  /\ UNCHANGED leaseVars

\* Reading from a helper that still runs fails.
ReadError(v) ==
  /\ bridge[v].at = "relay"
  /\ Alive(bridge[v])
  /\ Becomes(v, Leave(v, "dropChild"))
  /\ UNCHANGED leaseVars
-----------------------------------------------------------------------------
(* The way out.                                                            *)

\* WebRTC writes a stop line, waiting as long as the pipe is full; VNC closes
\* its connection.
Stop(v) ==
  /\ bridge[v].at = "stopping"
  /\ Becomes(v, At(v, "waiting"))
  /\ UNCHANGED leaseVars

\* Two seconds are over.
KillWaiting(v) ==
  /\ bridge[v].at = "waiting"
  /\ Alive(bridge[v])
  /\ Becomes(v, [bridge[v] EXCEPT !.child = "gone"])
  /\ UNCHANGED leaseVars

Drained(v) ==
  /\ bridge[v].at = "waiting"
  /\ ~Alive(bridge[v])
  /\ Becomes(v, At(v, "dropFiles"))
  /\ UNCHANGED leaseVars

\* Mutant of DropChild: no kill_on_drop.
DropChildAlive(v) ==
  /\ bridge[v].at = "dropChild"
  /\ Becomes(v, At(v, "dropFiles"))
  /\ UNCHANGED leaseVars

\* The locals go in reverse order: kill_on_drop ends the helper, ...
DropChild(v) ==
  /\ bridge[v].at = "dropChild"
  /\ Becomes(v, [At(v, "dropFiles") EXCEPT !.child = "gone"])
  /\ UNCHANGED leaseVars

\* Mutant of DropFiles: no socket guard.
DropHoldOnly(v) ==
  /\ bridge[v].at = "dropFiles"
  /\ Becomes(v, [At(v, "ending") EXCEPT !.hold = IF @ = "taken" THEN "dropped" ELSE @])
  /\ UNCHANGED leaseVars

\* ... VncSocketCleanup removes the files, the inhibitor is killed, ...
DropFiles(v) ==
  /\ bridge[v].at = "dropFiles"
  /\ Becomes(v, [At(v, "ending") EXCEPT !.files = FALSE,
                                        !.hold = IF @ = "taken" THEN "dropped" ELSE @])
  /\ UNCHANGED leaseVars

\* ... and DesktopViewerGuard gives the lease back.
Release(v) ==
  /\ bridge[v].at = "ending"
  /\ viewer_connected' = FALSE
  /\ Becomes(v, NoBridge)
  /\ UNCHANGED <<active, selection, transition, present, late, rpc, want, target, switches>>
-----------------------------------------------------------------------------
(* Clients and helpers.                                                    *)

MakeSocket(v) ==
  /\ bridge[v].transport = "vnc"
  /\ bridge[v].child = "up"
  /\ Becomes(v, [bridge[v] EXCEPT !.files = TRUE])
  /\ UNCHANGED leaseVars

HelperHangs(v) ==
  /\ Alive(bridge[v])
  /\ Becomes(v, [bridge[v] EXCEPT !.child = IF @ = "up" THEN "hung" ELSE "up"])
  /\ UNCHANGED leaseVars

\* WayVNC removes its files when it exits in order, not when it crashes.
HelperExit(v) ==
  /\ Alive(bridge[v])
  /\ \E left \in {FALSE, bridge[v].files} :
       Becomes(v, [bridge[v] EXCEPT !.child = "gone", !.files = left])
  /\ UNCHANGED leaseVars

\* A page that is frozen or slow keeps its connection and reads nothing for a time.
ClientStalls(v) ==
  /\ bridge[v].client \in {"here", "stalled"}
  /\ Becomes(v, [bridge[v] EXCEPT !.client = IF @ = "here" THEN "stalled" ELSE "here"])
  /\ UNCHANGED leaseVars

ClientLeaves(v) ==
  /\ bridge[v].at # "admitted"
  /\ bridge[v].client \in {"here", "stalled"}
  /\ \E c \in {"left", IF bridge[v].at = "sending" THEN "failing" ELSE "silent"} :
       Becomes(v, [bridge[v] EXCEPT !.client = c])
  /\ UNCHANGED leaseVars

\* The kernel stops retransmitting what it sent and reports an error.
TcpGivesUp(v) ==
  /\ bridge[v].client = "failing"
  /\ Becomes(v, [bridge[v] EXCEPT !.client = "left"])
  /\ UNCHANGED leaseVars
-----------------------------------------------------------------------------
\* What a scheduled task does without anybody else: the waits with a time limit
\* end, a write to a helper that reads and a send to a client that reads or has
\* left return.  The other awaits, and the command that wakes the output, have no
\* limit and may last for ever.
TaskStep(v) ==
  \/ Acquire(v) \/ Start(v) \/ Connect(v) \/ ConnectFails(v)
  \/ bridge[v].client \in {"here", "left"} /\ Sent(v)
  \/ bridge[v].child # "hung" /\ Written(v)
  \/ ClientGone(v) \/ HelperGone(v)
  \/ (bridge[v].transport = "vnc" \/ bridge[v].child # "hung") /\ Stop(v)
  \/ KillWaiting(v) \/ Drained(v)
  \/ DropChild(v) \/ DropFiles(v) \/ Release(v)

Next ==
  \/ \E r \in Requests : RequestStep(r)
  \/ Elsewhere
  \/ Restart
  \/ \E v \in Viewers :
       \/ Admit(v) \/ TaskStep(v) \/ Wake(v) \/ Output(v) \/ Sent(v) \/ Message(v) \/ Written(v)
       \/ ReadError(v) \/ Stop(v)
       \/ MakeSocket(v) \/ HelperHangs(v) \/ HelperExit(v)
       \/ ClientStalls(v) \/ ClientLeaves(v) \/ TcpGivesUp(v)

Spec == Init /\ [][Next]_vars

\* Tasks are scheduled and the kernel gives up dead connections; strong fairness
\* of leaving the loop stands for the random order in which select! looks at its
\* branches.
Fairness ==
  \A v \in Viewers :
    /\ WF_vars(TaskStep(v))
    /\ WF_vars(TcpGivesUp(v))
    /\ SF_vars(ClientGone(v))

FairSpec == Spec /\ Fairness
-----------------------------------------------------------------------------
(* Properties.                                                             *)

\* Types, and what a place in the task says about its locals: no output before
\* the snapshot, no helper once it has been dropped.
TypeOK ==
  /\ bridge \in [Viewers -> Bridge]
  /\ \A v \in Viewers :
       /\ bridge[v].at \in {"idle", "admitted", "upgrading"} => bridge[v].out = NoOutput
       /\ Alive(bridge[v]) => bridge[v].at \in (Running \cup Draining) \ {"waking"}

\* Seen through the mapping, the two bridges do what DesktopLease says of every
\* transport: one viewer, one capture at a time, none without the lease.
ImplementsLease == L!Spec

\* An active selection of the headless output is backed by the compositor: no
\* transaction leaves it selected and removed, whatever a bridge is doing.
HeadlessBacked == L!HeadlessBacked

\* docs/network-transport-test-log.md:30: a bridge that is over leaves none of
\* its private socket files, on no way out, even when WayVNC is killed while it
\* creates them.
FilesRemoved ==
  \A v \in Viewers :
    bridge[v].at \notin Running \cup Draining \cup {"dropFiles"} => ~bridge[v].files

\* README.md:206: the gateway inhibits display idle before it wakes the output
\* and until WayVNC is gone, on every way out.
HeldWhileCaptured ==
  \A v \in Viewers :
    bridge[v].transport = "vnc" /\ Captures(bridge[v]) => bridge[v].hold = "taken"

\* The awaits without a limit: a write to a helper that does not read
\* (main.rs:2695, 2713, 2978), a send to a client that does not read (2688, 2970),
\* and the command that wakes the output (3030, 3043).
Blocked(v) ==
  \/ bridge[v].child = "hung" /\ bridge[v].at \in {"writing", "stopping"}
  \/ bridge[v].client = "stalled" /\ bridge[v].at = "sending"
  \/ bridge[v].at = "waking"

\* docs/https-remote-desktop-alternatives-2026-07-15.md:41: the lease comes back
\* when the viewer left or its connection will be found broken, and when the
\* helper died, wherever in the bridge that happens, unless the task never comes
\* to the end of those awaits: docs/eutherbrowse-stability-slice.md:16 names the
\* client that stopped reading, which these two bridges still wait for.
LeaseReturns ==
  \A v \in Viewers :
    \/ []<>Blocked(v)
    \/ (bridge[v].client \in {"failing", "left"} \/ bridge[v].child = "gone")
         ~> bridge[v].at = "idle"
=============================================================================
