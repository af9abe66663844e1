---------------------------- MODULE DesktopLease ----------------------------
(***************************************************************************)
(* The gateway's DesktopManager: the start and stop transactions that run  *)
(* under its transition mutex, the single-viewer lease that the three      *)
(* desktop WebSocket handlers share, and the bridge task that owns the     *)
(* lease and one capture helper.  Every await of the code is a step of its *)
(* own, so that any other handler can run in between; HTTP handlers can be *)
(* dropped at an await (the client went away), bridge tasks cannot.        *)
(*                                                                         *)
(* An output is a member of Outputs.  Headless is the output EutherGate    *)
(* creates in Hyprland, Forge the Sway session's output.  One Hyprland     *)
(* instance is logged in throughout.                                       *)
(***************************************************************************)
EXTENDS Naturals, FiniteSets

CONSTANTS
  Requests,  \* concurrent HTTP start and stop requests
  Viewers,   \* concurrent desktop WebSocket clients, of any transport
  Outputs,   \* what resolved_outputs can list
  Headless,  \* the output the gateway creates and removes
  Forge,     \* the Sway output, the default selection
  NoOutput,  \* the initial, unavailable selection
  Free,      \* the transition mutex is not held
  Cancels    \* TRUE: clients may abandon an HTTP request

ASSUME OutputsAssumption ==
  /\ Headless \in Outputs
  /\ Forge \in Outputs
  /\ Headless # Forge
  /\ NoOutput \notin Outputs
ASSUME RequestsAssumption == Free \notin Requests
ASSUME CancelsAssumption == Cancels \in BOOLEAN

VARIABLES
  active,            \* DesktopManager.active
  viewer_connected,  \* DesktopManager.viewer_connected, the lease
  selection,         \* DesktopManager.selection
  transition,        \* who holds DesktopManager.transition
  present,           \* the outputs the compositors have
  late,              \* hyprctl commands still running for a dropped request
  rpc, want, target, \* per request: where it is, what it asked, what it chose
  vpc, cap, helper,  \* per viewer: where it is, its output, helper alive
  switches           \* history: selection changes since the lease was taken

managerVars == <<active, viewer_connected, selection>>
requestVars == <<transition, rpc, want, target>>
viewerVars  == <<vpc, cap, helper>>
compositorVars == <<present, late>>
vars == <<managerVars, requestVars, viewerVars, compositorVars, switches>>

\* A start request names its output by id, by the name of a present output, by
\* the name the picker shows for the not yet created one, or not at all.
NoWant == [by |-> "default", out |-> NoOutput]
Wants == [by : {"id", "name"}, out : Outputs]
           \cup {[by |-> "placeholder", out |-> Headless], NoWant}

StartPcs == {"choose", "create", "configure", "undo", "relist", "store"}
StopPcs  == {"list", "remove"}
Rpcs == {"idle", "start", "stop"} \cup StartPcs \cup StopPcs
Vpcs == {"idle", "admitted", "upgrading", "bridging", "draining", "ending"}

Holds(v) == vpc[v] \in {"upgrading", "bridging", "draining", "ending"}
InTransition(r) == rpc[r] \in StartPcs \cup StopPcs

\* resolved_outputs and the lookup in start: a present output is found by id or
\* name, an absent Headless by id or by its placeholder's name.
Candidates(w) ==
  CASE w.by = "id" -> {w.out} \cap (present \cup {Headless})
    [] w.by = "name" -> {w.out} \cap present
    [] w.by = "placeholder" -> {Headless} \ present
    [] OTHER -> IF Forge \in present THEN {Forge}
                ELSE IF present = {} THEN {Headless} ELSE present

\* The comparison with previous.id and the second lookup know only ids.
ById(w) == w.by \in {"id", "default"}

Init ==
  /\ active = FALSE
  /\ viewer_connected = FALSE
  /\ selection = NoOutput
  /\ transition = Free
  /\ present \in SUBSET Outputs
  /\ late = {}
  /\ rpc = [r \in Requests |-> "idle"]
  /\ want = [r \in Requests |-> NoWant]
  /\ target = [r \in Requests |-> NoOutput]
  /\ vpc = [v \in Viewers |-> "idle"]
  /\ cap = [v \in Viewers |-> NoOutput]
  /\ helper = [v \in Viewers |-> FALSE]
  /\ switches = 0

-----------------------------------------------------------------------------
(* Start and stop.                                                         *)

Goto(r, pc) == rpc' = [rpc EXCEPT ![r] = pc]

\* The handler ends and with it its locals; Return also drops the MutexGuard.
Forget(r) ==
  /\ Goto(r, "idle")
  /\ want' = [want EXCEPT ![r] = NoWant]
  /\ target' = [target EXCEPT ![r] = NoOutput]

\* Mutant of Return: the guard is leaked.
ReturnLocked(r) == Forget(r) /\ UNCHANGED transition

Return(r) == Forget(r) /\ transition' = Free

StartRequest(r) ==
  /\ rpc[r] = "idle"
  /\ Goto(r, "start")
  /\ UNCHANGED <<transition, want, target, managerVars, viewerVars, compositorVars, switches>>

StopRequest(r) ==
  /\ rpc[r] = "idle"
  /\ Goto(r, "stop")
  /\ UNCHANGED <<transition, want, target, managerVars, viewerVars, compositorVars, switches>>

StartLock(r) ==
  /\ rpc[r] = "start"
  /\ transition = Free
  /\ transition' = r
  /\ Goto(r, "choose")
  /\ UNCHANGED <<want, target, managerVars, viewerVars, compositorVars, switches>>

\* What it asked for is looked at again only by the second lookup.
Chosen(r, w, o) ==
  /\ target' = [target EXCEPT ![r] = o]
  /\ IF o \in present
       THEN Goto(r, "store") /\ UNCHANGED want
       ELSE Goto(r, "create") /\ want' = [want EXCEPT ![r] = w]

\* Mutant of StartChoose: viewers are not looked at.
StartChooseUnchecked(r) ==
  /\ rpc[r] = "choose"
  /\ \E w \in Wants : \E o \in Candidates(w) : Chosen(r, w, o)
  /\ UNCHANGED <<transition, managerVars, viewerVars, compositorVars, switches>>

\* The helper check, resolved_outputs, the viewer check and the lookup of what
\* the request asks for.  The first two may fail; the request is refused while
\* somebody views another id.
StartChoose(r) ==
  /\ rpc[r] = "choose"
  /\ \/ Return(r)
     \/ \E w \in Wants : \E o \in Candidates(w) :
          /\ viewer_connected => ById(w) /\ o = selection
          /\ Chosen(r, w, o)
          /\ UNCHANGED transition
  /\ UNCHANGED <<managerVars, viewerVars, compositorVars, switches>>

\* hyprctl output create: fails when the compositor refuses or has it already.
StartCreate(r) ==
  /\ rpc[r] = "create"
  /\ \/ Return(r) /\ UNCHANGED present
     \/ /\ Headless \notin present
        /\ present' = present \cup {Headless}
        /\ Goto(r, "configure")
        /\ UNCHANGED <<transition, want, target>>
  /\ UNCHANGED <<late, managerVars, viewerVars, switches>>

StartConfigure(r) ==
  /\ rpc[r] = "configure"
  /\ Goto(r, "relist") \/ Goto(r, "undo")
  /\ UNCHANGED <<transition, want, target, managerVars, viewerVars, compositorVars, switches>>

\* The clean-up after a failed configure; its own failure is ignored.
StartUndo(r) ==
  /\ rpc[r] = "undo"
  /\ present' \in {present, present \ {Headless}}
  /\ Return(r)
  /\ UNCHANGED <<late, managerVars, viewerVars, switches>>

\* The second resolved_outputs: the lookup is by id only.
StartRelist(r) ==
  /\ rpc[r] = "relist"
  /\ \/ Return(r)
     \/ /\ ById(want[r])
        /\ target[r] \in present
        /\ Goto(r, "store")
        /\ UNCHANGED <<transition, want, target>>
  /\ UNCHANGED <<managerVars, viewerVars, compositorVars, switches>>

StartStore(r) ==
  /\ rpc[r] = "store"
  /\ selection' = target[r]
  /\ active' = TRUE
  /\ switches' = IF viewer_connected /\ target[r] # selection
                   THEN switches + 1 ELSE switches
  /\ Return(r)
  /\ UNCHANGED <<viewer_connected, viewerVars, compositorVars>>

\* Mutant of StopLock: active is not cleared before the output is removed.
StopLockKeepsActive(r) ==
  /\ rpc[r] = "stop"
  /\ transition = Free
  /\ IF active /\ selection = Headless
       THEN Goto(r, "list") /\ transition' = r /\ UNCHANGED active
       ELSE Goto(r, "idle") /\ active' = FALSE /\ UNCHANGED transition
  /\ UNCHANGED <<want, target, viewer_connected, selection, viewerVars, compositorVars, switches>>

\* No await between the lock and the decision to remove the headless output.
StopLock(r) ==
  /\ rpc[r] = "stop"
  /\ transition = Free
  /\ active' = FALSE
  /\ IF active /\ selection = Headless
       THEN Goto(r, "list") /\ transition' = r
       ELSE Goto(r, "idle") /\ UNCHANGED transition
  /\ UNCHANGED <<want, target, viewer_connected, selection, viewerVars, compositorVars, switches>>

StopList(r) ==
  /\ rpc[r] = "list"
  /\ \/ Return(r)
     \/ /\ Headless \in present
        /\ Goto(r, "remove")
        /\ UNCHANGED <<transition, want, target>>
  /\ UNCHANGED <<managerVars, viewerVars, compositorVars, switches>>

StopRemove(r) ==
  /\ rpc[r] = "remove"
  /\ present' \in {present, present \ {Headless}}
  /\ Return(r)
  /\ UNCHANGED <<late, managerVars, viewerVars, switches>>

\* The client disconnects: the handler is dropped at its await and the mutex is
\* released, but a hyprctl process it had started runs on.
Cancel(r) ==
  /\ Cancels
  /\ rpc[r] \notin {"idle", "store"}
  /\ IF InTransition(r)
       THEN Return(r)
       ELSE Forget(r) /\ UNCHANGED transition
  /\ \/ UNCHANGED late
     \/ rpc[r] = "create" /\ late' = late \cup {"create"}
     \/ rpc[r] \in {"undo", "remove"} /\ late' = late \cup {"remove"}
  /\ UNCHANGED <<present, managerVars, viewerVars, switches>>

LateCommand ==
  \E c \in late :
    /\ late' = late \ {c}
    /\ present' = IF c = "create" THEN present \cup {Headless} ELSE present \ {Headless}
    /\ UNCHANGED <<managerVars, requestVars, viewerVars, switches>>

\* A monitor is plugged or unplugged, the Forge session comes or goes.
Hotplug(o) ==
  /\ o # Headless
  /\ present' = IF o \in present THEN present \ {o} ELSE present \cup {o}
  /\ UNCHANGED <<late, managerVars, requestVars, viewerVars, switches>>
-----------------------------------------------------------------------------
(* The lease and the bridge.                                               *)

GotoV(v, pc) == vpc' = [vpc EXCEPT ![v] = pc]

\* The upgrade handler's first test; without it the answer is 409.
WsCheck(v) ==
  /\ vpc[v] = "idle"
  /\ active
  /\ GotoV(v, "admitted")
  /\ UNCHANGED <<cap, helper, managerVars, requestVars, compositorVars, switches>>

\* Mutant of WsAcquire: a store instead of the compare-exchange.
WsAcquireStore(v) ==
  /\ vpc[v] = "admitted"
  /\ viewer_connected' = TRUE
  /\ switches' = 0
  /\ GotoV(v, "upgrading")
  /\ UNCHANGED <<active, selection, cap, helper, requestVars, compositorVars>>

\* acquire_desktop_viewer: a compare-exchange.  The other refusals (no helper,
\* unknown profile) also end the request here.
WsAcquire(v) ==
  /\ vpc[v] = "admitted"
  /\ \/ GotoV(v, "idle") /\ UNCHANGED <<viewer_connected, switches>>
     \/ /\ ~viewer_connected
        /\ viewer_connected' = TRUE
        /\ switches' = 0
        /\ GotoV(v, "upgrading")
  /\ UNCHANGED <<active, selection, cap, helper, requestVars, compositorVars>>

\* The upgraded task snapshots the selection and spawns its helper, or fails.
BridgeStart(v) ==
  /\ vpc[v] = "upgrading"
  /\ \/ GotoV(v, "ending") /\ UNCHANGED <<cap, helper>>
     \/ /\ selection # NoOutput
        /\ cap' = [cap EXCEPT ![v] = selection]
        /\ helper' = [helper EXCEPT ![v] = TRUE]
        /\ GotoV(v, "bridging")
  /\ UNCHANGED <<managerVars, requestVars, compositorVars, switches>>

\* The loop breaks (close frame, end of stream, failed send): stop is written
\* to the helper and it gets two seconds.
BridgeBreak(v) ==
  /\ vpc[v] = "bridging"
  /\ GotoV(v, "draining")
  /\ UNCHANGED <<cap, helper, managerVars, requestVars, compositorVars, switches>>

\* The helper exits while the loop runs, by a bail or by the end of its output.
HelperGone(v) ==
  /\ vpc[v] = "bridging"
  /\ ~helper[v]
  /\ GotoV(v, "draining") \/ GotoV(v, "ending")
  /\ UNCHANGED <<cap, helper, managerVars, requestVars, compositorVars, switches>>

\* Mutant of BridgeError: no kill_on_drop.
BridgeErrorNoKill(v) ==
  /\ vpc[v] = "bridging"
  /\ GotoV(v, "ending")
  /\ UNCHANGED <<cap, helper, managerVars, requestVars, compositorVars, switches>>

\* An error propagates: locals are dropped, and kill_on_drop ends the helper.
BridgeError(v) ==
  /\ vpc[v] = "bridging"
  /\ helper' = [helper EXCEPT ![v] = FALSE]
  /\ GotoV(v, "ending")
  /\ UNCHANGED <<cap, managerVars, requestVars, compositorVars, switches>>

\* The helper exits by itself within two seconds or is killed.
BridgeDrain(v) ==
  /\ vpc[v] = "draining"
  /\ helper' = [helper EXCEPT ![v] = FALSE]
  /\ GotoV(v, "ending")
  /\ UNCHANGED <<cap, managerVars, requestVars, compositorVars, switches>>

\* DesktopViewerGuard::drop.
Release(v) ==
  /\ vpc[v] = "ending"
  /\ viewer_connected' = FALSE
  /\ GotoV(v, "idle")
  /\ cap' = [cap EXCEPT ![v] = NoOutput]
  /\ UNCHANGED <<active, selection, helper, requestVars, compositorVars, switches>>

HelperExit(v) ==
  /\ helper[v]
  /\ helper' = [helper EXCEPT ![v] = FALSE]
  /\ UNCHANGED <<vpc, cap, managerVars, requestVars, compositorVars, switches>>

\* systemd restarts the gateway: its memory and its child processes are gone,
\* the compositors keep their outputs.
Restart ==
  /\ active' = FALSE
  /\ viewer_connected' = FALSE
  /\ selection' = NoOutput
  /\ transition' = Free
  /\ late' = {}
  /\ rpc' = [r \in Requests |-> "idle"]
  /\ want' = [r \in Requests |-> NoWant]
  /\ target' = [r \in Requests |-> NoOutput]
  /\ vpc' = [v \in Viewers |-> "idle"]
  /\ cap' = [v \in Viewers |-> NoOutput]
  /\ helper' = [v \in Viewers |-> FALSE]
  /\ switches' = 0
  /\ UNCHANGED present
-----------------------------------------------------------------------------
RequestStep(r) ==
  \/ StartLock(r) \/ StartChoose(r) \/ StartCreate(r) \/ StartConfigure(r)
  \/ StartUndo(r) \/ StartRelist(r) \/ StartStore(r)
  \/ StopLock(r) \/ StopList(r) \/ StopRemove(r)

TeardownStep(v) ==
  \/ WsAcquire(v) \/ BridgeStart(v) \/ HelperGone(v) \/ BridgeDrain(v) \/ Release(v)

Next ==
  \/ \E r \in Requests :
       \/ StartRequest(r)
       \/ StopRequest(r)
       \/ RequestStep(r)
       \/ Cancel(r)
  \/ \E v \in Viewers :
       \/ WsCheck(v) \/ BridgeBreak(v) \/ BridgeError(v) \/ HelperExit(v)
       \/ TeardownStep(v)
  \/ \E o \in Outputs : Hotplug(o)
  \/ LateCommand
  \/ Restart

Spec == Init /\ [][Next]_vars

\* Requests as the server schedules them, with commands that return.  One that
\* waits for the mutex can go on only while nobody has it; strong fairness
\* stands for tokio's mutex being first come first served.
Fairness == \A r \in Requests : SF_vars(RequestStep(r))

FairSpec == Spec /\ Fairness
-----------------------------------------------------------------------------
(* Properties.                                                             *)

\* Types; a request has chosen an output exactly while it acts on it, and a
\* helper exists only in a bridge that knows its output.
TypeOK ==
  /\ active \in BOOLEAN
  /\ viewer_connected \in BOOLEAN
  /\ selection \in Outputs \cup {NoOutput}
  /\ transition \in Requests \cup {Free}
  /\ present \in SUBSET Outputs
  /\ late \in SUBSET {"create", "remove"}
  /\ rpc \in [Requests -> Rpcs]
  /\ want \in [Requests -> Wants]
  /\ target \in [Requests -> Outputs \cup {NoOutput}]
  /\ vpc \in [Viewers -> Vpcs]
  /\ cap \in [Viewers -> Outputs \cup {NoOutput}]
  /\ helper \in [Viewers -> BOOLEAN]
  /\ switches \in Nat

\* docs/architecture.md:85: the flag is set exactly while one viewer holds the
\* guard, whichever of the refusal, failure and teardown paths it takes.
LeaseExclusive ==
  /\ viewer_connected => \E v \in Viewers : Holds(v)
  /\ \A v \in Viewers : Holds(v) => viewer_connected
  /\ \A v, w \in Viewers : Holds(v) /\ Holds(w) => v = w

\* A capture helper never outlives the lease it runs under, so that two of them
\* never capture or inject input at once.
HelperUnderLease ==
  \A v \in Viewers : helper[v] => vpc[v] \in {"bridging", "draining"}

\* The transactions exclude each other even when one is dropped half way.
TransitionExclusive ==
  \A r \in Requests : InTransition(r) <=> transition = r

\* start checks for a viewer before its awaits, so one switch can slip in after
\* a viewer connected; the mutex and the check stop a second one.
AtMostOneSwitch == switches <= 1

\* A viewer can capture another output than the selected one only after such a
\* switch.
CaptureFollowsSelection ==
  \A v \in Viewers : vpc[v] \in {"bridging", "draining"} /\ cap[v] # selection => switches = 1

\* How far an output change can go under a viewer that is being served: the
\* selection moves once at most, and only then away from what is captured
\* (main.rs:1784, 2664).
BoundedSwitch == AtMostOneSwitch /\ CaptureFollowsSelection

\* While clients wait for their answers, an active selection of the headless
\* output is backed by the compositor: no transaction leaves it selected and
\* removed (main.rs:1839-1858).
HeadlessBacked == active /\ selection = Headless => Headless \in present

\* docs/restart-diagnostic-handoff-2026-07-16.md:55 claims that the backend
\* rejects an output change while viewer_connected is true.
NoSwitchUnderViewer == [][viewer_connected => selection' = selection \/ ~viewer_connected']_vars

\* A start or stop request is answered, however often others take the mutex
\* before it, fail, or are dropped while they hold it (main.rs:1770, 1840).
RequestsFinish == \A r \in Requests : rpc[r] # "idle" ~> rpc[r] = "idle"

\* The abstract lease this state stands for.
LeaseHolder ==
  IF \E v \in Viewers : Holds(v) THEN CHOOSE v \in Viewers : Holds(v) ELSE Free

LeasePhase ==
  CASE ~viewer_connected -> "free"
    [] viewer_connected /\ (\E v \in Viewers : helper[v]) -> "capturing"
    [] OTHER -> IF \E v \in Viewers : vpc[v] = "upgrading" THEN "held" ELSE "done"

Lease == INSTANCE SingleViewer WITH Nobody <- Free, holder <- LeaseHolder, phase <- LeasePhase

\* The lease behaves as SingleViewer says: one helper per tenure, gone before
\* the lease is free again.
ImplementsSingleViewer == Lease!Spec
=============================================================================
