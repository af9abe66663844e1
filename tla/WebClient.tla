------------------------------ MODULE WebClient ------------------------------
(***************************************************************************)
(* The web client's views and its desktop stream.  Showing a view, closing *)
(* a browser window and switching the output or the protocol are async     *)
(* functions: after each await they go on, whatever the user has done      *)
(* meanwhile.  The page has one desktopSocket; the gateway gives its one   *)
(* viewer lease to the first socket that asks and refuses the others.      *)
(*                                                                         *)
(* VNC, the login view and the terminal's own socket are left out; that    *)
(* buttons are disabled while their request runs too.  Windows are opened  *)
(* and closed, and the desktop is started and stopped, by this page only.  *)
(***************************************************************************)
EXTENDS Integers, FiniteSets

CONSTANTS
  Windows,     \* Firefox windows
  Sockets,     \* desktop WebSockets that exist at a time
  Tasks,       \* async functions under way at a time
  None,
  Free, Other, \* the lease when no viewer, or another device, has it
  Protocols,   \* transport profiles: "webrtc", "wss"
  MaxAttempts, \* 3 in the code
  MaxActs      \* bound on what the user does

ASSUME ViewAssumption == {"terminal", "desktop"} \cap Windows = {}
ASSUME NoneAssumption == None \notin Windows \cup Sockets \cup Tasks
ASSUME LeaseAssumption == Free # Other /\ {Free, Other} \cap Sockets = {}
ASSUME ProtocolAssumption == Protocols \subseteq {"webrtc", "wss"}
ASSUME NumberAssumption == MaxAttempts \in Nat /\ MaxActs \in Nat

VARIABLES
  view,      \* what the page shows: "terminal", "desktop" or a window's browser view
  active,    \* activeBrowserSessionId
  protocol,  \* selectedTransportProfile
  fallback,  \* desktopFallbackActive
  socket,    \* desktopSocket
  timer,     \* desktopFallbackRetryTimer: the retry it belongs to
  task,      \* the async functions under way, each at an await
  sock,      \* the sockets, referenced by the page or not
  lease,     \* gateway: who views
  started,   \* gateway: the desktop is active
  windows,   \* gateway: the Firefox windows there are
  focused,   \* gateway: the one that is focused
  acts,      \* what the user has done so far
  hasty      \* history: the user did something before the last thing was done

pageVars == <<view, active, fallback, socket, timer>>
gatewayVars == <<lease, started, windows, focused>>
userVars == <<acts, hasty>>
vars == <<pageVars, protocol, task, sock, gatewayVars, userVars>>

Idle == [kind |-> "none", at |-> "none", window |-> None, attempt |-> 0]
Unused == [at |-> "unused", protocol |-> "wss", attempt |-> 0]

Init ==
  /\ view = "terminal" /\ active = None /\ protocol \in Protocols
  /\ fallback = FALSE /\ socket = None /\ timer = None
  /\ task = [t \in Tasks |-> Idle]
  /\ sock = [s \in Sockets |-> Unused]
  /\ lease = Free /\ started \in BOOLEAN /\ windows \in SUBSET Windows /\ focused = None
  /\ acts = 0 /\ hasty = FALSE

Pending == \E t \in Tasks : task[t].kind \notin {"none", "retry"}
Acts ==
  /\ acts < MaxActs
  /\ acts' = acts + 1
  /\ hasty' = (hasty \/ Pending)
Starts(t, kind, at, w) == [Idle EXCEPT !.kind = kind, !.at = at, !.window = w]
Goto(t, at) == task' = [task EXCEPT ![t].at = at]

\* A function or a socket that is new gets one fixed name of those not in use.
NewTask(t) == task[t] = Idle /\ t = CHOOSE u \in Tasks : task[u] = Idle
NewSocket(s) == sock[s] = Unused /\ s = CHOOSE u \in Sockets : sock[u] = Unused

\* Mutant of Disposed: the socket is forgotten, not closed.
DisposedForgotten == sock

\* disposeDesktop, on the sockets: the page closes the one it knows.
Disposed ==
  IF socket = None THEN sock
  ELSE [sock EXCEPT ![socket] =
         CASE @.at = "opening" -> [Unused EXCEPT !.at = "aborted"]
           [] @.at = "open" -> [Unused EXCEPT !.at = "closing"]
           [] OTHER -> Unused]

\* disposeDesktop, on the retry timer: the one the page knows is cleared.
Cleared == [t \in Tasks |-> IF t = timer THEN Idle ELSE task[t]]

Disposes ==
  /\ sock' = Disposed
  /\ socket' = None
  /\ fallback' = FALSE
  /\ timer' = None

\* A new view; tasks is what is under way then.
Shows(v, w, tasks) ==
  /\ view' = v
  /\ active' = w
  /\ Disposes
  /\ task' = tasks
-----------------------------------------------------------------------------
(* What the user does.                                                     *)

RenderTerminal ==
  /\ Shows("terminal", None, Cleared)
  /\ Acts
  /\ UNCHANGED <<protocol, gatewayVars>>

\* renderDesktop leaves activeBrowserSessionId as it is.
RenderDesktop(t) ==
  /\ NewTask(t)
  /\ Shows("desktop", active, [Cleared EXCEPT ![t] = Starts(t, "desktop", "wait", None)])
  /\ Acts
  /\ UNCHANGED <<protocol, gatewayVars>>

\* A browser chip, or openOrShowBrowser with an active window.
RenderBrowser(t) ==
  /\ NewTask(t)
  /\ \E w \in (IF view = "desktop" THEN {} ELSE windows) \cup ({active} \ {None}) :
       Shows(w, w, [Cleared EXCEPT ![t] = Starts(t, "browser", "wait", w)])
  /\ Acts
  /\ UNCHANGED <<protocol, gatewayVars>>

\* openOrShowBrowser without one, createBrowserSession, closeBrowserSession and
\* toggleDesktop: the view stays until the gateway answers.
Ask(t) ==
  /\ NewTask(t)
  /\ \/ active = None /\ task' = [task EXCEPT ![t] = Starts(t, "open", "list", None)]
     \/ view \in Windows /\ task' = [task EXCEPT ![t] = Starts(t, "create", "post", None)]
     \/ /\ view # "desktop"
        /\ \E w \in windows \cup ({active} \ {None}) :
             LET kind == IF w = active THEN "close" ELSE "closeOther"
             IN task' = [task EXCEPT ![t] = Starts(t, kind, "post", w)]
     \/ view = "desktop" /\ started /\ task' = [task EXCEPT ![t] = Starts(t, "stop", "post", None)]
     \/ view = "desktop" /\ ~started /\ task' = [task EXCEPT ![t] = Starts(t, "power", "start", None)]
  /\ Acts
  /\ UNCHANGED <<pageVars, protocol, sock, gatewayVars>>

\* switchDesktopOutput and switchDesktopTransport.
Switch(t) ==
  /\ NewTask(t) /\ view = "desktop" /\ started
  /\ Disposes
  /\ \/ /\ task' = [Cleared EXCEPT ![t] = Starts(t, "output", "wait", None)]
        /\ UNCHANGED protocol
     \/ /\ task' = [Cleared EXCEPT ![t] = Starts(t, "protocol", "wait", None)]
        /\ protocol' \in Protocols
  /\ Acts
  /\ UNCHANGED <<view, active, gatewayVars>>

\* switchDesktopTransport while the desktop is stopped.
Prefer ==
  /\ view = "desktop" /\ ~started
  /\ protocol' \in Protocols \ {protocol}
  /\ Acts
  /\ UNCHANGED <<pageVars, task, sock, gatewayVars>>
-----------------------------------------------------------------------------
(* What goes on after an await.                                            *)

\* A new socket becomes desktopSocket.
Opens(s, from, p, attempt) ==
  /\ NewSocket(s)
  /\ sock' = [from EXCEPT ![s] = [at |-> "opening", protocol |-> p, attempt |-> attempt]]
  /\ socket' = s
  /\ fallback' = (p = "wss")

ConnectDesktop(t) ==
  /\ \E s \in Sockets : Opens(s, Disposed, protocol, 0)
  /\ task' = [Cleared EXCEPT ![t] = Idle]
  /\ timer' = None
  /\ UNCHANGED <<view, active, protocol, gatewayVars, userVars>>

\* connectFallbackDesktop leaves the socket there is.
ConnectFallbackDesktop(t, attempt) ==
  /\ \E s \in Sockets : Opens(s, sock, "wss", attempt)
  /\ task' = [task EXCEPT ![t] = Idle]
  /\ UNCHANGED <<view, active, timer, protocol, gatewayVars, userVars>>

\* waitForDesktopViewerRelease sees no viewer.
Released(t) ==
  /\ task[t].at = "wait" /\ task[t].kind # "retry"
  /\ lease = Free
  /\ Goto(t, CASE task[t].kind = "browser" -> "focus"
               [] task[t].kind = "desktop" -> "status"
               [] task[t].kind = "output" -> "start"
               [] task[t].kind = "protocol" -> "connect"
               [] task[t].kind = "close" -> "list")
  /\ UNCHANGED <<pageVars, protocol, sock, gatewayVars, userVars>>

\* Mutant of Focus: the window is not brought to the front.
FocusNothing(t) ==
  /\ task[t].at = "focus" /\ task[t].window \in windows
  /\ Goto(t, "start")
  /\ UNCHANGED <<pageVars, protocol, sock, gatewayVars, userVars>>

Focus(t) ==
  /\ task[t].at = "focus" /\ task[t].window \in windows
  /\ focused' = task[t].window
  /\ Goto(t, "start")
  /\ UNCHANGED <<pageVars, protocol, sock, lease, started, windows, userVars>>

Start(t) ==
  /\ task[t].at = "start"
  /\ started' = TRUE
  /\ Goto(t, IF task[t].kind = "output" THEN "status" ELSE "connect")
  /\ UNCHANGED <<pageVars, protocol, sock, lease, windows, focused, userVars>>

\* renderDesktop connects if the desktop is active, switchDesktopOutput always.
Status(t) ==
  /\ task[t].at = "status"
  /\ IF started \/ task[t].kind = "output"
       THEN Goto(t, "connect")
       ELSE task' = [task EXCEPT ![t] = Idle]
  /\ UNCHANGED <<pageVars, protocol, sock, gatewayVars, userVars>>

Connect(t) ==
  /\ task[t].at = "connect"
  /\ IF task[t].kind = "browser" THEN ConnectFallbackDesktop(t, 0) ELSE ConnectDesktop(t)

\* The list of windows after a close, or for OPEN BROWSER.
List(t) ==
  /\ task[t].at = "list"
  /\ \/ \E w \in windows : Shows(w, w, [Cleared EXCEPT ![t] = Starts(t, "browser", "wait", w)])
     \/ /\ windows = {} /\ task[t].kind = "close"
        /\ Shows("terminal", None, [Cleared EXCEPT ![t] = Idle])
     \/ /\ windows = {} /\ task[t].kind = "open"
        /\ task' = [task EXCEPT ![t] = Starts(t, "create", "post", None)]
        /\ UNCHANGED <<pageVars, sock>>
  /\ UNCHANGED <<protocol, gatewayVars, userVars>>

\* The gateway has launched a window, closed one, or stopped the desktop.
Launch(t) ==
  /\ task[t].at = "post" /\ task[t].kind = "create"
  /\ \E w \in Windows \ windows :
       /\ windows' = windows \cup {w}
       /\ focused' = w
       /\ task' = [task EXCEPT ![t].at = "shown", ![t].window = w]
  /\ UNCHANGED <<pageVars, protocol, sock, lease, started, userVars>>

Launched(t) ==
  /\ task[t].at = "shown"
  /\ LET w == task[t].window
     IN Shows(w, w, [Cleared EXCEPT ![t] = Starts(t, "browser", "wait", w)])
  /\ UNCHANGED <<protocol, gatewayVars, userVars>>

CloseWindow(t) ==
  /\ task[t].at = "post" /\ task[t].kind \in {"close", "closeOther"} /\ task[t].window \in windows
  /\ windows' = windows \ {task[t].window}
  /\ focused' \in IF focused = task[t].window THEN windows' \cup {None} ELSE {focused}
  /\ Goto(t, "done")
  /\ UNCHANGED <<pageVars, protocol, sock, lease, started, userVars>>

StopDesktop(t) ==
  /\ task[t].at = "post" /\ task[t].kind = "stop"
  /\ started' = FALSE
  /\ Goto(t, "done")
  /\ UNCHANGED <<pageVars, protocol, sock, lease, windows, focused, userVars>>

\* The answer to a close or a stop: only now the stream is let go.
Answered(t) ==
  /\ task[t].at = "done"
  /\ \/ /\ task[t].kind = "close"
        /\ active' = None
        /\ task' = [Cleared EXCEPT ![t].at = "wait"]
        /\ Disposes
     \/ /\ task[t].kind = "stop"
        /\ task' = [Cleared EXCEPT ![t] = Idle]
        /\ Disposes
        /\ UNCHANGED active
     \/ /\ task[t].kind = "closeOther"
        /\ task' = [task EXCEPT ![t] = Idle]
        /\ UNCHANGED <<active, fallback, socket, timer, sock>>
  /\ UNCHANGED <<view, protocol, gatewayVars, userVars>>

\* A request fails or says no, or the wait is too long.
GivesUp(t) ==
  /\ task[t].at \in {"wait", "focus", "start", "status", "list", "post"}
  /\ IF task[t].kind = "close" /\ task[t].at \in {"wait", "list"}
       THEN Shows("terminal", None, [Cleared EXCEPT ![t] = Idle])
       ELSE task' = [task EXCEPT ![t] = Idle] /\ UNCHANGED <<pageVars, sock>>
  /\ UNCHANGED <<protocol, gatewayVars, userVars>>

\* Mutant of CloseEvent: there is always one more attempt.
CloseEventForever(s) ==
  /\ sock[s].at \in {"refused", "lost"}
  /\ sock' = [sock EXCEPT ![s] = Unused]
  /\ IF socket = s /\ sock[s].protocol = "wss"
       THEN /\ socket' = None
            /\ \E t \in Tasks :
                 /\ NewTask(t)
                 /\ task' = [task EXCEPT ![t] = [kind |-> "retry", at |-> "timer", window |-> None,
                                                 attempt |-> sock[s].attempt + 1]]
                 /\ timer' = t
       ELSE /\ socket' = IF socket = s THEN None ELSE socket
            /\ UNCHANGED <<task, timer>>
  /\ UNCHANGED <<view, active, fallback, protocol, gatewayVars, userVars>>

\* The page is told that a socket has closed.  Over WebRTC it only says so: the
\* closed socket stays desktopSocket, which nothing here tells from none.
CloseEvent(s) ==
  /\ sock[s].at \in {"refused", "lost"}
  /\ sock' = [sock EXCEPT ![s] = Unused]
  /\ IF socket = s /\ sock[s].protocol = "wss" /\ fallback /\ sock[s].attempt < MaxAttempts
       THEN /\ socket' = None
            /\ \E t \in Tasks :
                 /\ NewTask(t)
                 /\ task' = [task EXCEPT ![t] = [kind |-> "retry", at |-> "timer", window |-> None,
                                                 attempt |-> sock[s].attempt + 1]]
                 /\ timer' = t
       ELSE /\ socket' = IF socket = s THEN None ELSE socket
            /\ UNCHANGED <<task, timer>>
  /\ UNCHANGED <<view, active, fallback, protocol, gatewayVars, userVars>>

RetryFires(t) ==
  /\ task[t].at = "timer"
  /\ Goto(t, "wait")
  /\ timer' = None
  /\ UNCHANGED <<view, active, fallback, socket, protocol, sock, gatewayVars, userVars>>

\* Mutant of Retry: it does not look whether there is a socket by now.
RetryAnyway(t) ==
  /\ task[t].at = "wait" /\ task[t].kind = "retry" /\ lease = Free
  /\ IF fallback
       THEN ConnectFallbackDesktop(t, task[t].attempt)
       ELSE /\ task' = [task EXCEPT ![t] = Idle]
            /\ UNCHANGED <<pageVars, protocol, sock, gatewayVars, userVars>>

Retry(t) ==
  /\ task[t].at = "wait" /\ task[t].kind = "retry" /\ lease = Free
  /\ IF fallback /\ socket = None
       THEN ConnectFallbackDesktop(t, task[t].attempt)
       ELSE /\ task' = [task EXCEPT ![t] = Idle]
            /\ UNCHANGED <<pageVars, protocol, sock, gatewayVars, userVars>>
-----------------------------------------------------------------------------
(* The gateway.                                                            *)

\* A socket is answered: with the lease, or with a refusal.  One that the page
\* has closed meanwhile may still take it.
Upgrade(s) ==
  /\ sock[s].at \in {"opening", "aborted"}
  /\ IF lease = Free /\ started
       THEN /\ lease' = s
            /\ sock' = [sock EXCEPT ![s].at = IF @ = "opening" THEN "open" ELSE "closing"]
       ELSE /\ sock' = [sock EXCEPT ![s] = IF @.at = "opening" THEN [@ EXCEPT !.at = "refused"] ELSE Unused]
            /\ UNCHANGED lease
  /\ UNCHANGED <<pageVars, protocol, task, started, windows, focused, userVars>>

Gives(s) == lease' = IF lease = s THEN Free ELSE lease

SeesClose(s) ==
  /\ sock[s].at = "closing"
  /\ sock' = [sock EXCEPT ![s] = Unused]
  /\ Gives(s)
  /\ UNCHANGED <<pageVars, protocol, task, started, windows, focused, userVars>>

\* Mutant of Silent: the heartbeat goes to every open socket.
SilentNever(s) == FALSE

\* The page sends heartbeats and acknowledgements only to desktopSocket, and
\* only over HTTPS/WSS.
Silent(s) == sock[s].protocol = "wss" /\ socket # s

\* FALLBACK_VIEWER_TIMEOUT.  The page ignores that it has ended.
TimesOut(s) ==
  /\ sock[s].at = "open" /\ Silent(s)
  /\ sock' = [sock EXCEPT ![s] = Unused]
  /\ Gives(s)
  /\ UNCHANGED <<pageVars, protocol, task, started, windows, focused, userVars>>

\* The connection or the helper fails.
Loses(s) ==
  /\ sock[s].at = "open"
  /\ sock' = [sock EXCEPT ![s] = IF socket = s THEN [@ EXCEPT !.at = "lost"] ELSE Unused]
  /\ Gives(s)
  /\ UNCHANGED <<pageVars, protocol, task, started, windows, focused, userVars>>

OtherViewer ==
  /\ \/ lease = Free /\ lease' = Other
     \/ lease = Other /\ lease' = Free
  /\ UNCHANGED <<pageVars, protocol, task, sock, started, windows, focused, userVars>>

UserStep ==
  \/ RenderTerminal \/ Prefer
  \/ \E t \in Tasks : RenderDesktop(t) \/ RenderBrowser(t) \/ Ask(t) \/ Switch(t)
TaskStep(t) ==
  \/ Released(t) \/ Focus(t) \/ Start(t) \/ Status(t) \/ Connect(t) \/ List(t)
  \/ Launch(t) \/ Launched(t) \/ CloseWindow(t) \/ StopDesktop(t) \/ Answered(t) \/ GivesUp(t)
  \/ RetryFires(t) \/ Retry(t)

Next ==
  \/ UserStep
  \/ \E t \in Tasks : TaskStep(t)
  \/ \E s \in Sockets : CloseEvent(s) \/ Upgrade(s) \/ SeesClose(s) \/ TimesOut(s) \/ Loses(s)
  \/ OtherViewer

Spec == Init /\ [][Next]_vars

\* The gateway answers, notices what is closed, and keeps its time limit.
Fairness == \A s \in Sockets : WF_vars(Upgrade(s)) /\ WF_vars(SeesClose(s)) /\ WF_vars(TimesOut(s))

FairSpec == Spec /\ Fairness
-----------------------------------------------------------------------------
(* Properties.                                                             *)

TaskSet ==
  [kind : {"none", "desktop", "browser", "open", "create", "close", "closeOther", "stop", "power",
           "output", "protocol", "retry"},
   at : {"none", "wait", "focus", "start", "status", "connect", "list", "post", "shown", "done", "timer"},
   window : Windows \cup {None}, attempt : 0..MaxAttempts]
SocketSet ==
  [at : {"unused", "opening", "aborted", "open", "closing", "refused", "lost"},
   protocol : {"webrtc", "wss"}, attempt : 0..MaxAttempts]

\* Types; a connection is tried again at most MaxAttempts times.
TypeOK ==
  /\ view \in {"terminal", "desktop"} \cup Windows /\ active \in Windows \cup {None}
  /\ protocol \in Protocols /\ fallback \in BOOLEAN
  /\ socket \in Sockets \cup {None} /\ timer \in Tasks \cup {None}
  /\ task \in [Tasks -> TaskSet] /\ sock \in [Sockets -> SocketSet]
  /\ lease \in Sockets \cup {Free, Other}
  /\ started \in BOOLEAN /\ windows \in SUBSET Windows /\ focused \in Windows \cup {None}
  /\ acts \in 0..MaxActs /\ hasty \in BOOLEAN

\* docs/eutherbrowse-stability-slice.md:29, views close the transport they leave:
\* unless the user was faster than an await, the page has no socket but
\* desktopSocket, whatever was refused, lost and retried, and none beside a terminal.
OneStream ==
  ~hasty =>
    /\ \A s \in Sockets : sock[s].at \in {"opening", "open"} => s = socket
    /\ view = "terminal" => socket = None

\* docs/eutherbrowse-first-slice.md:18, "Selecting a chip focuses ... that exact
\* Sway container": unless the user was faster than an await, a stream in the
\* browser view of a window shows that window.
ShowsItsWindow ==
  ~hasty /\ ~Pending /\ view \in Windows /\ socket # None => focused = view

\* docs/eutherbrowse-stability-slice.md:36, "A viewer with no application message
\* for 20 seconds is released": a socket over HTTPS/WSS that the page has lost
\* sight of gives the lease back.  The gateway's time limit is taken for granted
\* here; what a helper that does not read does to it is GoneReleased of FrameGate.
LostStreamReleased ==
  \A s \in Sockets : (lease = s /\ sock[s].protocol = "wss" /\ socket # s) ~> (lease # s)

\* docs/eutherbrowse-stability-slice.md:33, "The UI waits up to 23 seconds,
\* covering the server's stale-viewer lease": the same for any socket.
StaleViewerReleased == \A s \in Sockets : (lease = s /\ socket # s) ~> (lease # s)
=============================================================================
