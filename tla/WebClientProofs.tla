---------------------------- MODULE WebClientProofs ----------------------------
(***************************************************************************)
(* Proofs about WebClient, for any windows, sockets, functions under way   *)
(* and retries, and any number of things the user does: however hurried,   *)
(* the gateway serves one socket and one the page lost stays lost; without *)
(* hurry there is one stream, and it shows the window the view is of.      *)
(***************************************************************************)
EXTENDS WebClient, TLAPS

\* Which functions can be at which await; k is a member of TaskSet.
Placed(k) ==
  /\ k.kind = "none" <=> k = Idle
  /\ k.at = "wait" => k.kind \in {"desktop", "browser", "close", "output", "protocol", "retry"}
  /\ k.at = "focus" => k.kind = "browser"
  /\ k.at = "start" => k.kind \in {"browser", "power", "output"}
  /\ k.at = "status" => k.kind \in {"desktop", "output"}
  /\ k.at = "connect" => k.kind \in {"desktop", "browser", "power", "output", "protocol"}
  /\ k.at = "list" => k.kind \in {"open", "close"}
  /\ k.at = "post" => k.kind \in {"create", "close", "closeOther", "stop"}
  /\ k.at = "shown" => k.kind = "create" /\ k.window \in Windows
  /\ k.at = "done" => k.kind \in {"close", "closeOther", "stop"}
  /\ k.at = "timer" => k.kind = "retry"
  /\ k.kind = "retry" => k.at \in {"timer", "wait"}

\* The functions are where they can be; the timer the page knows is a retry's.
TaskInv ==
  /\ \A t \in Tasks : Placed(task[t])
  /\ timer # None => task[timer].kind = "retry" /\ task[timer].at = "timer"

\* The socket the page knows has not been closed by it.
Known == socket # None => sock[socket].at \in {"opening", "open", "refused", "lost"}

Base == TypeOK /\ TaskInv /\ Known

USE NoneAssumption, ViewAssumption, LeaseAssumption, ProtocolAssumption, NumberAssumption

\* The step leaves every function alone but t, which becomes k, and the retries
\* it may end.
Becomes(t, k) ==
  /\ task' \in [Tasks -> TaskSet]
  /\ task'[t] = k
  /\ \A u \in Tasks \ {t} : task'[u] = task[u] \/ (task'[u] = Idle /\ task[u].kind = "retry")

LEMMA IdleTyped == Idle \in TaskSet
  BY DEF Idle, TaskSet

LEMMA UnusedTyped == Unused \in SocketSet
  BY DEF Unused, SocketSet

LEMMA ClearedIs ==
  ASSUME Base
  PROVE  /\ Cleared \in [Tasks -> TaskSet]
         /\ \A u \in Tasks : Cleared[u] = task[u] \/ (Cleared[u] = Idle /\ task[u].kind = "retry")
  BY IdleTyped DEF Base, TypeOK, TaskInv, Cleared

LEMMA DisposedIs ==
  ASSUME Base
  PROVE  /\ Disposed \in [Sockets -> SocketSet]
         /\ \A s \in Sockets :
              /\ Disposed[s].at \in {"opening", "open"} => s # socket /\ Disposed[s] = sock[s]
              /\ Disposed[s].at \in {"open", "closing"} <=> sock[s].at \in {"open", "closing"}
<1> USE DEF Base
<1>1. CASE socket = None
  BY <1>1 DEF Disposed, TypeOK
<1>2. CASE socket \in Sockets
  <2>1. [Unused EXCEPT !.at = "aborted"] \in SocketSet /\ [Unused EXCEPT !.at = "closing"] \in SocketSet
    BY DEF Unused, SocketSet
  <2> DEFINE n == CASE sock[socket].at = "opening" -> [Unused EXCEPT !.at = "aborted"]
                    [] sock[socket].at = "open" -> [Unused EXCEPT !.at = "closing"]
                    [] OTHER -> Unused
  <2>2. Disposed = [sock EXCEPT ![socket] = n]
    BY <1>2 DEF Disposed
  <2>3. /\ n \in SocketSet /\ n.at \notin {"opening", "open"}
        /\ n.at = "closing" <=> sock[socket].at = "open"
    <3>1. CASE sock[socket].at = "opening"
      <4>1. n = [Unused EXCEPT !.at = "aborted"]
        BY <3>1
      <4>2. QED BY ONLY <2>1, <3>1, <4>1 DEF Unused
    <3>2. CASE sock[socket].at = "open"
      <4>1. n = [Unused EXCEPT !.at = "closing"]
        BY <3>2
      <4>2. QED BY ONLY <2>1, <3>2, <4>1 DEF Unused
    <3>3. CASE sock[socket].at \notin {"opening", "open"}
      <4>1. n = Unused
        BY <3>3
      <4>2. QED BY ONLY <3>3, <4>1, UnusedTyped DEF Unused
    <3>4. QED BY <3>1, <3>2, <3>3
  <2> HIDE DEF n
  <2>4. sock[socket].at # "closing"
    BY <1>2 DEF Known
  <2>5. QED BY <1>2, <2>2, <2>3, <2>4 DEF TypeOK
<1>3. QED BY <1>1, <1>2 DEF TypeOK

LEMMA BecomesIs ==
  ASSUME Base, NEW t \in Tasks, NEW k \in TaskSet,
         task' = [task EXCEPT ![t] = k] \/ task' = [Cleared EXCEPT ![t] = k]
  PROVE  Becomes(t, k)
  BY ClearedIs DEF Becomes, Base, TypeOK

\* Going on at another await.
LEMMA GotoIs ==
  ASSUME Base, NEW t \in Tasks, NEW at, [task[t] EXCEPT !.at = at] \in TaskSet, Goto(t, at)
  PROVE  Becomes(t, [task[t] EXCEPT !.at = at])
<1>1. task' = [task EXCEPT ![t] = [task[t] EXCEPT !.at = at]]
  BY DEF Goto
<1>2. QED BY <1>1, BecomesIs

LEMMA StartsIs ==
  ASSUME NEW t, NEW kind, NEW at, NEW w
  PROVE  LET k == Starts(t, kind, at, w)
         IN k.kind = kind /\ k.at = at /\ k.window = w /\ k.attempt = 0
  BY DEF Starts, Idle

LEMMA StartsTyped ==
  ASSUME NEW t,
         NEW kind \in {"desktop", "browser", "open", "create", "close", "closeOther", "stop", "power",
                       "output", "protocol"},
         NEW at \in {"wait", "list", "post", "start"},
         NEW w \in Windows \cup {None}
  PROVE  Starts(t, kind, at, w) \in TaskSet /\ Starts(t, kind, at, w) # Idle
<1>1. Starts(t, kind, at, w) \in TaskSet
  BY IdleTyped DEF Starts, TaskSet, Idle
<1>2. Starts(t, kind, at, w).kind # Idle.kind
  BY StartsIs DEF Idle
<1>3. QED BY <1>1, <1>2

LEMMA PlacedIdle == Placed(Idle)
  BY DEF Placed, Idle

\* Where a function may go.
LEMMA PlacedStep ==
  ASSUME Base, NEW t \in Tasks, NEW k \in TaskSet, Becomes(t, k), Placed(k),
         \/ timer' = None
         \/ timer' = timer /\ timer # t /\ task' = [task EXCEPT ![t] = k]
         \/ timer' = t /\ k.kind = "retry" /\ k.at = "timer"
  PROVE  task' \in [Tasks -> TaskSet] /\ TaskInv'
<1>1. \A u \in Tasks : Placed(task[u])' 
  BY PlacedIdle DEF Becomes, Base, TaskInv
<1>2. timer' # None => task'[timer'].kind = "retry" /\ task'[timer'].at = "timer"
  BY DEF Base, TaskInv, TypeOK, Becomes
<1>3. QED BY <1>1, <1>2 DEF Becomes, TaskInv

\* A view that is left takes its stream and its retry with it.
LEMMA DisposesIs ==
  ASSUME Base, Disposes
  PROVE  /\ sock' \in [Sockets -> SocketSet] /\ socket' = None /\ fallback' = FALSE /\ timer' = None
         /\ Known'
  BY DisposedIs DEF Disposes, Known

\* The functions after a step that leaves the timer alone, and after one that clears it.
LEMMA GoesOn ==
  ASSUME Base, NEW t \in Tasks, NEW k \in TaskSet, Placed(k),
         \/ task' = [task EXCEPT ![t] = k] /\ timer' = timer /\ task[t].at # "timer"
         \/ task' = [task EXCEPT ![t] = k] /\ timer' = None
         \/ task' = [Cleared EXCEPT ![t] = k] /\ timer' = None
  PROVE  Becomes(t, k) /\ task' \in [Tasks -> TaskSet] /\ TaskInv'
<1>1. Becomes(t, k)
  BY BecomesIs
<1>2. timer' = timer => timer' = None \/ timer # t
  BY DEF Base, TaskInv
<1>3. CASE timer' = None
  BY <1>1, <1>3, PlacedStep
<1>4. CASE timer' = timer /\ task' = [task EXCEPT ![t] = k]
  BY <1>1, <1>2, <1>3, <1>4, PlacedStep
<1>5. QED BY <1>1, <1>3, <1>4

LEMMA PlacedStarts ==
  ASSUME NEW t, NEW w \in Windows \cup {None}, NEW kind, NEW at,
         \/ kind \in {"desktop", "browser", "output", "protocol"} /\ at = "wait"
         \/ kind = "open" /\ at = "list"
         \/ kind \in {"create", "close", "closeOther", "stop"} /\ at = "post"
         \/ kind = "power" /\ at = "start"
  PROVE  Starts(t, kind, at, w) \in TaskSet /\ Placed(Starts(t, kind, at, w))
<1>1. Starts(t, kind, at, w) \in TaskSet /\ Starts(t, kind, at, w) # Idle
  BY StartsTyped
<1>2. QED BY <1>1, StartsIs DEF Placed

LEMMA NewTaskIs ==
  ASSUME NEW t \in Tasks, NewTask(t)
  PROVE  task[t] = Idle /\ task[t].kind = "none" /\ task[t].at = "none"
  BY DEF NewTask, Idle

LEMMA ActsTyped == ASSUME TypeOK, Acts PROVE acts' \in 0..MaxActs /\ hasty' \in BOOLEAN
<1>1. acts' \in 0..MaxActs
  BY DEF TypeOK, Acts
<1>2. hasty' \in BOOLEAN
  BY DEF TypeOK, Acts, Pending
<1>3. QED BY <1>1, <1>2

\* What the user does keeps the types and the places.
LEMMA BaseUser == ASSUME Base, UserStep PROVE Base'
<1> USE DEF Base
<1>1. CASE RenderTerminal
  <2>1. Disposes /\ view' = "terminal" /\ active' = None /\ task' = Cleared
    BY <1>1 DEF RenderTerminal, Shows
  <2>2. TaskInv' /\ task' \in [Tasks -> TaskSet]
    BY <2>1, ClearedIs, DisposesIs, PlacedIdle DEF TaskInv
  <2>3. acts' \in 0..MaxActs /\ hasty' \in BOOLEAN
    BY <1>1, ActsTyped DEF RenderTerminal
  <2>4. QED BY <1>1, <2>1, <2>2, <2>3, DisposesIs DEF RenderTerminal, TypeOK, gatewayVars
<1>2. CASE Prefer
  <2>1. acts' \in 0..MaxActs /\ hasty' \in BOOLEAN
    BY <1>2, ActsTyped DEF Prefer
  <2>2. QED BY <1>2, <2>1 DEF Prefer, TypeOK, TaskInv, Known, pageVars, gatewayVars
<1>3. ASSUME NEW t \in Tasks, RenderDesktop(t) PROVE Base'
  <2>1. /\ Disposes /\ view' = "desktop" /\ active' = active
        /\ task' = [Cleared EXCEPT ![t] = Starts(t, "desktop", "wait", None)]
    BY <1>3 DEF RenderDesktop, Shows
  <2>2. TaskInv' /\ task' \in [Tasks -> TaskSet]
    BY <2>1, GoesOn, DisposesIs, PlacedStarts
  <2>3. acts' \in 0..MaxActs /\ hasty' \in BOOLEAN
    BY <1>3, ActsTyped DEF RenderDesktop
  <2>4. QED BY <1>3, <2>1, <2>2, <2>3, DisposesIs DEF RenderDesktop, TypeOK, gatewayVars
<1>4. ASSUME NEW t \in Tasks, RenderBrowser(t) PROVE Base'
  <2>1. PICK w \in Windows : 
          /\ Disposes /\ view' = w /\ active' = w
          /\ task' = [Cleared EXCEPT ![t] = Starts(t, "browser", "wait", w)]
    BY <1>4 DEF RenderBrowser, Shows, TypeOK
  <2>2. TaskInv' /\ task' \in [Tasks -> TaskSet]
    BY <2>1, GoesOn, DisposesIs, PlacedStarts
  <2>3. acts' \in 0..MaxActs /\ hasty' \in BOOLEAN
    BY <1>4, ActsTyped DEF RenderBrowser
  <2>4. QED BY <1>4, <2>1, <2>2, <2>3, DisposesIs DEF RenderBrowser, TypeOK, gatewayVars
<1>5. ASSUME NEW t \in Tasks, Ask(t) PROVE Base'
  <2>1. PICK k \in TaskSet : task' = [task EXCEPT ![t] = k] /\ Placed(k)
    <3>1. Starts(t, "open", "list", None) \in TaskSet /\ Placed(Starts(t, "open", "list", None))
      BY PlacedStarts
    <3>2. Starts(t, "create", "post", None) \in TaskSet /\ Placed(Starts(t, "create", "post", None))
      BY PlacedStarts
    <3>3. ASSUME NEW w \in Windows
          PROVE  /\ Starts(t, "close", "post", w) \in TaskSet /\ Placed(Starts(t, "close", "post", w))
                 /\ Starts(t, "closeOther", "post", w) \in TaskSet /\ Placed(Starts(t, "closeOther", "post", w))
      BY PlacedStarts
    <3>4. Starts(t, "stop", "post", None) \in TaskSet /\ Placed(Starts(t, "stop", "post", None))
      BY PlacedStarts
    <3>5. Starts(t, "power", "start", None) \in TaskSet /\ Placed(Starts(t, "power", "start", None))
      BY PlacedStarts
    <3>6. windows \cup ({active} \ {None}) \subseteq Windows
      BY DEF TypeOK
    <3>7. QED BY <1>5, <3>1, <3>2, <3>3, <3>4, <3>5, <3>6 DEF Ask
  <2>2. TaskInv' /\ task' \in [Tasks -> TaskSet]
    BY <1>5, <2>1, GoesOn, NewTaskIs DEF Ask, pageVars
  <2>3. acts' \in 0..MaxActs /\ hasty' \in BOOLEAN
    BY <1>5, ActsTyped DEF Ask
  <2>4. QED BY <1>5, <2>2, <2>3 DEF Ask, TypeOK, Known, pageVars, gatewayVars
<1>6. ASSUME NEW t \in Tasks, Switch(t) PROVE Base'
  <2>1. PICK kind \in {"output", "protocol"} : task' = [Cleared EXCEPT ![t] = Starts(t, kind, "wait", None)]
    BY <1>6 DEF Switch
  <2>2. TaskInv' /\ task' \in [Tasks -> TaskSet]
    BY <1>6, <2>1, GoesOn, DisposesIs, PlacedStarts DEF Switch
  <2>3. acts' \in 0..MaxActs /\ hasty' \in BOOLEAN
    BY <1>6, ActsTyped DEF Switch
  <2>4. protocol' \in Protocols
    BY <1>6 DEF Switch, TypeOK
  <2>5. QED BY <1>6, <2>2, <2>3, <2>4, DisposesIs DEF Switch, TypeOK, gatewayVars
<1>7. QED BY <1>1, <1>2, <1>3, <1>4, <1>5, <1>6 DEF UserStep

\* A new socket, which the page then knows.
LEMMA OpensIs ==
  ASSUME NEW s \in Sockets, NEW from \in [Sockets -> SocketSet], NEW p \in {"webrtc", "wss"},
         NEW attempt \in 0..MaxAttempts, Opens(s, from, p, attempt)
  PROVE  /\ sock' \in [Sockets -> SocketSet] /\ socket' = s /\ fallback' = (p = "wss")
         /\ sock[s] = Unused /\ sock'[s].at = "opening" /\ Known'
         /\ \A u \in Sockets \ {s} : sock'[u] = from[u]
  BY DEF Opens, NewSocket, Known, SocketSet

LEMMA FallbackTyped ==
  ASSUME NEW s \in Sockets, NEW from, NEW p, NEW attempt, Opens(s, from, p, attempt)
  PROVE  fallback' \in BOOLEAN
  BY DEF Opens

\* A function that connects is over then; its socket is the one the page knows.
LEMMA ConnectDesktopIs ==
  ASSUME Base, NEW t \in Tasks, ConnectDesktop(t)
  PROVE  \E s \in Sockets :
           /\ Opens(s, Disposed, protocol, 0)
           /\ sock' \in [Sockets -> SocketSet] /\ socket' = s /\ fallback' \in BOOLEAN /\ Known'
           /\ sock[s] = Unused /\ sock'[s].at = "opening"
           /\ \A u \in Sockets \ {s} : sock'[u] = Disposed[u]
           /\ Becomes(t, Idle) /\ timer' = None /\ TaskInv'
           /\ UNCHANGED <<view, active, protocol, gatewayVars, userVars>>
<1>1. PICK s \in Sockets : Opens(s, Disposed, protocol, 0)
  BY DEF ConnectDesktop
<1>2. Disposed \in [Sockets -> SocketSet] /\ protocol \in {"webrtc", "wss"} /\ 0 \in 0..MaxAttempts
  BY DisposedIs DEF Base, TypeOK
<1>3. Becomes(t, Idle) /\ TaskInv'
  BY GoesOn, IdleTyped, PlacedIdle DEF ConnectDesktop
<1>4. fallback' \in BOOLEAN
  BY <1>1, FallbackTyped
<1>5. /\ sock' \in [Sockets -> SocketSet] /\ socket' = s /\ Known'
      /\ sock[s] = Unused /\ sock'[s].at = "opening"
      /\ \A u \in Sockets \ {s} : sock'[u] = Disposed[u]
  BY <1>1, <1>2, OpensIs
<1>6. QED BY <1>1, <1>3, <1>4, <1>5 DEF ConnectDesktop

LEMMA ConnectFallbackIs ==
  ASSUME Base, NEW t \in Tasks, task[t].at # "timer", NEW attempt \in 0..MaxAttempts,
         ConnectFallbackDesktop(t, attempt)
  PROVE  \E s \in Sockets :
           /\ Opens(s, sock, "wss", attempt)
           /\ sock' \in [Sockets -> SocketSet] /\ socket' = s /\ fallback' = TRUE /\ Known'
           /\ sock[s] = Unused /\ sock'[s].at = "opening"
           /\ \A u \in Sockets \ {s} : sock'[u] = sock[u]
           /\ Becomes(t, Idle) /\ TaskInv'
           /\ UNCHANGED <<view, active, timer, protocol, gatewayVars, userVars>>
<1>1. PICK s \in Sockets : Opens(s, sock, "wss", attempt)
  BY DEF ConnectFallbackDesktop
<1>2. sock \in [Sockets -> SocketSet]
  BY DEF Base, TypeOK
<1>3. Becomes(t, Idle) /\ TaskInv'
  BY GoesOn, IdleTyped, PlacedIdle DEF ConnectFallbackDesktop
<1>4. fallback' = TRUE
  BY <1>1 DEF Opens
<1>5. /\ sock' \in [Sockets -> SocketSet] /\ socket' = s /\ Known'
      /\ sock[s] = Unused /\ sock'[s].at = "opening"
      /\ \A u \in Sockets \ {s} : sock'[u] = sock[u]
  BY <1>1, <1>2, OpensIs
<1>6. QED BY <1>1, <1>3, <1>4, <1>5 DEF ConnectFallbackDesktop

\* A function moved to another await is still one.
LEMMA AtTyped ==
  ASSUME Base, NEW t \in Tasks,
         NEW at \in {"wait", "focus", "start", "status", "connect", "list", "post", "shown", "done"}
  PROVE  /\ [task[t] EXCEPT !.at = at] \in TaskSet
         /\ [task[t] EXCEPT !.at = at].at = at
         /\ [task[t] EXCEPT !.at = at].kind = task[t].kind
         /\ [task[t] EXCEPT !.at = at].window = task[t].window
         /\ task[t].kind # "none" => [task[t] EXCEPT !.at = at] # Idle
  BY DEF Base, TypeOK, TaskSet, Idle

LEMMA PlacedAt ==
  ASSUME Base, NEW t \in Tasks, task[t].kind # "none",
         NEW at \in {"wait", "focus", "start", "status", "connect", "list", "post", "shown", "done"},
         \/ at = "wait" /\ task[t].kind \in {"desktop", "browser", "close", "output", "protocol", "retry"}
         \/ at = "focus" /\ task[t].kind = "browser"
         \/ at = "start" /\ task[t].kind \in {"browser", "power", "output"}
         \/ at = "status" /\ task[t].kind \in {"desktop", "output"}
         \/ at = "connect" /\ task[t].kind \in {"desktop", "browser", "power", "output", "protocol"}
         \/ at = "list" /\ task[t].kind \in {"open", "close"}
         \/ at = "done" /\ task[t].kind \in {"close", "closeOther", "stop"}
  PROVE  Placed([task[t] EXCEPT !.at = at])
<1> DEFINE k == [task[t] EXCEPT !.at = at]
<1>1. k.at = at /\ k.kind = task[t].kind /\ k # Idle
  BY AtTyped, ZenonT(60)
<1> HIDE DEF k
<1>2. Placed(k)
  BY <1>1 DEF Placed
<1>3. QED BY <1>2 DEF k

\* A function that goes on at a place it can be at.
LEMMA GoingOn ==
  ASSUME Base, NEW t \in Tasks, task[t].at \notin {"none", "timer"},
         NEW at \in {"wait", "focus", "start", "status", "connect", "list", "post", "shown", "done"},
         Goto(t, at), Placed([task[t] EXCEPT !.at = at]), UNCHANGED <<pageVars, sock>>
  PROVE  /\ Becomes(t, [task[t] EXCEPT !.at = at])
         /\ TaskInv' /\ Known' /\ task' \in [Tasks -> TaskSet]
<1>1. task' = [task EXCEPT ![t] = [task[t] EXCEPT !.at = at]]
  BY DEF Goto
<1>2. [task[t] EXCEPT !.at = at] \in TaskSet
  BY AtTyped
<1>3. QED BY <1>1, <1>2, GoesOn DEF pageVars, Known, Base

LEMMA ReleasedIs ==
  ASSUME Base, NEW t \in Tasks, Released(t)
  PROVE  \E at \in {"focus", "status", "start", "connect", "list"} :
           /\ task[t].at = "wait"
           /\ \/ task[t].kind = "browser" /\ at = "focus"
              \/ task[t].kind = "desktop" /\ at = "status"
              \/ task[t].kind = "output" /\ at = "start"
              \/ task[t].kind = "protocol" /\ at = "connect"
              \/ task[t].kind = "close" /\ at = "list"
           /\ Becomes(t, [task[t] EXCEPT !.at = at]) /\ TaskInv' /\ Known'
<1>1. task[t].at = "wait" /\ task[t].kind \in {"browser", "desktop", "output", "protocol", "close"}
  BY DEF Released, Base, TaskInv, Placed
<1>2. PICK at \in {"focus", "status", "start", "connect", "list"} :
           /\ Goto(t, at)
           /\ \/ task[t].kind = "browser" /\ at = "focus"
              \/ task[t].kind = "desktop" /\ at = "status"
              \/ task[t].kind = "output" /\ at = "start"
              \/ task[t].kind = "protocol" /\ at = "connect"
              \/ task[t].kind = "close" /\ at = "list"
  BY <1>1 DEF Released
<1>3. Placed([task[t] EXCEPT !.at = at])
  BY <1>1, <1>2, PlacedAt
<1>4. UNCHANGED <<pageVars, sock>>
  BY DEF Released
<1>5. QED BY <1>1, <1>2, <1>3, <1>4, GoingOn

LEMMA FocusIs ==
  ASSUME Base, NEW t \in Tasks, Focus(t)
  PROVE  /\ task[t].at = "focus" /\ task[t].kind = "browser"
         /\ Becomes(t, [task[t] EXCEPT !.at = "start"]) /\ TaskInv' /\ Known'
<1>1. task[t].at = "focus" /\ task[t].kind = "browser" /\ Goto(t, "start") /\ UNCHANGED <<pageVars, sock>>
  BY DEF Focus, Base, TaskInv, Placed
<1>2. Placed([task[t] EXCEPT !.at = "start"])
  BY <1>1, PlacedAt
<1>3. QED BY <1>1, <1>2, GoingOn

LEMMA StartIs ==
  ASSUME Base, NEW t \in Tasks, Start(t)
  PROVE  \E at \in {"status", "connect"} :
           /\ task[t].at = "start" /\ task[t].kind \in {"browser", "power", "output"}
           /\ Becomes(t, [task[t] EXCEPT !.at = at]) /\ TaskInv' /\ Known'
<1>1. task[t].at = "start" /\ task[t].kind \in {"browser", "power", "output"} /\ UNCHANGED <<pageVars, sock>>
  BY DEF Start, Base, TaskInv, Placed
<1>2. PICK at \in {"status", "connect"} : Goto(t, at) /\ (at = "status" <=> task[t].kind = "output")
  BY DEF Start
<1>3. Placed([task[t] EXCEPT !.at = at])
  BY <1>1, <1>2, PlacedAt
<1>4. QED BY <1>1, <1>2, <1>3, GoingOn

LEMMA StatusIs ==
  ASSUME Base, NEW t \in Tasks, Status(t)
  PROVE  /\ task[t].at = "status" /\ task[t].kind \in {"desktop", "output"}
         /\ Becomes(t, Idle) \/ Becomes(t, [task[t] EXCEPT !.at = "connect"])
         /\ TaskInv' /\ Known'
<1>1. task[t].at = "status" /\ task[t].kind \in {"desktop", "output"} /\ UNCHANGED <<pageVars, sock>>
  BY DEF Status, Base, TaskInv, Placed
<1>2. CASE Goto(t, "connect")
  <2>1. Placed([task[t] EXCEPT !.at = "connect"])
    BY <1>1, PlacedAt
  <2>2. QED BY <1>1, <1>2, <2>1, GoingOn
<1>3. CASE task' = [task EXCEPT ![t] = Idle]
  BY <1>1, <1>3, GoesOn, IdleTyped, PlacedIdle DEF pageVars, Base, Known
<1>4. QED BY <1>2, <1>3 DEF Status

\* The window a function shows.
LEMMA ShowsIs ==
  ASSUME Base, NEW t \in Tasks, NEW w \in Windows,
         Shows(w, w, [Cleared EXCEPT ![t] = Starts(t, "browser", "wait", w)])
  PROVE  /\ Becomes(t, Starts(t, "browser", "wait", w)) /\ TaskInv' /\ Known'
         /\ Disposes /\ view' = w /\ active' = w
  BY GoesOn, PlacedStarts, DisposesIs DEF Shows

LEMMA TerminalIs ==
  ASSUME Base, NEW t \in Tasks, Shows("terminal", None, [Cleared EXCEPT ![t] = Idle])
  PROVE  /\ Becomes(t, Idle) /\ TaskInv' /\ Known'
         /\ Disposes /\ view' = "terminal" /\ active' = None
  BY GoesOn, IdleTyped, PlacedIdle, DisposesIs DEF Shows

LEMMA ListIs ==
  ASSUME Base, NEW t \in Tasks, List(t)
  PROVE  /\ task[t].at = "list" /\ task[t].kind \in {"open", "close"} /\ TaskInv' /\ Known'
         /\ \/ \E w \in Windows :
                 Becomes(t, Starts(t, "browser", "wait", w)) /\ Disposes /\ view' = w /\ active' = w
            \/ Becomes(t, Idle) /\ Disposes /\ view' = "terminal" /\ active' = None
            \/ /\ task[t].kind = "open"
               /\ Becomes(t, Starts(t, "create", "post", None)) /\ UNCHANGED <<pageVars, sock>>
<1>1. task[t].at = "list" /\ task[t].kind \in {"open", "close"}
  BY DEF List, Base, TaskInv, Placed
<1>2. windows \subseteq Windows
  BY DEF Base, TypeOK
<1>3. ASSUME NEW w \in windows, Shows(w, w, [Cleared EXCEPT ![t] = Starts(t, "browser", "wait", w)])
      PROVE  /\ Becomes(t, Starts(t, "browser", "wait", w)) /\ Disposes /\ view' = w /\ active' = w
             /\ TaskInv' /\ Known'
  BY <1>2, <1>3, ShowsIs
<1>4. ASSUME task' = [task EXCEPT ![t] = Starts(t, "create", "post", None)], UNCHANGED <<pageVars, sock>>
      PROVE  Becomes(t, Starts(t, "create", "post", None)) /\ TaskInv' /\ Known'
  BY <1>1, <1>4, GoesOn, PlacedStarts DEF pageVars, Base, Known
<1>5. QED BY <1>1, <1>2, <1>3, <1>4, TerminalIs DEF List

LEMMA LaunchIs ==
  ASSUME Base, NEW t \in Tasks, Launch(t)
  PROVE  \E w \in Windows, k \in TaskSet :
           /\ task[t].at = "post" /\ task[t].kind = "create"
           /\ windows' = windows \cup {w} /\ focused' = w
           /\ k.at = "shown" /\ k.kind = "create" /\ k.window = w
           /\ Becomes(t, k) /\ TaskInv' /\ Known'
<1>1. PICK w \in Windows :
        /\ windows' = windows \cup {w} /\ focused' = w
        /\ task' = [task EXCEPT ![t].at = "shown", ![t].window = w]
  BY DEF Launch
<1> DEFINE k == [task[t] EXCEPT !.at = "shown", !.window = w]
<1>2. task[t].at = "post" /\ task[t].kind = "create" /\ task[t] \in TaskSet
  BY DEF Launch, Base, TypeOK
<1>3. k \in TaskSet /\ k.at = "shown" /\ k.kind = "create" /\ k.window = w
  BY <1>2 DEF TaskSet
<1>4. task' = [task EXCEPT ![t] = k]
  BY <1>1 DEF Base, TypeOK
<1> HIDE DEF k
<1>5. Placed(k)
  BY <1>3 DEF Placed, Idle
<1>6. Becomes(t, k) /\ TaskInv' /\ Known'
  BY <1>2, <1>3, <1>4, <1>5, GoesOn DEF Launch, pageVars, Base, Known
<1>7. QED BY <1>1, <1>2, <1>3, <1>6

LEMMA LaunchedIs ==
  ASSUME Base, NEW t \in Tasks, Launched(t)
  PROVE  \E w \in Windows :
           /\ task[t].at = "shown" /\ task[t].kind = "create"
           /\ Becomes(t, Starts(t, "browser", "wait", w)) /\ TaskInv' /\ Known'
           /\ Disposes /\ view' = w /\ active' = w
<1>1. task[t].at = "shown" /\ task[t].kind = "create" /\ task[t].window \in Windows
  BY DEF Launched, Base, TaskInv, Placed
<1>2. Shows(task[t].window, task[t].window,
            [Cleared EXCEPT ![t] = Starts(t, "browser", "wait", task[t].window)])
  BY DEF Launched
<1>3. QED BY <1>1, <1>2, ShowsIs

LEMMA CloseWindowIs ==
  ASSUME Base, NEW t \in Tasks, CloseWindow(t)
  PROVE  /\ task[t].at = "post" /\ task[t].kind \in {"close", "closeOther"} /\ task[t].window \in Windows
         /\ focused # task[t].window => focused' = focused
         /\ focused' \in Windows \cup {None}
         /\ Becomes(t, [task[t] EXCEPT !.at = "done"]) /\ TaskInv' /\ Known'
<1>1. /\ task[t].at = "post" /\ task[t].kind \in {"close", "closeOther"} /\ task[t].window \in windows
      /\ Goto(t, "done") /\ UNCHANGED <<pageVars, sock>>
  BY DEF CloseWindow
<1>2. Placed([task[t] EXCEPT !.at = "done"])
  BY <1>1, PlacedAt
<1>3. windows \subseteq Windows /\ focused \in Windows \cup {None}
  BY DEF Base, TypeOK
<1>4. focused' \in Windows \cup {None} /\ (focused # task[t].window => focused' = focused)
  BY <1>3 DEF CloseWindow
<1>5. QED BY <1>1, <1>2, <1>3, <1>4, GoingOn

LEMMA StopDesktopIs ==
  ASSUME Base, NEW t \in Tasks, StopDesktop(t)
  PROVE  /\ task[t].at = "post" /\ task[t].kind = "stop"
         /\ Becomes(t, [task[t] EXCEPT !.at = "done"]) /\ TaskInv' /\ Known'
<1>1. /\ task[t].at = "post" /\ task[t].kind = "stop"
      /\ Goto(t, "done") /\ UNCHANGED <<pageVars, sock>>
  BY DEF StopDesktop
<1>2. Placed([task[t] EXCEPT !.at = "done"])
  BY <1>1, PlacedAt
<1>3. QED BY <1>1, <1>2, GoingOn

LEMMA AnsweredIs ==
  ASSUME Base, NEW t \in Tasks, Answered(t)
  PROVE  /\ task[t].at = "done" /\ TaskInv' /\ Known'
         /\ \/ /\ task[t].kind = "close" /\ active' = None /\ Disposes
               /\ Becomes(t, [task[t] EXCEPT !.at = "wait"])
            \/ /\ task[t].kind = "stop" /\ active' = active /\ Disposes
               /\ Becomes(t, Idle)
            \/ /\ task[t].kind = "closeOther" /\ UNCHANGED <<active, fallback, socket, timer, sock>>
               /\ Becomes(t, Idle)
<1>1. task[t].at = "done"
  BY DEF Answered
<1>2. CASE /\ task[t].kind = "close" /\ active' = None /\ Disposes
           /\ task' = [Cleared EXCEPT ![t].at = "wait"]
  <2>1. Cleared[t] = task[t] /\ Cleared \in [Tasks -> TaskSet]
    BY <1>2, ClearedIs
  <2>2. task' = [Cleared EXCEPT ![t] = [task[t] EXCEPT !.at = "wait"]]
    BY <1>2, <2>1
  <2>3. Placed([task[t] EXCEPT !.at = "wait"]) /\ [task[t] EXCEPT !.at = "wait"] \in TaskSet
    BY <1>2, PlacedAt, AtTyped
  <2>4. QED BY <1>1, <1>2, <2>2, <2>3, GoesOn, DisposesIs
<1>3. CASE task[t].kind = "stop" /\ active' = active /\ Disposes /\ task' = [Cleared EXCEPT ![t] = Idle]
  BY <1>1, <1>3, GoesOn, IdleTyped, PlacedIdle, DisposesIs
<1>4. CASE /\ task[t].kind = "closeOther" /\ UNCHANGED <<active, fallback, socket, timer, sock>>
           /\ task' = [task EXCEPT ![t] = Idle]
  BY <1>1, <1>4, GoesOn, IdleTyped, PlacedIdle DEF Base, Known
<1>5. QED BY <1>2, <1>3, <1>4 DEF Answered

LEMMA GivesUpIs ==
  ASSUME Base, NEW t \in Tasks, GivesUp(t)
  PROVE  /\ task[t].at \in {"wait", "focus", "start", "status", "list", "post"}
         /\ Becomes(t, Idle) /\ TaskInv' /\ Known'
         /\ \/ /\ task[t].kind = "close" /\ task[t].at \in {"wait", "list"}
               /\ Disposes /\ view' = "terminal" /\ active' = None
            \/ /\ ~(task[t].kind = "close" /\ task[t].at \in {"wait", "list"})
               /\ UNCHANGED <<pageVars, sock>>
<1>1. CASE task[t].kind = "close" /\ task[t].at \in {"wait", "list"}
  BY <1>1, TerminalIs DEF GivesUp
<1>2. CASE ~(task[t].kind = "close" /\ task[t].at \in {"wait", "list"})
  <2>1. task' = [task EXCEPT ![t] = Idle] /\ UNCHANGED <<pageVars, sock>>
    BY <1>2 DEF GivesUp
  <2>2. QED BY <1>2, <2>1, GoesOn, IdleTyped, PlacedIdle DEF GivesUp, pageVars, Base, Known
<1>3. QED BY <1>1, <1>2

LEMMA RetryFiresIs ==
  ASSUME Base, NEW t \in Tasks, RetryFires(t)
  PROVE  /\ task[t].kind = "retry" /\ timer' = None
         /\ Becomes(t, [task[t] EXCEPT !.at = "wait"]) /\ TaskInv' /\ Known'
<1>1. task[t].kind = "retry"
  BY DEF RetryFires, Base, TaskInv, Placed
<1>2. Placed([task[t] EXCEPT !.at = "wait"]) /\ [task[t] EXCEPT !.at = "wait"] \in TaskSet
  BY <1>1, PlacedAt, AtTyped
<1>3. task' = [task EXCEPT ![t] = [task[t] EXCEPT !.at = "wait"]]
  BY DEF RetryFires, Goto
<1>4. QED BY <1>1, <1>2, <1>3, GoesOn DEF RetryFires, Base, Known

\* A retry connects only when there is no socket and the page still wants one.
LEMMA RetryIs ==
  ASSUME Base, NEW t \in Tasks, Retry(t)
  PROVE  /\ task[t].kind = "retry" /\ Becomes(t, Idle) /\ TaskInv' /\ Known'
         /\ \/ /\ fallback /\ socket = None
               /\ ConnectFallbackDesktop(t, task[t].attempt)
            \/ UNCHANGED <<pageVars, protocol, sock, gatewayVars, userVars>>
<1>1. task[t].kind = "retry" /\ task[t].at = "wait" /\ task[t].attempt \in 0..MaxAttempts
  BY DEF Retry, Base, TypeOK, TaskSet
<1>2. CASE fallback /\ socket = None
  <2>1. ConnectFallbackDesktop(t, task[t].attempt)
    BY <1>2 DEF Retry
  <2>2. QED BY <1>1, <1>2, <2>1, ConnectFallbackIs
<1>3. CASE ~(fallback /\ socket = None)
  <2>1. /\ task' = [task EXCEPT ![t] = Idle]
        /\ UNCHANGED <<pageVars, protocol, sock, gatewayVars, userVars>>
    BY <1>3 DEF Retry
  <2>2. QED BY <1>1, <2>1, GoesOn, IdleTyped, PlacedIdle DEF pageVars, Base, Known
<1>4. QED BY <1>2, <1>3

LEMMA ConnectIs ==
  ASSUME Base, NEW t \in Tasks, Connect(t)
  PROVE  /\ task[t].at = "connect" /\ Becomes(t, Idle) /\ TaskInv' /\ Known'
         /\ \/ task[t].kind = "browser" /\ ConnectFallbackDesktop(t, 0)
            \/ task[t].kind \in {"desktop", "power", "output", "protocol"} /\ ConnectDesktop(t)
<1>1. task[t].at = "connect" /\ task[t].kind \in {"desktop", "browser", "power", "output", "protocol"}
  BY DEF Connect, Base, TaskInv, Placed
<1>2. CASE task[t].kind = "browser"
  <2>1. ConnectFallbackDesktop(t, 0) /\ 0 \in 0..MaxAttempts
    BY <1>2 DEF Connect
  <2>2. QED BY <1>1, <1>2, <2>1, ConnectFallbackIs
<1>3. CASE task[t].kind # "browser"
  <2>1. ConnectDesktop(t)
    BY <1>3 DEF Connect
  <2>2. QED BY <1>1, <1>3, <2>1, ConnectDesktopIs
<1>4. QED BY <1>2, <1>3

\* What the functions do keeps the types and the places.
LEMMA BaseTask == ASSUME Base, NEW t \in Tasks, TaskStep(t) PROVE Base'
<1> USE DEF Base
<1>1. CASE Released(t) \/ Status(t)
  <2>1. TaskInv' /\ Known' /\ task' \in [Tasks -> TaskSet]
    BY <1>1, ReleasedIs, StatusIs DEF Becomes
  <2>2. UNCHANGED <<pageVars, protocol, sock, gatewayVars, userVars>>
    BY <1>1 DEF Released, Status
  <2>3. QED BY <2>1, <2>2 DEF TypeOK, pageVars, gatewayVars, userVars
<1>2. CASE Focus(t)
  <2>1. TaskInv' /\ Known' /\ task' \in [Tasks -> TaskSet]
    BY <1>2, FocusIs DEF Becomes
  <2>2. focused' \in Windows \cup {None} /\ UNCHANGED <<pageVars, protocol, sock, lease, started, windows, userVars>>
    BY <1>2 DEF Focus, TypeOK
  <2>3. QED BY <2>1, <2>2 DEF TypeOK, pageVars, userVars
<1>3. CASE Start(t) \/ StopDesktop(t)
  <2>1. TaskInv' /\ Known' /\ task' \in [Tasks -> TaskSet]
    BY <1>3, StartIs, StopDesktopIs DEF Becomes
  <2>2. started' \in BOOLEAN /\ UNCHANGED <<pageVars, protocol, sock, lease, windows, focused, userVars>>
    BY <1>3 DEF Start, StopDesktop
  <2>3. QED BY <2>1, <2>2 DEF TypeOK, pageVars, userVars
<1>4. CASE Connect(t) \/ Retry(t)
  <2>1. TaskInv' /\ Known' /\ task' \in [Tasks -> TaskSet]
    BY <1>4, ConnectIs, RetryIs DEF Becomes
  <2>2. CASE ConnectDesktop(t)
    <3>1. PICK s \in Sockets :
            /\ sock' \in [Sockets -> SocketSet] /\ socket' = s /\ fallback' \in BOOLEAN /\ timer' = None
            /\ UNCHANGED <<view, active, protocol, gatewayVars, userVars>>
      BY <2>2, ConnectDesktopIs
    <3>2. QED BY <2>1, <3>1 DEF TypeOK, gatewayVars, userVars
  <2>3. ASSUME NEW attempt \in 0..MaxAttempts, ConnectFallbackDesktop(t, attempt) PROVE Base'
    <3>1. task[t].at # "timer"
      BY <1>4 DEF Connect, Retry
    <3>2. PICK s \in Sockets :
            /\ sock' \in [Sockets -> SocketSet] /\ socket' = s /\ fallback' = TRUE
            /\ UNCHANGED <<view, active, timer, protocol, gatewayVars, userVars>>
      BY <2>3, <3>1, ConnectFallbackIs
    <3>3. QED BY <2>1, <3>2 DEF TypeOK, gatewayVars, userVars
  <2>4. CASE UNCHANGED <<pageVars, protocol, sock, gatewayVars, userVars>>
    BY <2>1, <2>4 DEF TypeOK, pageVars, gatewayVars, userVars
  <2>5. 0 \in 0..MaxAttempts /\ task[t].attempt \in 0..MaxAttempts
    BY DEF TypeOK, TaskSet
  <2>6. QED BY <1>4, <2>2, <2>3, <2>4, <2>5, ConnectIs, RetryIs
<1>5. CASE List(t) \/ Launched(t) \/ GivesUp(t)
  <2>1. TaskInv' /\ Known' /\ task' \in [Tasks -> TaskSet]
    BY <1>5, ListIs, LaunchedIs, GivesUpIs DEF Becomes
  <2>2. UNCHANGED <<protocol, gatewayVars, userVars>>
    BY <1>5 DEF List, Launched, GivesUp
  <2>3. \/ UNCHANGED <<pageVars, sock>>
        \/ Disposes /\ view' \in {"terminal"} \cup Windows /\ active' \in Windows \cup {None}
    BY <1>5, ListIs, LaunchedIs, GivesUpIs
  <2>4. QED BY <2>1, <2>2, <2>3, DisposesIs DEF TypeOK, pageVars, gatewayVars, userVars
<1>6. CASE Launch(t)
  <2>1. PICK w \in Windows :
          windows' = windows \cup {w} /\ focused' = w /\ TaskInv' /\ Known' /\ task' \in [Tasks -> TaskSet]
    BY <1>6, LaunchIs DEF Becomes
  <2>2. QED BY <1>6, <2>1 DEF Launch, TypeOK, pageVars, userVars
<1>7. CASE CloseWindow(t)
  <2>1. focused' \in Windows \cup {None} /\ TaskInv' /\ Known' /\ task' \in [Tasks -> TaskSet]
    BY <1>7, CloseWindowIs DEF Becomes
  <2>2. QED BY <1>7, <2>1 DEF CloseWindow, TypeOK, pageVars, userVars
<1>8. CASE Answered(t)
  <2>1. TaskInv' /\ Known' /\ task' \in [Tasks -> TaskSet]
    BY <1>8, AnsweredIs DEF Becomes
  <2>2. /\ active' \in Windows \cup {None}
        /\ Disposes \/ UNCHANGED <<fallback, socket, timer, sock>>
    BY <1>8, AnsweredIs DEF TypeOK
  <2>3. QED BY <1>8, <2>1, <2>2, DisposesIs DEF Answered, TypeOK, gatewayVars, userVars
<1>9. CASE RetryFires(t)
  <2>1. TaskInv' /\ Known' /\ task' \in [Tasks -> TaskSet] /\ timer' = None
    BY <1>9, RetryFiresIs DEF Becomes
  <2>2. QED BY <1>9, <2>1 DEF RetryFires, TypeOK, gatewayVars, userVars
<1>10. QED BY <1>1, <1>2, <1>3, <1>4, <1>5, <1>6, <1>7, <1>8, <1>9 DEF TaskStep

\* A socket that closed is gone; the page has a retry for it, or none.
LEMMA CloseEventIs ==
  ASSUME Base, NEW s \in Sockets, CloseEvent(s)
  PROVE  /\ sock' = [sock EXCEPT ![s] = Unused] /\ sock[s].at \in {"refused", "lost"}
         /\ socket' = (IF socket = s THEN None ELSE socket)
         /\ TaskInv' /\ Known' /\ timer' \in Tasks \cup {None} /\ task' \in [Tasks -> TaskSet]
         /\ \/ UNCHANGED task
            \/ /\ fallback
               /\ \E t \in Tasks, k \in TaskSet :
                    /\ task[t] = Idle /\ Becomes(t, k)
                    /\ k.kind = "retry"
<1>1. sock' = [sock EXCEPT ![s] = Unused] /\ sock[s].at \in {"refused", "lost"}
  BY DEF CloseEvent
<1>2. socket' = (IF socket = s THEN None ELSE socket)
  BY DEF CloseEvent
<1>3. Known'
  BY <1>1, <1>2 DEF Known, Base, TypeOK
<1>4. CASE UNCHANGED <<task, timer>>
  BY <1>1, <1>2, <1>3, <1>4 DEF Base, TypeOK, TaskInv
<1>5. CASE socket = s /\ sock[s].protocol = "wss" /\ fallback /\ sock[s].attempt < MaxAttempts
  <2> DEFINE k == [kind |-> "retry", at |-> "timer", window |-> None, attempt |-> sock[s].attempt + 1]
  <2>1. PICK t \in Tasks : NewTask(t) /\ task' = [task EXCEPT ![t] = k] /\ timer' = t
    BY <1>5 DEF CloseEvent
  <2>2. sock[s].attempt \in 0..MaxAttempts
    BY DEF Base, TypeOK, SocketSet
  <2>3. sock[s].attempt + 1 \in 0..MaxAttempts
    BY <1>5, <2>2
  <2>4. k \in TaskSet /\ k.kind = "retry" /\ k.at = "timer"
    BY <2>3 DEF TaskSet
  <2> HIDE DEF k
  <2>5. Placed(k)
    BY <2>4 DEF Placed, Idle
  <2>6. Becomes(t, k)
    BY <2>1, <2>4, BecomesIs
  <2>7. TaskInv' /\ task' \in [Tasks -> TaskSet]
    BY <2>1, <2>4, <2>5, <2>6, PlacedStep
  <2>8. task[t] = Idle
    BY <2>1, NewTaskIs
  <2>9. QED BY <1>1, <1>2, <1>3, <1>5, <2>1, <2>4, <2>6, <2>7, <2>8
<1>6. QED BY <1>4, <1>5 DEF CloseEvent

\* What a step of the gateway makes of a socket.
LEMMA SocketMoves ==
  ASSUME TypeOK, NEW s \in Sockets,
         NEW at \in {"unused", "opening", "aborted", "open", "closing", "refused", "lost"}
  PROVE  [sock[s] EXCEPT !.at = at] \in SocketSet /\ [sock[s] EXCEPT !.at = at].at = at
  BY DEF TypeOK, SocketSet

LEMMA GatewayIs ==
  ASSUME Base, NEW s \in Sockets, Upgrade(s) \/ SeesClose(s) \/ TimesOut(s) \/ Loses(s)
  PROVE  \E c \in SocketSet :
           /\ sock' = [sock EXCEPT ![s] = c] /\ sock[s].at \in {"opening", "aborted", "open", "closing"}
           /\ \/ /\ sock[s].at \in {"opening", "aborted"} /\ lease = Free /\ lease' = s
                 /\ c.at = (IF sock[s].at = "opening" THEN "open" ELSE "closing")
              \/ /\ sock[s].at \in {"opening", "aborted"} /\ UNCHANGED lease
                 /\ c.at = (IF sock[s].at = "opening" THEN "refused" ELSE "unused")
              \/ sock[s].at \in {"open", "closing"} /\ Gives(s) /\ c.at \in {"lost", "unused"}
           /\ socket = s => c.at \in {"open", "refused", "lost"}
<1> USE DEF Base
<1>1. CASE Upgrade(s)
  <2>1. CASE lease = Free /\ started /\ sock[s].at = "opening"
    <3> DEFINE c == [sock[s] EXCEPT !.at = "open"]
    <3>1. sock' = [sock EXCEPT ![s] = c] /\ lease' = s
      BY <1>1, <2>1 DEF Upgrade
    <3>2. c \in SocketSet /\ c.at = "open"
      BY SocketMoves
    <3> HIDE DEF c
    <3>3. QED BY <2>1, <3>1, <3>2
  <2>2. CASE lease = Free /\ started /\ sock[s].at = "aborted"
    <3> DEFINE c == [sock[s] EXCEPT !.at = "closing"]
    <3>1. sock' = [sock EXCEPT ![s] = c] /\ lease' = s
      BY <1>1, <2>2 DEF Upgrade
    <3>2. c \in SocketSet /\ c.at = "closing"
      BY SocketMoves
    <3> HIDE DEF c
    <3>3. QED BY <2>2, <3>1, <3>2 DEF Known
  <2>3. CASE ~(lease = Free /\ started) /\ sock[s].at = "opening"
    <3> DEFINE c == [sock[s] EXCEPT !.at = "refused"]
    <3>1. sock' = [sock EXCEPT ![s] = c] /\ lease' = lease
      BY <1>1, <2>3 DEF Upgrade
    <3>2. c \in SocketSet /\ c.at = "refused"
      BY SocketMoves
    <3> HIDE DEF c
    <3>3. QED BY <2>3, <3>1, <3>2
  <2>4. CASE ~(lease = Free /\ started) /\ sock[s].at = "aborted"
    <3>1. sock' = [sock EXCEPT ![s] = Unused] /\ lease' = lease
      BY <1>1, <2>4 DEF Upgrade
    <3>2. Unused.at = "unused" /\ socket # s
      BY <2>4 DEF Unused, Known
    <3>3. QED BY <2>4, <3>1, <3>2, UnusedTyped
  <2>5. QED BY <1>1, <2>1, <2>2, <2>3, <2>4 DEF Upgrade
<1>2. CASE SeesClose(s) \/ TimesOut(s)
  <2>1. /\ sock' = [sock EXCEPT ![s] = Unused] /\ sock[s].at \in {"open", "closing"} /\ Gives(s)
        /\ socket # s
    BY <1>2 DEF SeesClose, TimesOut, Silent, Known
  <2>2. Unused.at = "unused"
    BY DEF Unused
  <2>3. QED BY <2>1, <2>2, UnusedTyped
<1>3. CASE Loses(s)
  <2>1. CASE socket = s
    <3>1. sock' = [sock EXCEPT ![s] = [sock[s] EXCEPT !.at = "lost"]] /\ sock[s].at = "open" /\ Gives(s)
      BY <1>3, <2>1 DEF Loses
    <3>2. QED BY <3>1, SocketMoves
  <2>2. CASE socket # s
    <3>1. sock' = [sock EXCEPT ![s] = Unused] /\ sock[s].at = "open" /\ Gives(s)
      BY <1>3, <2>2 DEF Loses
    <3>2. Unused.at = "unused"
      BY DEF Unused
    <3>3. QED BY <2>2, <3>1, <3>2, UnusedTyped
  <2>3. QED BY <2>1, <2>2
<1>4. QED BY <1>1, <1>2, <1>3

LEMMA BaseSocket ==
  ASSUME Base, NEW s \in Sockets,
         CloseEvent(s) \/ Upgrade(s) \/ SeesClose(s) \/ TimesOut(s) \/ Loses(s)
  PROVE  Base'
<1> USE DEF Base
<1>1. CASE CloseEvent(s)
  <2>1. /\ sock' = [sock EXCEPT ![s] = Unused]
        /\ socket' = (IF socket = s THEN None ELSE socket)
        /\ TaskInv' /\ Known' /\ timer' \in Tasks \cup {None} /\ task' \in [Tasks -> TaskSet]
    BY <1>1, CloseEventIs
  <2>2. UNCHANGED <<view, active, fallback, protocol, gatewayVars, userVars>>
    BY <1>1 DEF CloseEvent
  <2>3. QED BY <2>1, <2>2, UnusedTyped DEF TypeOK, gatewayVars, userVars
<1>2. CASE Upgrade(s) \/ SeesClose(s) \/ TimesOut(s) \/ Loses(s)
  <2>1. PICK c \in SocketSet :
          /\ sock' = [sock EXCEPT ![s] = c] /\ lease' \in {lease, s, Free}
          /\ socket = s => c.at \in {"open", "refused", "lost"}
    BY <1>2, GatewayIs DEF Gives
  <2>2. UNCHANGED <<pageVars, protocol, task, started, windows, focused, userVars>>
    BY <1>2 DEF Upgrade, SeesClose, TimesOut, Loses
  <2>3. Known'
    BY <2>1, <2>2 DEF Known, TypeOK, pageVars
  <2>4. QED BY <2>1, <2>2, <2>3 DEF TypeOK, TaskInv, pageVars, userVars
<1>3. QED BY <1>1, <1>2

LEMMA BaseNext == ASSUME Base, [Next]_vars PROVE Base'
<1>1. CASE OtherViewer
  BY <1>1 DEF OtherViewer, Base, TypeOK, TaskInv, Known, pageVars, userVars
<1>2. CASE UNCHANGED vars
  BY <1>2 DEF vars, Base, TypeOK, TaskInv, Known, pageVars, gatewayVars, userVars
<1>3. QED BY <1>1, <1>2, BaseUser, BaseTask, BaseSocket DEF Next

LEMMA BaseInit == Init => Base
<1> SUFFICES ASSUME Init PROVE Base
  OBVIOUS
<1>1. task \in [Tasks -> TaskSet] /\ sock \in [Sockets -> SocketSet]
  BY IdleTyped, UnusedTyped DEF Init
<1>2. TaskInv
  BY PlacedIdle DEF Init, TaskInv
<1>3. acts \in 0..MaxActs
  BY DEF Init
<1>4. hasty \in BOOLEAN /\ fallback \in BOOLEAN /\ started \in BOOLEAN
  BY Zenon DEF Init
<1>5. QED BY <1>1, <1>2, <1>3, <1>4 DEF Init, Base, TypeOK, Known

\* Every variable keeps its type; a connection is tried again at most MaxAttempts times.
THEOREM TypeCorrect == Spec => []TypeOK
<1>1. Base => TypeOK
  BY DEF Base
<1>2. QED BY <1>1, BaseInit, BaseNext, PTL DEF Spec
-----------------------------------------------------------------------------
(* The gateway and the page.                                               *)

\* The gateway serves the socket that has its lease, and no other.
OneServed == \A s \in Sockets : sock[s].at \in {"open", "closing"} <=> lease = s

\* A step of the page neither opens nor ends a connection at the gateway, and
\* what it takes for its socket is the one it knew or a new one.
PageStep ==
  /\ lease' = lease
  /\ \A s \in Sockets :
       /\ sock'[s].at \in {"open", "closing"} <=> sock[s].at \in {"open", "closing"}
       /\ socket' = s => socket = s \/ sock[s] = Unused

LEMMA DisposesPage == ASSUME Base, Disposes, lease' = lease PROVE PageStep
  BY DisposesIs, DisposedIs DEF Disposes, PageStep

LEMMA ConnectPage ==
  ASSUME Base, NEW t \in Tasks,
         \/ ConnectDesktop(t)
         \/ \E attempt \in 0..MaxAttempts : ConnectFallbackDesktop(t, attempt) /\ task[t].at # "timer"
  PROVE  PageStep
<1>1. CASE ConnectDesktop(t)
  <2>1. PICK s \in Sockets :
          /\ socket' = s /\ sock[s] = Unused /\ sock'[s].at = "opening" /\ lease' = lease
          /\ \A u \in Sockets \ {s} : sock'[u] = Disposed[u]
    BY <1>1, ConnectDesktopIs DEF gatewayVars
  <2>2. sock[s].at = "unused"
    BY <2>1 DEF Unused
  <2>3. QED BY <2>1, <2>2, DisposedIs DEF PageStep
<1>2. CASE \E attempt \in 0..MaxAttempts : ConnectFallbackDesktop(t, attempt) /\ task[t].at # "timer"
  <2>1. PICK s \in Sockets :
          /\ socket' = s /\ sock[s] = Unused /\ sock'[s].at = "opening" /\ lease' = lease
          /\ \A u \in Sockets \ {s} : sock'[u] = sock[u]
    BY <1>2, ConnectFallbackIs DEF gatewayVars
  <2>2. sock[s].at = "unused"
    BY <2>1 DEF Unused
  <2>3. QED BY <2>1, <2>2 DEF PageStep
<1>3. QED BY <1>1, <1>2

LEMMA PageKeeps ==
  ASSUME Base, UserStep \/ \E t \in Tasks : TaskStep(t)
  PROVE  PageStep
<1>1. ASSUME UNCHANGED <<socket, sock, lease>> PROVE PageStep
  BY <1>1, Zenon DEF PageStep
<1>2. CASE UserStep
  <2>1. CASE RenderTerminal
    BY <2>1, DisposesPage DEF RenderTerminal, Shows, gatewayVars
  <2>2. CASE Prefer
    BY <1>1, <2>2 DEF Prefer, pageVars, gatewayVars
  <2>3. ASSUME NEW t \in Tasks, RenderDesktop(t) \/ RenderBrowser(t) \/ Switch(t) PROVE PageStep
    BY <2>3, DisposesPage DEF RenderDesktop, RenderBrowser, Switch, Shows, gatewayVars
  <2>4. ASSUME NEW t \in Tasks, Ask(t) PROVE PageStep
    BY <1>1, <2>4 DEF Ask, pageVars, gatewayVars
  <2>5. QED BY <1>2, <2>1, <2>2, <2>3, <2>4 DEF UserStep
<1>3. ASSUME NEW t \in Tasks, TaskStep(t) PROVE PageStep
  <2>1. CASE Released(t) \/ Focus(t) \/ Start(t) \/ Status(t) \/ Launch(t) \/ CloseWindow(t) \/ StopDesktop(t)
             \/ RetryFires(t)
    BY <1>1, <2>1 DEF Released, Focus, Start, Status, Launch, CloseWindow, StopDesktop, RetryFires,
                      pageVars, gatewayVars
  <2>2. CASE List(t) \/ Launched(t) \/ GivesUp(t) \/ Answered(t)
    <3>1. lease' = lease
      BY <2>2 DEF List, Launched, GivesUp, Answered, gatewayVars
    <3>2. Disposes \/ UNCHANGED <<socket, sock>>
      BY <2>2, ListIs, LaunchedIs, GivesUpIs, AnsweredIs DEF pageVars
    <3>3. QED BY <1>1, <3>1, <3>2, DisposesPage
  <2>3. CASE Connect(t) \/ Retry(t)
    <3>1. task[t].at # "timer" /\ 0 \in 0..MaxAttempts /\ task[t].attempt \in 0..MaxAttempts
      BY <2>3 DEF Connect, Retry, Base, TypeOK, TaskSet
    <3>2. CASE UNCHANGED <<pageVars, protocol, sock, gatewayVars, userVars>>
      BY <1>1, <3>2 DEF pageVars, gatewayVars
    <3>3. QED BY <2>3, <3>1, <3>2, ConnectIs, RetryIs, ConnectPage
  <2>4. QED BY <1>3, <2>1, <2>2, <2>3 DEF TaskStep
<1>4. QED BY <1>2, <1>3

LEMMA ServedStep == ASSUME Base, OneServed, [Next]_vars PROVE OneServed'
<1>1. CASE PageStep
  BY <1>1 DEF PageStep, OneServed
<1>2. ASSUME NEW s \in Sockets, CloseEvent(s) PROVE OneServed'
  <2>1. sock' = [sock EXCEPT ![s] = Unused] /\ sock[s].at \in {"refused", "lost"} /\ lease' = lease
    BY <1>2 DEF CloseEvent, gatewayVars
  <2>2. Unused.at = "unused"
    BY DEF Unused
  <2>3. QED BY <2>1, <2>2 DEF OneServed, Base, TypeOK
<1>3. ASSUME NEW s \in Sockets, Upgrade(s) \/ SeesClose(s) \/ TimesOut(s) \/ Loses(s) PROVE OneServed'
  <2>1. PICK c \in SocketSet :
          /\ sock' = [sock EXCEPT ![s] = c]
          /\ \/ /\ sock[s].at \in {"opening", "aborted"} /\ lease = Free /\ lease' = s
                /\ c.at \in {"open", "closing"}
             \/ /\ sock[s].at \in {"opening", "aborted"} /\ UNCHANGED lease
                /\ c.at \in {"refused", "unused"}
             \/ sock[s].at \in {"open", "closing"} /\ Gives(s) /\ c.at \in {"lost", "unused"}
    BY <1>3, GatewayIs
  <2>2. QED BY <2>1 DEF OneServed, Gives, Base, TypeOK
<1>4. CASE OtherViewer
  BY <1>4 DEF OtherViewer, OneServed, Base, TypeOK
<1>5. CASE UNCHANGED vars
  BY <1>5 DEF vars, gatewayVars, OneServed
<1>6. QED BY <1>1, <1>2, <1>3, <1>4, <1>5, PageKeeps DEF Next

LEMMA ServedInit == Init => OneServed
  BY DEF Init, OneServed, Unused

\* acquire_desktop_viewer (main.rs:1622) lets one viewer in: however the user
\* hurries, the gateway has at most one socket of the page connected, the one
\* that has the lease, until it has let go of it.
THEOREM OneConnected == Spec => []OneServed
<1>1. Init => Base /\ OneServed
  BY BaseInit, ServedInit
<1>2. Base /\ OneServed /\ [Next]_vars => (Base /\ OneServed)'
  BY BaseNext, ServedStep
<1>3. QED BY <1>1, <1>2, PTL DEF Spec

\* A connected socket that is not the one the page knows (desktopSocket,
\* main.ts:130) never becomes it again while it is connected.
LostForGood ==
  [][\A s \in Sockets : lease = s /\ socket # s => lease' # s \/ socket' # s]_vars

\* A connection the page has lost sight of stays lost, so that nothing keeps the
\* gateway from timing it out: this is what LostStreamReleased rests on.
THEOREM LostStays == Spec => LostForGood
<1>1. Base /\ OneServed /\ [Next]_vars =>
        [\A s \in Sockets : lease = s /\ socket # s => lease' # s \/ socket' # s]_vars
  <2> SUFFICES ASSUME Base, OneServed, Next, NEW s \in Sockets, lease = s, socket # s, socket' = s
               PROVE  FALSE
    BY DEF vars
  <2>1. sock[s] # Unused
    BY DEF OneServed, Unused
  <2>2. ~PageStep
    BY <2>1 DEF PageStep
  <2>3. PICK u \in Sockets : CloseEvent(u) \/ Upgrade(u) \/ SeesClose(u) \/ TimesOut(u) \/ Loses(u)
    BY <2>2, PageKeeps DEF Next, OtherViewer, pageVars
  <2>4. socket' \in {socket, None}
    BY <2>3 DEF CloseEvent, Upgrade, SeesClose, TimesOut, Loses, pageVars
  <2>5. QED BY <2>4
<1>2. Init => Base /\ OneServed
  BY BaseInit, ServedInit
<1>3. Base /\ OneServed /\ [Next]_vars => (Base /\ OneServed)'
  BY BaseNext, ServedStep
<1>4. QED BY <1>1, <1>2, <1>3, PTL DEF Spec, LostForGood
-----------------------------------------------------------------------------
(* Without hurry: at most one function of the user's is under way.         *)

Busy(k) == k.kind \notin {"none", "retry"}

\* The function has let go of the stream, and nothing brings it back but itself.
Apart(k) ==
  \/ k.kind \in {"desktop", "browser", "output", "protocol"}
  \/ k.kind = "close" /\ k.at \in {"wait", "list"}

\* The function knows more than the view shows: a window it has opened or closed.
Ahead(k) == k.at = "shown" \/ (k.kind = "close" /\ k.at = "done")

\* What the function relies on at the await it is at.
Relies(k) ==
  /\ Apart(k) => socket = None /\ ~fallback
  /\ k.kind \in {"desktop", "output", "protocol", "power", "stop"} => view = "desktop"
  /\ k.kind = "browser" => view \in Windows /\ view = k.window /\ (k.at \in {"start", "connect"} => focused = view)
  /\ k.kind = "close" => view \in Windows /\ (k.at \in {"post", "done"} => active = k.window)
  /\ k.kind = "closeOther" => active # k.window

OneAtATime == \A t, u \in Tasks : Busy(task[t]) /\ Busy(task[u]) => t = u

NoStray == \A s \in Sockets : sock[s].at \in {"opening", "open"} => s = socket

\* What the page shows; k is the function under way, if there is one.
ViewFits ==
  /\ view = "terminal" => socket = None /\ ~fallback /\ active = None
  /\ view \in Windows => active = view \/ \E t \in Tasks : task[t].kind = "close" /\ task[t].at \in {"wait", "list"}
  /\ view \in Windows /\ (fallback \/ socket # None) => focused = view \/ \E t \in Tasks : Ahead(task[t])

Calm ==
  /\ OneAtATime
  /\ NoStray
  /\ \A t \in Tasks : Busy(task[t]) => Relies(task[t])
  /\ ViewFits

CalmInv == ~hasty => Calm

LEMMA DisposesStray == ASSUME Base, NoStray, Disposes PROVE NoStray'
  BY DisposesIs, DisposedIs DEF Disposes, NoStray

LEMMA IdleNotBusy == ~Busy(Idle) /\ ~Apart(Idle) /\ ~Ahead(Idle)
  BY DEF Busy, Apart, Ahead, Idle

\* After a step of the one function under way, calm is what that function and the page say.
LEMMA CalmOne ==
  ASSUME Base, NEW t \in Tasks, NEW k \in TaskSet, Becomes(t, k),
         \A u \in Tasks \ {t} : ~Busy(task[u]),
         NoStray', Busy(k) => Relies(k)',
         view' = "terminal" => socket' = None /\ ~fallback' /\ active' = None,
         view' \in Windows => active' = view' \/ (k.kind = "close" /\ k.at \in {"wait", "list"}),
         view' \in Windows /\ (fallback' \/ socket' # None) => focused' = view' \/ Ahead(k)
  PROVE  Calm'
<1>1. \A u \in Tasks \ {t} : ~Busy(task'[u])
  BY IdleNotBusy DEF Becomes
<1>2. task'[t] = k
  BY DEF Becomes
<1>3. OneAtATime'
  BY <1>1 DEF OneAtATime
<1>4. \A u \in Tasks : Busy(task'[u]) => Relies(task[u])'
  <2> SUFFICES ASSUME NEW u \in Tasks, Busy(task'[u]) PROVE Relies(task[u])'
    OBVIOUS
  <2>1. u = t
    BY <1>1
  <2>2. QED BY <1>2, <2>1 DEF Relies
<1>5. ViewFits'
  BY <1>2 DEF ViewFits
<1>6. QED BY <1>3, <1>4, <1>5 DEF Calm, Busy

\* An unhurried user acts only while nothing is under way.
LEMMA CalmUser == ASSUME Base, CalmInv, UserStep, ~hasty' PROVE Calm'
<1> USE DEF Base
<1>1. ~hasty /\ \A t \in Tasks : ~Busy(task[t])
  <2>1. Acts
    BY DEF UserStep, RenderTerminal, Prefer, RenderDesktop, RenderBrowser, Ask, Switch
  <2>2. QED BY <2>1, Zenon DEF Acts, Pending, Busy
<1>2. Calm
  BY <1>1 DEF CalmInv
<1>3. None \notin Windows /\ "terminal" \notin Windows /\ "desktop" \notin Windows
  OBVIOUS
<1>4. CASE RenderTerminal
  <2>1. Disposes /\ view' = "terminal" /\ active' = None /\ task' = Cleared
    BY <1>4 DEF RenderTerminal, Shows
  <2>2. socket' = None /\ fallback' = FALSE /\ NoStray'
    BY <1>2, <2>1, DisposesIs, DisposesStray DEF Calm
  <2>3. \A t \in Tasks : ~Busy(task'[t])
    BY <1>1, <2>1, ClearedIs, IdleNotBusy
  <2>4. QED BY <1>3, <2>1, <2>2, <2>3 DEF Calm, OneAtATime, ViewFits
<1>5. CASE Prefer
  <2>1. UNCHANGED <<view, active, fallback, socket, timer, task, sock, lease, started, windows, focused>>
    BY <1>5 DEF Prefer, pageVars, gatewayVars
  <2>2. QED BY <1>1, <1>2, <2>1 DEF Calm, OneAtATime, NoStray, ViewFits
<1>6. ASSUME NEW t \in Tasks, RenderDesktop(t) PROVE Calm'
  <2> DEFINE k == Starts(t, "desktop", "wait", None)
  <2>1. Disposes /\ view' = "desktop" /\ active' = active /\ task' = [Cleared EXCEPT ![t] = k]
    BY <1>6 DEF RenderDesktop, Shows
  <2>2. k \in TaskSet /\ k.kind = "desktop" /\ k.at = "wait"
    BY PlacedStarts, StartsIs
  <2> HIDE DEF k
  <2>3. socket' = None /\ fallback' = FALSE /\ NoStray'
    BY <1>2, <2>1, DisposesIs, DisposesStray DEF Calm
  <2>4. Becomes(t, k)
    BY <2>1, <2>2, BecomesIs
  <2>5. Relies(k)'
    BY <2>1, <2>2, <2>3 DEF Relies
  <2>6. QED BY <1>1, <1>3, <2>1, <2>2, <2>3, <2>4, <2>5, CalmOne
<1>7. ASSUME NEW t \in Tasks, RenderBrowser(t) PROVE Calm'
  <2>1. PICK w \in Windows :
          /\ Disposes /\ view' = w /\ active' = w
          /\ task' = [Cleared EXCEPT ![t] = Starts(t, "browser", "wait", w)]
    BY <1>7 DEF RenderBrowser, Shows, TypeOK
  <2> DEFINE k == Starts(t, "browser", "wait", w)
  <2>2. k \in TaskSet /\ k.kind = "browser" /\ k.at = "wait" /\ k.window = w
    BY PlacedStarts, StartsIs
  <2>3. task' = [Cleared EXCEPT ![t] = k]
    BY <2>1
  <2> HIDE DEF k
  <2>4. socket' = None /\ fallback' = FALSE /\ NoStray'
    BY <1>2, <2>1, DisposesIs, DisposesStray DEF Calm
  <2>5. Becomes(t, k)
    BY <2>2, <2>3, BecomesIs
  <2>6. Relies(k)'
    BY <2>1, <2>2, <2>4 DEF Relies
  <2>7. QED BY <1>1, <1>3, <2>1, <2>2, <2>4, <2>5, <2>6, CalmOne
<1>8. ASSUME NEW t \in Tasks, Switch(t) PROVE Calm'
  <2>1. PICK kind \in {"output", "protocol"} : task' = [Cleared EXCEPT ![t] = Starts(t, kind, "wait", None)]
    BY <1>8 DEF Switch
  <2>2. Disposes /\ view = "desktop" /\ UNCHANGED <<view, active>>
    BY <1>8 DEF Switch
  <2> DEFINE k == Starts(t, kind, "wait", None)
  <2>3. k \in TaskSet /\ k.kind \in {"output", "protocol"} /\ k.at = "wait"
    BY PlacedStarts, StartsIs
  <2>4. task' = [Cleared EXCEPT ![t] = k]
    BY <2>1
  <2> HIDE DEF k
  <2>5. socket' = None /\ fallback' = FALSE /\ NoStray'
    BY <1>2, <2>2, DisposesIs, DisposesStray DEF Calm
  <2>6. Becomes(t, k)
    BY <2>3, <2>4, BecomesIs
  <2>7. Relies(k)'
    BY <2>2, <2>3, <2>5 DEF Relies
  <2>8. QED BY <1>1, <1>3, <2>2, <2>3, <2>5, <2>6, <2>7, CalmOne
<1>9. ASSUME NEW t \in Tasks, Ask(t) PROVE Calm'
  <2>1. UNCHANGED <<view, active, fallback, socket, timer, sock, focused>>
    BY <1>9 DEF Ask, pageVars, gatewayVars
  <2>2. PICK k \in TaskSet :
          /\ task' = [task EXCEPT ![t] = k]
          /\ \/ k.kind \in {"open", "create"}
             \/ k.kind = "close" /\ k.at = "post" /\ k.window = active /\ view # "desktop" /\ active # None
             \/ k.kind = "closeOther" /\ k.window # active
             \/ k.kind \in {"stop", "power"} /\ view = "desktop"
    <3>1. /\ Starts(t, "open", "list", None) \in TaskSet
          /\ Starts(t, "open", "list", None).kind = "open"
      BY PlacedStarts, StartsIs
    <3>2. /\ Starts(t, "create", "post", None) \in TaskSet
          /\ Starts(t, "create", "post", None).kind = "create"
      BY PlacedStarts, StartsIs
    <3>3. /\ Starts(t, "stop", "post", None) \in TaskSet
          /\ Starts(t, "stop", "post", None).kind = "stop"
      BY PlacedStarts, StartsIs
    <3>4. /\ Starts(t, "power", "start", None) \in TaskSet
          /\ Starts(t, "power", "start", None).kind = "power"
      BY PlacedStarts, StartsIs
    <3>5. ASSUME NEW w \in Windows
          PROVE  /\ Starts(t, "close", "post", w) \in TaskSet
                 /\ Starts(t, "close", "post", w).kind = "close"
                 /\ Starts(t, "close", "post", w).at = "post"
                 /\ Starts(t, "close", "post", w).window = w
      BY PlacedStarts, StartsIs
    <3>6. ASSUME NEW w \in Windows
          PROVE  /\ Starts(t, "closeOther", "post", w) \in TaskSet
                 /\ Starts(t, "closeOther", "post", w).kind = "closeOther"
                 /\ Starts(t, "closeOther", "post", w).window = w
      BY PlacedStarts, StartsIs
    <3>7. windows \cup ({active} \ {None}) \subseteq Windows
      BY DEF TypeOK
    <3>8. CASE view # "desktop" /\ \E w \in windows \cup ({active} \ {None}) :
                 LET kind == IF w = active THEN "close" ELSE "closeOther"
                 IN task' = [task EXCEPT ![t] = Starts(t, kind, "post", w)]
      <4>1. PICK w \in Windows :
              \/ w = active /\ task' = [task EXCEPT ![t] = Starts(t, "close", "post", w)]
              \/ w # active /\ task' = [task EXCEPT ![t] = Starts(t, "closeOther", "post", w)]
        BY <3>7, <3>8
      <4>2. CASE w = active /\ task' = [task EXCEPT ![t] = Starts(t, "close", "post", w)]
        BY <1>3, <3>5, <3>8, <4>2, Zenon
      <4>3. CASE w # active /\ task' = [task EXCEPT ![t] = Starts(t, "closeOther", "post", w)]
        BY <3>6, <4>3, Zenon
      <4>4. QED BY <4>1, <4>2, <4>3
    <3>9. QED BY <1>9, <3>1, <3>2, <3>3, <3>4, <3>8 DEF Ask
  <2>3. Becomes(t, k)
    BY <2>2, BecomesIs
  <2>4. active = None \/ active = view \/ view = "desktop"
    BY <1>1, <1>2 DEF Calm, ViewFits, TypeOK, Busy
  <2>5. Relies(k)'
    BY <1>3, <2>1, <2>2, <2>4 DEF Relies, Apart, TypeOK
  <2>6. NoStray'
    BY <1>2, <2>1 DEF Calm, NoStray
  <2>7. \A u \in Tasks : ~Ahead(task[u]) /\ task[u].kind # "close"
    BY <1>1 DEF Busy, Ahead, TaskInv, Placed
  <2>8. QED BY <1>1, <1>2, <2>1, <2>3, <2>5, <2>6, <2>7, CalmOne DEF Calm, ViewFits
<1>10. QED BY <1>4, <1>5, <1>6, <1>7, <1>8, <1>9 DEF UserStep

LEMMA Alone ==
  ASSUME Calm, NEW t \in Tasks, Busy(task[t])
  PROVE  (\A u \in Tasks \ {t} : ~Busy(task[u])) /\ Relies(task[t])
  BY DEF Calm, OneAtATime

\* Only a function that is busy is ahead of the view or has let go of the stream.
LEMMA OthersQuiet ==
  ASSUME Base, NEW u \in Tasks, ~Busy(task[u])
  PROVE  ~Ahead(task[u]) /\ task[u].kind # "close"
  BY DEF Base, TaskInv, Placed, Ahead, Busy

\* What the view says when only t is under way.
LEMMA ViewIs ==
  ASSUME Base, Calm, NEW t \in Tasks, Busy(task[t])
  PROVE  /\ view = "terminal" => socket = None /\ ~fallback /\ active = None
         /\ view \in Windows => active = view \/ (task[t].kind = "close" /\ task[t].at \in {"wait", "list"})
         /\ view \in Windows /\ (fallback \/ socket # None) => focused = view \/ Ahead(task[t])
<1>1. \A u \in Tasks \ {t} : ~Ahead(task[u]) /\ task[u].kind # "close"
  BY Alone, OthersQuiet
<1>2. QED BY <1>1 DEF Calm, ViewFits

\* The function goes on and neither the page nor the gateway's focus changes.
LEMMA CalmGoes ==
  ASSUME Base, Calm, NEW t \in Tasks, Busy(task[t]), NEW k \in TaskSet, Becomes(t, k),
         UNCHANGED <<view, active, fallback, socket, sock, focused>>,
         \/ k = Idle
         \/ k.kind = task[t].kind /\ k.window = task[t].window /\ (Apart(task[t]) <=> Apart(k))
            /\ (k.kind = "close" => (k.at \in {"post", "done"} <=> task[t].at \in {"post", "done"}))
            /\ (k.kind = "browser" /\ k.at \in {"start", "connect"} => task[t].at \in {"start", "connect"}),
         ~Ahead(task[t]),
         task[t].kind = "close" => k.kind = "close"
                                   \/ (k = Idle /\ task[t].at \notin {"wait", "list"})
  PROVE  Calm'
<1>1. /\ \A u \in Tasks \ {t} : ~Busy(task[u])
      /\ Relies(task[t])
  BY Alone
<1>2. NoStray'
  BY DEF Calm, NoStray
<1>3. Busy(k) => Relies(k)'
  <2>1. k = Idle => ~Busy(k)
    BY IdleNotBusy
  <2>2. QED BY <1>1, <2>1 DEF Relies
<1>4. task[t].kind = "close" /\ task[t].at \in {"wait", "list"}
        => k.kind = "close" /\ k.at \in {"wait", "list"}
  BY DEF Apart, Idle
<1>5. QED BY <1>1, <1>2, <1>3, <1>4, ViewIs, CalmOne

\* A view that a function shows or leaves, and that has no stream yet.
LEMMA CalmShows ==
  ASSUME Base, Calm, NEW t \in Tasks, Busy(task[t]), NEW k \in TaskSet, Becomes(t, k), Disposes,
         Busy(k) => Relies(k)',
         view' = "terminal" => active' = None,
         view' \in Windows => active' = view' \/ (k.kind = "close" /\ k.at \in {"wait", "list"})
  PROVE  Calm'
<1>1. socket' = None /\ fallback' = FALSE /\ NoStray'
  BY DisposesIs, DisposesStray DEF Calm
<1>2. QED BY <1>1, Alone, CalmOne

LEMMA CalmBrowser ==
  ASSUME Base, Calm, NEW t \in Tasks, Busy(task[t]), NEW w \in Windows,
         Becomes(t, Starts(t, "browser", "wait", w)), Disposes, view' = w, active' = w
  PROVE  Calm'
<1> DEFINE k == Starts(t, "browser", "wait", w)
<1>1. k \in TaskSet /\ k.kind = "browser" /\ k.at = "wait" /\ k.window = w
  BY PlacedStarts, StartsIs
<1>2. Becomes(t, k)
  OBVIOUS
<1> HIDE DEF k
<1>3. socket' = None /\ fallback' = FALSE
  BY DisposesIs
<1>4. Relies(k)'
  BY <1>1, <1>3 DEF Relies
<1>5. QED BY <1>1, <1>2, <1>4, CalmShows

LEMMA CalmTerminal ==
  ASSUME Base, Calm, NEW t \in Tasks, Busy(task[t]),
         Becomes(t, Idle), Disposes, view' = "terminal", active' = None
  PROVE  Calm'
<1>1. ~Busy(Idle) /\ "terminal" \notin Windows
  BY IdleNotBusy
<1>2. QED BY <1>1, IdleTyped, CalmShows

LEMMA CalmConnect == ASSUME Base, Calm, NEW t \in Tasks, Connect(t) PROVE Calm'
<1>1. task[t].at = "connect" /\ Becomes(t, Idle) /\ Busy(task[t])
  BY ConnectIs DEF Busy
<1>2. ~Busy(Idle) /\ None \notin Windows /\ "terminal" \notin Windows /\ "desktop" \notin Windows
  BY IdleNotBusy
<1>3. Relies(task[t]) /\ \A u \in Tasks \ {t} : ~Busy(task[u])
  BY <1>1, Alone
<1>4. CASE task[t].kind = "browser" /\ ConnectFallbackDesktop(t, 0)
  <2>1. socket = None /\ view \in Windows /\ focused = view
    BY <1>1, <1>3, <1>4 DEF Relies, Apart
  <2> 0 \in 0..MaxAttempts /\ task[t].at # "timer"
    BY <1>1
  <2>2. PICK s \in Sockets :
          /\ socket' = s /\ fallback' = TRUE
          /\ \A u \in Sockets \ {s} : sock'[u] = sock[u]
          /\ UNCHANGED <<view, active, timer, protocol, gatewayVars, userVars>>
    BY <1>4, ConnectFallbackIs
  <2>3. NoStray'
    BY <2>1, <2>2 DEF Calm, NoStray
  <2>4. view \in Windows => active = view
    BY <1>1, <1>4, ViewIs
  <2>5. view # "terminal"
    BY <1>2, <2>1
  <2>6. QED BY <1>1, <1>2, <1>3, <2>1, <2>2, <2>3, <2>4, <2>5, IdleTyped, CalmOne DEF gatewayVars
<1>5. CASE task[t].kind \in {"desktop", "power", "output", "protocol"} /\ ConnectDesktop(t)
  <2>1. view = "desktop"
    BY <1>3, <1>5 DEF Relies
  <2>2. PICK s \in Sockets :
          /\ socket' = s
          /\ \A u \in Sockets \ {s} : sock'[u] = Disposed[u]
          /\ UNCHANGED <<view, active, protocol, gatewayVars, userVars>>
    BY <1>5, ConnectDesktopIs
  <2>3. NoStray'
    BY <2>2, DisposedIs DEF Calm, NoStray
  <2>4. QED BY <1>1, <1>2, <1>3, <2>1, <2>2, <2>3, IdleTyped, CalmOne
<1>6. QED BY <1>4, <1>5, ConnectIs

\* What the one function under way does.
LEMMA CalmTask ==
  ASSUME Base, Calm, NEW t \in Tasks, Busy(task[t]), TaskStep(t)
  PROVE  Calm'
<1> None \notin Windows /\ "terminal" \notin Windows /\ "desktop" \notin Windows
  OBVIOUS
<1>1. Relies(task[t]) /\ (\A u \in Tasks \ {t} : ~Busy(task[u])) /\ task[t].kind # "none" /\ task[t].kind # "retry"
  BY Alone DEF Busy
<1>2. ASSUME NEW at \in {"wait", "focus", "start", "status", "connect", "list", "post", "shown", "done"}
      PROVE  /\ [task[t] EXCEPT !.at = at] \in TaskSet
             /\ [task[t] EXCEPT !.at = at].at = at
             /\ [task[t] EXCEPT !.at = at].kind = task[t].kind
             /\ [task[t] EXCEPT !.at = at].window = task[t].window
  BY AtTyped, ZenonT(60)
<1>3. CASE Released(t)
  <2>1. PICK at \in {"focus", "status", "start", "connect", "list"} :
           /\ task[t].at = "wait"
           /\ \/ task[t].kind = "browser" /\ at = "focus"
              \/ task[t].kind = "desktop" /\ at = "status"
              \/ task[t].kind = "output" /\ at = "start"
              \/ task[t].kind = "protocol" /\ at = "connect"
              \/ task[t].kind = "close" /\ at = "list"
           /\ Becomes(t, [task[t] EXCEPT !.at = at])
    BY <1>3, ReleasedIs
  <2> DEFINE k == [task[t] EXCEPT !.at = at]
  <2>2. k \in TaskSet /\ k.at = at /\ k.kind = task[t].kind /\ k.window = task[t].window
    BY <1>2
  <2>3. Becomes(t, k)
    BY <2>1
  <2> HIDE DEF k
  <2>4. UNCHANGED <<view, active, fallback, socket, sock, focused>>
    BY <1>3 DEF Released, pageVars, gatewayVars
  <2>5. ~Ahead(task[t]) /\ (Apart(task[t]) <=> Apart(k))
    BY <2>1, <2>2 DEF Ahead, Apart
  <2>6. QED BY <2>1, <2>2, <2>3, <2>4, <2>5, CalmGoes
<1>4. CASE Focus(t)
  <2>0. PICK k \in TaskSet : k = [task[t] EXCEPT !.at = "start"]
    BY <1>2
  <2>1. task[t].at = "focus" /\ task[t].kind = "browser" /\ Becomes(t, k)
    BY <1>4, <2>0, FocusIs
  <2>2. k.at = "start" /\ k.kind = "browser" /\ k.window = task[t].window
    BY <1>2, <2>0, <2>1
  <2>3. UNCHANGED <<view, active, fallback, socket, sock>> /\ focused' = task[t].window
    BY <1>4 DEF Focus, pageVars
  <2>4. Relies(k)'
    BY <1>1, <2>1, <2>2, <2>3 DEF Relies, Apart
  <2>5. NoStray'
    BY <2>3 DEF Calm, NoStray
  <2>6. view \in Windows /\ active = view /\ focused' = view
    BY <1>1, <2>1, <2>3, ViewIs DEF Relies
  <2>7. QED BY <1>1, <2>1, <2>2, <2>3, <2>4, <2>5, <2>6, CalmOne
<1>5. CASE Start(t)
  <2>1. PICK at \in {"status", "connect"} :
           /\ task[t].at = "start" /\ task[t].kind \in {"browser", "power", "output"}
           /\ Becomes(t, [task[t] EXCEPT !.at = at])
    BY <1>5, StartIs
  <2> DEFINE k == [task[t] EXCEPT !.at = at]
  <2>2. k \in TaskSet /\ k.at = at /\ k.kind = task[t].kind /\ k.window = task[t].window
    BY <1>2
  <2>3. Becomes(t, k)
    BY <2>1
  <2> HIDE DEF k
  <2>4. UNCHANGED <<view, active, fallback, socket, sock, focused>>
    BY <1>5 DEF Start, pageVars
  <2>5. ~Ahead(task[t]) /\ (Apart(task[t]) <=> Apart(k))
    BY <2>1, <2>2 DEF Ahead, Apart
  <2>6. QED BY <2>1, <2>2, <2>3, <2>4, <2>5, CalmGoes
<1>6. CASE Status(t)
  <2>1. /\ task[t].at = "status" /\ task[t].kind \in {"desktop", "output"}
        /\ Becomes(t, Idle) \/ Becomes(t, [task[t] EXCEPT !.at = "connect"])
    BY <1>6, StatusIs
  <2>2. UNCHANGED <<view, active, fallback, socket, sock, focused>>
    BY <1>6 DEF Status, pageVars, gatewayVars
  <2>3. ~Ahead(task[t])
    BY <2>1 DEF Ahead
  <2>4. CASE Becomes(t, Idle)
    BY <2>1, <2>2, <2>3, <2>4, IdleTyped, CalmGoes
  <2>5. CASE Becomes(t, [task[t] EXCEPT !.at = "connect"])
    <3> DEFINE k == [task[t] EXCEPT !.at = "connect"]
    <3>1. k \in TaskSet /\ k.at = "connect" /\ k.kind = task[t].kind /\ k.window = task[t].window
      BY <1>2
    <3>2. Becomes(t, k)
      BY <2>5
    <3> HIDE DEF k
    <3>3. Apart(task[t]) <=> Apart(k)
      BY <2>1, <3>1 DEF Apart
    <3>4. QED BY <2>1, <2>2, <2>3, <3>1, <3>2, <3>3, CalmGoes
  <2>6. QED BY <2>1, <2>4, <2>5
<1>7. CASE List(t)
  <2>1. CASE \E w \in Windows :
               Becomes(t, Starts(t, "browser", "wait", w)) /\ Disposes /\ view' = w /\ active' = w
    BY <2>1, CalmBrowser
  <2>2. CASE Becomes(t, Idle) /\ Disposes /\ view' = "terminal" /\ active' = None
    BY <2>2, CalmTerminal
  <2>3. CASE /\ task[t].kind = "open"
             /\ Becomes(t, Starts(t, "create", "post", None)) /\ UNCHANGED <<pageVars, sock>>
    <3> DEFINE k == Starts(t, "create", "post", None)
    <3>1. k \in TaskSet /\ k.kind = "create" /\ k.at = "post"
      BY PlacedStarts, StartsIs
    <3>2. Becomes(t, k)
      BY <2>3
    <3> HIDE DEF k
    <3>3. focused' = focused /\ UNCHANGED <<view, active, fallback, socket, sock>>
      BY <1>7, <2>3 DEF List, gatewayVars, pageVars
    <3>4. Relies(k)'
      BY <3>1 DEF Relies, Apart
    <3>5. NoStray'
      BY <3>3 DEF Calm, NoStray
    <3>6. task[t].at = "list"
      BY <1>7 DEF List
    <3>7. ~Ahead(task[t])
      BY <2>3, <3>6 DEF Ahead
    <3>8. QED BY <1>1, <2>3, <3>1, <3>2, <3>3, <3>4, <3>5, <3>7, ViewIs, CalmOne
  <2>4. QED BY <1>7, <2>1, <2>2, <2>3, ListIs
<1>8. CASE Launch(t)
  <2>1. PICK k \in TaskSet :
           /\ task[t].at = "post" /\ task[t].kind = "create"
           /\ k.at = "shown" /\ k.kind = "create" /\ Becomes(t, k)
    BY <1>8, LaunchIs
  <2>4. UNCHANGED <<view, active, fallback, socket, sock>>
    BY <1>8 DEF Launch, pageVars
  <2>5. Relies(k)' /\ Ahead(k)
    BY <2>1 DEF Relies, Apart, Ahead
  <2>6. NoStray'
    BY <2>4 DEF Calm, NoStray
  <2>7. QED BY <1>1, <2>1, <2>4, <2>5, <2>6, ViewIs, CalmOne
<1>9. CASE Launched(t)
  BY <1>9, LaunchedIs, CalmBrowser
<1>10. CASE CloseWindow(t)
  <2>0. PICK k \in TaskSet : k = [task[t] EXCEPT !.at = "done"]
    BY <1>2
  <2>1. /\ task[t].at = "post" /\ task[t].kind \in {"close", "closeOther"} /\ task[t].window \in Windows
        /\ focused # task[t].window => focused' = focused
        /\ Becomes(t, k)
    BY <1>10, <2>0, CloseWindowIs
  <2>2. k.at = "done" /\ k.kind = task[t].kind /\ k.window = task[t].window
    BY <1>2, <2>0
  <2>3. UNCHANGED <<view, active, fallback, socket, sock>>
    BY <1>10 DEF CloseWindow, pageVars
  <2>4. Relies(k)'
    BY <1>1, <2>1, <2>2, <2>3 DEF Relies, Apart
  <2>5. NoStray'
    BY <2>3 DEF Calm, NoStray
  <2>6. k.kind = "close" => Ahead(k)
    BY <2>2 DEF Ahead
  <2>7. ~Ahead(task[t])
    BY <2>1 DEF Ahead
  <2>8. k.kind = "closeOther" /\ view \in Windows => view # task[t].window
    BY <1>1, <2>1, <2>2, ViewIs DEF Relies
  <2>9. view' \in Windows /\ (fallback' \/ socket' # None) => focused' = view' \/ Ahead(k)
    BY <2>1, <2>2, <2>3, <2>6, <2>7, <2>8, ViewIs
  <2>10. QED BY <1>1, <2>1, <2>2, <2>3, <2>4, <2>5, <2>9, ViewIs, CalmOne
<1>11. CASE StopDesktop(t)
  <2> DEFINE k == [task[t] EXCEPT !.at = "done"]
  <2>1. task[t].at = "post" /\ task[t].kind = "stop" /\ Becomes(t, k)
    BY <1>11, StopDesktopIs
  <2>2. k \in TaskSet /\ k.at = "done" /\ k.kind = task[t].kind /\ k.window = task[t].window
    BY <1>2
  <2> HIDE DEF k
  <2>3. UNCHANGED <<view, active, fallback, socket, sock, focused>>
    BY <1>11 DEF StopDesktop, pageVars
  <2>4. ~Ahead(task[t]) /\ (Apart(task[t]) <=> Apart(k))
    BY <2>1, <2>2 DEF Ahead, Apart
  <2>5. QED BY <2>1, <2>2, <2>3, <2>4, CalmGoes
<1>12. CASE Answered(t)
  <2>1. view' = view /\ focused' = focused /\ task[t].at = "done"
    BY <1>12 DEF Answered, gatewayVars
  <2>2. CASE task[t].kind = "close" /\ active' = None /\ Disposes /\ Becomes(t, [task[t] EXCEPT !.at = "wait"])
    <3>0. PICK k \in TaskSet : k = [task[t] EXCEPT !.at = "wait"]
      BY <1>2
    <3>1. k.at = "wait" /\ k.kind = "close"
      BY <1>2, <2>2, <3>0
    <3>2. Becomes(t, k)
      BY <2>2, <3>0
    <3>3. view \in Windows
      BY <1>1, <2>2 DEF Relies
    <3>4. Relies(k)'
      BY <2>1, <2>2, <3>1, <3>3, DisposesIs DEF Relies
    <3>5. QED BY <2>1, <2>2, <3>1, <3>2, <3>3, <3>4, CalmShows
  <2>3. CASE task[t].kind = "stop" /\ active' = active /\ Disposes /\ Becomes(t, Idle)
    <3>1. view = "desktop"
      BY <1>1, <2>3 DEF Relies
    <3>2. QED BY <2>1, <2>3, <3>1, IdleNotBusy, IdleTyped, CalmShows
  <2>4. CASE /\ task[t].kind = "closeOther" /\ UNCHANGED <<active, fallback, socket, timer, sock>>
             /\ Becomes(t, Idle)
    <3>1. ~Ahead(task[t])
      BY <2>1, <2>4 DEF Ahead
    <3>2. QED BY <2>1, <2>4, <3>1, IdleTyped, CalmGoes
  <2>5. QED BY <1>12, <2>2, <2>3, <2>4, AnsweredIs
<1>13. CASE GivesUp(t)
  <2>1. CASE Disposes /\ view' = "terminal" /\ active' = None
    BY <1>13, <2>1, GivesUpIs, CalmTerminal
  <2>2. CASE /\ ~(task[t].kind = "close" /\ task[t].at \in {"wait", "list"})
             /\ UNCHANGED <<pageVars, sock>>
    <3>1. task[t].at \in {"wait", "focus", "start", "status", "list", "post"} /\ Becomes(t, Idle)
      BY <1>13, GivesUpIs
    <3>2. ~Ahead(task[t])
      BY <3>1 DEF Ahead
    <3>3. UNCHANGED <<view, active, fallback, socket, sock, focused>>
      BY <1>13, <2>2 DEF GivesUp, pageVars, gatewayVars
    <3>4. QED BY <2>2, <3>1, <3>2, <3>3, IdleTyped, CalmGoes
  <2>3. QED BY <1>13, <2>1, <2>2, GivesUpIs
<1>14. ~RetryFires(t) /\ ~Retry(t)
  BY <1>1, RetryFiresIs, RetryIs
<1>15. QED BY <1>3, <1>4, <1>5, <1>6, <1>7, <1>8, <1>9, <1>10, <1>11, <1>12, <1>13, <1>14, CalmConnect DEF TaskStep

\* What a retry does: it connects only where the page wants a stream and has none.
LEMMA CalmRetry ==
  ASSUME Base, Calm, NEW t \in Tasks,
         RetryFires(t) \/ Retry(t) \/ (GivesUp(t) /\ task[t].kind = "retry")
  PROVE  Calm'
<1>1. PICK k \in TaskSet : Becomes(t, k) /\ ~Busy(k) /\ ~Busy(task[t])
  <2>1. CASE RetryFires(t)
    <3>1. task[t].kind = "retry" /\ Becomes(t, [task[t] EXCEPT !.at = "wait"])
      BY <2>1, RetryFiresIs
    <3>2. [task[t] EXCEPT !.at = "wait"] \in TaskSet /\ [task[t] EXCEPT !.at = "wait"].kind = "retry"
      BY <3>1, AtTyped
    <3>3. QED BY <3>1, <3>2 DEF Busy
  <2>2. CASE Retry(t)
    BY <2>2, RetryIs, IdleTyped, IdleNotBusy DEF Busy
  <2>3. CASE GivesUp(t) /\ task[t].kind = "retry"
    BY <2>3, GivesUpIs, IdleTyped, IdleNotBusy DEF Busy
  <2>4. QED BY <2>1, <2>2, <2>3
<1>2. \A u \in Tasks : Busy(task[u]) \/ Busy(task'[u]) => task'[u] = task[u]
  BY <1>1, IdleNotBusy DEF Becomes, Busy
<1>3. UNCHANGED <<view, active, focused>>
  BY GivesUpIs DEF RetryFires, Retry, GivesUp, ConnectFallbackDesktop, pageVars, gatewayVars
<1>4. \/ UNCHANGED <<fallback, socket, sock>>
      \/ fallback /\ socket = None /\ fallback' = TRUE /\ NoStray'
  <2>1. CASE RetryFires(t)
    BY <2>1 DEF RetryFires
  <2>2. CASE UNCHANGED <<pageVars, protocol, sock, gatewayVars, userVars>>
    BY <2>2 DEF pageVars
  <2>3. CASE Retry(t) /\ fallback /\ socket = None /\ ConnectFallbackDesktop(t, task[t].attempt)
    <3>1. task[t].at # "timer" /\ task[t].attempt \in 0..MaxAttempts
      BY <2>3 DEF Retry, Base, TypeOK, TaskSet
    <3>2. PICK s \in Sockets :
            socket' = s /\ fallback' = TRUE /\ \A u \in Sockets \ {s} : sock'[u] = sock[u]
      BY <2>3, <3>1, ConnectFallbackIs
    <3>3. NoStray'
      BY <2>3, <3>2 DEF Calm, NoStray
    <3>4. QED BY <2>3, <3>2, <3>3
  <2>4. CASE GivesUp(t) /\ task[t].kind = "retry"
    BY <2>4, GivesUpIs DEF pageVars
  <2>5. QED BY <2>1, <2>2, <2>3, <2>4, RetryIs
<1>5. NoStray'
  BY <1>4 DEF Calm, NoStray
<1>6. OneAtATime'
  BY <1>2 DEF Calm, OneAtATime
<1>7. ASSUME NEW u \in Tasks, Busy(task'[u]) PROVE Relies(task[u])'
  <2>1. task'[u] = task[u] /\ Relies(task[u])
    BY <1>2, <1>7 DEF Calm
  <2>2. QED BY <1>3, <1>4, <2>1 DEF Relies
<1>8. ViewFits'
  <2>1. \A u \in Tasks : task[u].kind = "close" \/ Ahead(task[u]) => Busy(task[u])
    BY DEF Base, TaskInv, Placed, Ahead, Busy
  <2>2. \A u \in Tasks : task[u].kind = "close" \/ Ahead(task[u]) => task'[u] = task[u]
    BY <1>2, <2>1
  <2>3. QED BY <1>3, <1>4, <2>2 DEF Calm, ViewFits
<1>9. QED BY <1>5, <1>6, <1>7, <1>8 DEF Calm, Busy

\* What the gateway does, and the page when a socket closes.
LEMMA CalmEvent ==
  ASSUME Base, Calm, NEW s \in Sockets,
         CloseEvent(s) \/ Upgrade(s) \/ SeesClose(s) \/ TimesOut(s) \/ Loses(s)
  PROVE  Calm'
<1>1. UNCHANGED <<view, active, fallback, focused>>
  BY DEF CloseEvent, Upgrade, SeesClose, TimesOut, Loses, pageVars, gatewayVars
<1>2. socket' = socket \/ (socket' = None /\ socket = s /\ CloseEvent(s))
  BY DEF CloseEvent, Upgrade, SeesClose, TimesOut, Loses, pageVars
<1>3. NoStray'
  <2>1. CASE CloseEvent(s)
    <3>1. sock' = [sock EXCEPT ![s] = Unused] /\ Unused.at = "unused"
      BY <2>1, CloseEventIs DEF Unused
    <3>2. QED BY <1>2, <3>1 DEF Calm, NoStray, Base, TypeOK
  <2>2. CASE Upgrade(s) \/ SeesClose(s) \/ TimesOut(s) \/ Loses(s)
    <3>1. PICK c \in SocketSet :
            /\ sock' = [sock EXCEPT ![s] = c]
            /\ c.at \in {"opening", "open"} => sock[s].at = "opening"
      BY <2>2, GatewayIs
    <3>2. socket' = socket
      BY <2>2 DEF Upgrade, SeesClose, TimesOut, Loses, pageVars
    <3>3. QED BY <3>1, <3>2 DEF Calm, NoStray, Base, TypeOK
  <2>3. QED BY <2>1, <2>2
<1>4. \A u \in Tasks : Busy(task[u]) \/ Busy(task'[u]) => task'[u] = task[u]
  <2>1. CASE UNCHANGED task
    BY <2>1
  <2>2. CASE \E t \in Tasks, k \in TaskSet : task[t] = Idle /\ Becomes(t, k) /\ k.kind = "retry"
    BY <2>2, IdleNotBusy DEF Becomes, Busy
  <2>3. CASE Upgrade(s) \/ SeesClose(s) \/ TimesOut(s) \/ Loses(s)
    BY <2>3 DEF Upgrade, SeesClose, TimesOut, Loses
  <2>4. QED BY <2>1, <2>2, <2>3, CloseEventIs
<1>5. OneAtATime'
  BY <1>4 DEF Calm, OneAtATime
<1>6. ASSUME NEW u \in Tasks, Busy(task'[u]) PROVE Relies(task[u])'
  <2>1. task'[u] = task[u] /\ Relies(task[u])
    BY <1>4, <1>6 DEF Calm
  <2>2. QED BY <1>1, <1>2, <2>1 DEF Relies
<1>7. ViewFits'
  <2>1. \A u \in Tasks : task[u].kind = "close" \/ Ahead(task[u]) => Busy(task[u])
    BY DEF Base, TaskInv, Placed, Ahead, Busy
  <2>2. \A u \in Tasks : task[u].kind = "close" \/ Ahead(task[u]) => task'[u] = task[u]
    BY <1>4, <2>1
  <2>3. QED BY <1>1, <1>2, <2>2 DEF Calm, ViewFits
<1>8. QED BY <1>3, <1>5, <1>6, <1>7 DEF Calm, Busy

LEMMA CalmNext == ASSUME Base, CalmInv, [Next]_vars PROVE CalmInv'
<1> SUFFICES ASSUME ~hasty' PROVE Calm'
  BY DEF CalmInv
<1>1. CASE UserStep
  BY <1>1, CalmUser
<1>2. CASE OtherViewer \/ UNCHANGED vars
  <2>1. UNCHANGED <<view, active, fallback, socket, timer, task, sock, focused, hasty>>
    BY <1>2 DEF OtherViewer, vars, pageVars, gatewayVars, userVars
  <2>2. QED BY <2>1 DEF CalmInv, Calm, OneAtATime, NoStray, Relies, ViewFits
<1>3. ASSUME NEW t \in Tasks, TaskStep(t) PROVE Calm'
  <2>1. hasty' = hasty
    BY <1>3 DEF TaskStep, Released, Focus, Start, Status, Connect, ConnectDesktop, ConnectFallbackDesktop,
                List, Launch, Launched, CloseWindow, StopDesktop, Answered, GivesUp, RetryFires, Retry, userVars
  <2>2. Calm
    BY <2>1 DEF CalmInv
  <2>3. RetryFires(t) \/ Retry(t) \/ (GivesUp(t) /\ task[t].kind = "retry") \/ Busy(task[t])
    <3>1. CASE task[t].kind = "none"
      <4>1. task[t].at = "none"
        BY <3>1 DEF Base, TaskInv, Placed, Idle
      <4>2. QED BY <1>3, <4>1 DEF TaskStep, Released, Focus, Start, Status, Connect, List, Launch, Launched,
                                  CloseWindow, StopDesktop, Answered, GivesUp, RetryFires, Retry
    <3>2. CASE task[t].kind = "retry"
      <4>1. task[t].at \in {"timer", "wait"}
        BY <3>2 DEF Base, TaskInv, Placed
      <4>2. QED BY <1>3, <3>2, <4>1 DEF TaskStep, Released, Focus, Start, Status, Connect, List, Launch,
                                        Launched, CloseWindow, StopDesktop, Answered
    <3>3. QED BY <3>1, <3>2 DEF Busy
  <2>4. QED BY <1>3, <2>2, <2>3, CalmTask, CalmRetry
<1>4. ASSUME NEW s \in Sockets, CloseEvent(s) \/ Upgrade(s) \/ SeesClose(s) \/ TimesOut(s) \/ Loses(s)
      PROVE Calm'
  <2>1. hasty' = hasty
    BY <1>4 DEF CloseEvent, Upgrade, SeesClose, TimesOut, Loses, userVars
  <2>2. QED BY <1>4, <2>1, CalmEvent DEF CalmInv
<1>5. QED BY <1>1, <1>2, <1>3, <1>4 DEF Next

LEMMA CalmInit == Init => CalmInv
<1> SUFFICES ASSUME Init PROVE Calm
  BY DEF CalmInv
<1>1. \A t \in Tasks : task[t] = Idle /\ ~Busy(task[t])
  BY IdleNotBusy DEF Init
<1>2. NoStray
  BY DEF Init, NoStray, Unused
<1>3. view = "terminal" /\ socket = None /\ fallback = FALSE /\ active = None
  BY DEF Init
<1>4. ViewFits
  BY <1>3 DEF ViewFits
<1>5. QED BY <1>1, <1>2, <1>4 DEF Calm, OneAtATime

LEMMA CalmAlways == Spec => [](Base /\ CalmInv)
<1>1. Init => Base /\ CalmInv
  BY BaseInit, CalmInit
<1>2. Base /\ CalmInv /\ [Next]_vars => (Base /\ CalmInv)'
  BY BaseNext, CalmNext
<1>3. QED BY <1>1, <1>2, PTL DEF Spec

\* Unless the user was faster than an await, the page has no stream but the one
\* it knows, and none beside a terminal.
THEOREM StreamIsOne == Spec => []OneStream
<1>1. Base /\ CalmInv => OneStream
  BY DEF CalmInv, Calm, NoStray, ViewFits, OneStream
<1>2. QED BY <1>1, CalmAlways, PTL

\* Unless the user was faster than an await, the stream in a browser view shows
\* the window of that view.
THEOREM WindowIsShown == Spec => []ShowsItsWindow
<1>1. Base /\ CalmInv => ShowsItsWindow
  <2> SUFFICES ASSUME Base, CalmInv, ~hasty, ~Pending, view \in Windows, socket # None
               PROVE  focused = view
    BY DEF ShowsItsWindow
  <2>1. \A t \in Tasks : ~Ahead(task[t])
    BY DEF Pending, Base, TaskInv, Placed, Ahead
  <2>2. QED BY <2>1 DEF CalmInv, Calm, ViewFits
<1>2. QED BY <1>1, CalmAlways, PTL
=============================================================================
