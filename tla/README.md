# EutherGate in TLA+

EutherGate is a single-user gateway: an authenticated web page that shows shared
tmux terminals, the desktop of a Hyprland or Sway compositor, and Firefox
windows that live in a headless Sway session. This directory holds TLA+ models
of the parts of it in which something can happen in the wrong order, the TLC
runs that check them and the TLAPS proofs about them. Paths below are relative
to the repository; `main.rs` is `src/main.rs`, `main.ts` is `web/src/main.ts`.

## 1. The system

| Component | Code | State it keeps | Operations |
|---|---|---|---|
| HTTP/WebSocket front, sessions, login | main.rs 408-534, 973-1017, 3103-3153 | set of session hashes | login, logout, `is_authenticated` |
| Configuration, TURN, transport profiles, validators | main.rs 561-711, 3169-3372 | none | pure functions |
| Terminal manager | main.rs 714-829, 1019-1096 | map name -> attachment, tmux server | ensure, attach or respawn, list |
| Terminal session and relay | main.rs 831-971, 1178-1254 | PTY, 256 KiB history, broadcast channel of 256, viewers' cursors | publish, replay and subscribe, receive, lag, write, resize |
| Desktop manager | main.rs 1622-1642, 1752-1858, 2007-2098 | `active`, `viewer_connected`, `selection`, `transition` mutex; the compositor's headless output | start, stop, acquire, release |
| WebRTC signalling bridge | main.rs 1644-1670, 2632-2722 | helper process, socket | relay, teardown |
| HTTPS/WSS bridge | main.rs 1672-1709, 2724-2862, 3084-3101 | helper, `frame_in_flight`, `pending_frame`, last client message | packet pump, acknowledgements, heartbeat, teardown |
| VNC bridge | main.rs 1711-1750, 2864-3082 | WayVNC process, two sockets, idle inhibitor | wake, spawn, connect, relay, clean up |
| Media helpers | scripts/webrtc_desktop.py, scripts/wss_desktop.py | input queue of 256, threads, capture process | capture, queue, coalesce, inject |
| Pointer helper | src/bin/euthergate-pointer.rs | pressed buttons | move, button, wheel, release |
| Browser manager | main.rs 1098-1176, 2259-2449 | Firefox windows on Sway workspaces >= 10, `transition` mutex | launch, focus, close |
| Clipboard | main.rs 1531-1603, 1912-2005, 2451-2537 | compositor clipboard | read (list, then paste), write |
| Uploads, display wake, service restart | main.rs 1256-1428, 2174-2257 | files, systemd units | create, wake, schedule |
| Web client | web/src/main.ts | view, sockets, timers, pressed keys and buttons | render, connect, retry, dispose, send input |
| Forge session and service scripts | scripts/run-forge-session.sh, run-service.sh, deploy/ | Sway process, session file | start, publish, stop |

### How they interact

* The browser talks to HTTP handlers and four kinds of WebSocket. Axum runs each
  handler as a task; an HTTP handler is dropped at its await when the client
  goes away, an upgraded WebSocket task runs to its end.
* The three desktop bridges share one lease (`viewer_connected`, a
  compare-exchange; a guard object clears it). `start` and `stop` share a mutex
  that the bridges do not take. Each bridge owns one child process, killed when
  the child is dropped.
* A helper receives one line per input event on stdin and writes frames to
  stdout; inside it a command thread fills a bounded queue that an input thread
  drains into the compositor and the pointer helper.
* A terminal has one PTY reader thread and any number of viewer tasks; the
  `gate` mutex orders an attachment against a published chunk.

### Hard behaviours, and what makes each component correct

| Component | What is hard | What correct means |
|---|---|---|
| Desktop lease | `start` and `stop` await hyprctl several times under a mutex the WebSocket handlers do not take; each command may fail, or outlive a request dropped at an await; the gateway restarts | One viewer holds the lease, by every path it comes back; a helper never outlives it; the selection changes under a viewer at most once; an active headless output exists; requests are answered |
| Terminal relay | One reader thread and any number of tasks; a bounded history and a bounded channel | Replay and live output join without a gap or repetition that was not reported as a lag; a viewer that stays catches up |
| Frame gate | A biased `select!` over heartbeat, packet, message and exit; sends that block for a time and writes that block for as long as the helper does not read; a peer that is half open; reads that are dropped half way | One frame unacknowledged, the newest one waits and arrives; silence is bounded but for the writes without a limit; packets keep their framing |
| Input pipeline | Three threads, a queue that is full, joined movements and text, a deferred event, threads that never got a controller or die with their process | Events keep their order; a click lands where it was aimed; no button stays down |
| Terminal sessions | Requests race each other and an external tmux server | One gateway client per session; creating a session twice at once fails for nobody; other clients are counted rightly |
| Browser windows | `focus` takes no mutex; windows arrive late, by other hands, or for a dropped request | The limit holds; a launch gets a window, workspace and address of its own |
| Web client | Async functions go on after an await whatever the user did meanwhile | One stream per page, showing the chosen window; a socket lost from sight gives the lease back |
| WebRTC and VNC bridges | Each await of a bridge looks at nothing else; a client that is half open or does not read, a helper that hangs or dies at any of them; two processes, two sockets and the order of the locals on every way out | Both do what the lease promises; no socket file stays behind; the display is kept awake; the lease comes back |
| Clipboard | A value read by two commands, written by one that may act after it was given up; page operations that overlap | An answer is of one clipboard; the preview is what is copied; a paste finds the image that was sent; every operation ends |

## 2. The modules

The order is the order of importance: who may view and what they capture, what
reaches the viewer, what the viewer's input does, and the managers around them.

| Module | Models | Composition |
|---|---|---|
| `SingleViewer` | abstract: a lease, one helper per tenure, gone before the lease is free | |
| `DesktopLease` | desktop manager, the life of every bridge | `INSTANCE SingleViewer` |
| `DesktopBridges` | WebRTC and VNC bridges, await by await, their helpers and clients | `INSTANCE DesktopLease`, and through it `SingleViewer` |
| `TerminalRelay` | output relay, PTY reader, viewer tasks | |
| `ConflatingChannel` | abstract: one message at a time, always the newest | |
| `FrameGate` | HTTPS/WSS bridge, the helper's pipe, the client | `INSTANCE ConflatingChannel` |
| `InputPipeline` | client input, helper callback, queue, input thread, pointer helper | |
| `TerminalSessions` | terminal manager against tmux | |
| `BrowserWindows` | browser manager against Sway and Firefox | |
| `WebClient` | the page's views and its desktop socket against the gateway's lease | |
| `Clipboard` | clipboard of the compositors, the handlers' commands, the page's panel and PASTE IMAGE | |
| `MC*` | symmetry and set-valued constants for TLC | extend the module they are named for |
| `*Proofs` | theorems | extend the module they are named for, and `TLAPS`; `TerminalProofs` extends `TerminalSessions` and `TerminalRelay` |

The modules meet in `viewer_connected`: `DesktopLease` has the server side of
the lease with an abstract bridge. `DesktopBridges` runs its requests beside the
WebRTC and VNC bridges in detail and is shown to implement it; `FrameGate` has
the third bridge (its `gate = "ended"` is the guard being dropped), with the
timers the other two lack. `WebClient` has the client side, with the lease as
a variable that the first socket takes. `SingleViewer` is what all of it
promises: `DesktopBridges` implements `DesktopLease` implements `SingleViewer`.

Conventions: variables and actions keep the names of the code where TLA+ allows
it (`rpc`, `vpc` are program counters of a request and of a viewer). One action
is the code between two awaits, with everything it changes. Variables marked
*history* only record and guard nothing. An operator whose comment begins with
"Mutant of" is a variant of a definition with a plausible bug in it; no
specification uses it, and the property it is paired with in `PROJECT.json` is
violated when it takes the definition's place.

## 3. State and actions against the code

**DesktopLease** (main.rs 1644-1858, 2007-2098, 2139-2172). `active`,
`viewer_connected`, `selection` and `transition` are the fields of
`DesktopManager`. A request goes through `start` (choose an output, create,
configure or undo, list again, store) or `stop` (clear `active`, list, remove);
each program counter is an await, with the failure of hyprctl as an
alternative. Under `Cancels` a request may be dropped at any of them: the mutex
guard goes with it, a running hyprctl goes on (`late`, applied by
`LateCommand`). `vpc` follows a viewer from the check of `active` over the
compare-exchange, the upgrade, the bridge and its drain to the guard's drop;
`helper` is its child process. `present` is what the compositors list;
`Hotplug` changes it. `Restart` is a new gateway process. `switches` counts
the changes of the selection since the lease was taken. Geometry, names of
modes and messages are left out; outputs are model values. What a request asks
for is picked where it is first looked up (`Chosen`) and kept only for the second
lookup.

**DesktopBridges** (main.rs 1644-1670, 1711-1750, 2632-2722, 2864-3082). `bridge[v]`
is the task of a viewer with its locals: where it stands (`at`), the snapshot of
the output, the helper (`child`, which may hang), the idle hold, whether there
may be socket files, and the state of the client's connection. The requests and
outputs are the actions of `DesktopLease` itself, used through its instance `L`.
`Start` is the snapshot with the spawn (WebRTC) or the hold (VNC); `Wake`,
`Connect` and `ConnectFails` are the awaits before the relay. In the relay loop
`Output`, `Message`, `ClientGone`, `HelperGone` and `ReadError` are the branches
of `select!`, `Sent` and `Written` the awaits inside a branch, during which the
others are not looked at. `Stop`, `KillWaiting` and `Drained` are the way out by
`break`; an error goes to `DropChild`; then the locals fall in reverse order:
socket files and hold (`DropFiles`), lease (`Release`). A client is `"stalled"` while it
is connected and reads nothing, `"silent"` when its
connection is half open, `"failing"` once something was sent that nobody will
acknowledge, and `"left"` when the gateway can see it. `at` maps to the `vpc` of
`DesktopLease`; the command that wakes the output counts as the helper.

**Clipboard** (main.rs 1531-1603, 1912-2005, 2467-2537; main.ts 773-856,
1212-1381, 2644-2646). `clipboard[d]` is the content a compositor offers, of one
or two supported types. `task[t]` is an operation of the page with its request's
handler: sent, `"listing"`, `"pasting"` or `"copying"` (the await of a command),
answered, and what the page does then. `CopyTakes` is wl-copy taking the
clipboard, which its time limit does not undo. `view` and `calm` record what an
operation relied on and that nobody disturbed it; `panel` is
`remoteClipboardBlob` and the preview, `hurried` that operations on it overlapped.
A paste may begin during another operation, since a view that is rendered anew has
an enabled button. Operations under way disturb each other, a wl-copy left of one that
is over does not count as a disturbance: there must be none.
A text is shown after an await, an image at once (`Load`, `ShowText`). Another
page is one more application.

**TerminalRelay** (main.rs 831-971, 1178-1254). The output is numbered chunks.
`gate` is `OutputRelay.gate`; publishing is `PtyAppend` (extend and trim the
history) and `PtySend` (broadcast) under it, attaching is `CopyHistory` and
`Subscribe` under it. `next` is the tokio receiver's position: if the channel
has overwritten it, `Receive` reports a lag and goes to the oldest chunk, as the
`Lagged` arm does. The code trims bytes, the model chunks.

**FrameGate** (main.rs 2724-2862, 3084-3101; wss_desktop.py; main.ts). `gate` is
where the socket task is: in the select, in a send (`sendFrame`, `sendText`, with a
time limit), in a write to the helper (`writeInput`, `stopLine`, without one), in the teardown. A helper may
stop reading its input (`HelperHangs`), which only a write notices; `blocked` records
how much of the silence went into writes, and `MaxBlocked` bounds it for TLC. The
guards of the branches encode the biased order; a branch that wins clears
`got`, the part of a packet the dropped future had read. In the pipe a packet
is a header and a body, so the loss of a header between the two reads is a
state of the model; a read that is dropped in the middle of a header or of a
body does the same to the framing. `due`, `phase`, `quiet` and `age` are the
interval, the time since the last client message and the running time-out, in
units; time does not pass a timer that is up. The client shows and
acknowledges, sends heartbeats and input, falls silent or closes.

**InputPipeline** (wss_desktop.py, webrtc_desktop.py, euthergate-pointer.rs,
main.ts 1904-2489). `aim`, `held`, `locked` and `anchor` are the page's;
`PutNowait`, `PutFull`, `Evict` and `Reput` the callback, with `queue.Full`
and the removal of the oldest event as steps the input thread can run between;
`BuildController` to `CloseController` the input thread with its deferred event; it is
over at once when `InputController` cannot be built (`pc = "failed"`), while the
callback goes on. euthergate-pointer may stop reading (`"hung"`); the thread then waits
in its write. The two
helpers and the two compositors differ in a few guards, so `setup` says which
pair a viewer has: a browser window (WSS helper, Sway), a desktop on Hyprland or
one on Sway (WebRTC helper). The WebRTC helper's data channel may close
(`ChannelClosed`): the callback then queues a release of everything, and what the
page does afterwards is sent nowhere. Positions are on one axis; commands to the pointer helper
take effect when written, because the pipe keeps their order and nothing
observes it in between. Keys, wheel and touch take the same way as buttons and
are left out.

**TerminalSessions** (main.rs 714-829, 1019-1096). `slot` is the map,
`child[a]` the tmux client of an attachment, `req` a request between its calls
to tmux (`has-session`, `new-session`, the second `has-session`), any of which may
fail to run (`CommandFails`). `AttachFails` is `spawn_tmux` failing after the old
attachment has left the map. tmux's own
sessions and clients change at any time (`SessionEnds`, `OtherAttaches`,
`ClientExits`). `list_sessions` is `ListAsks` (the snapshot) and `ListAnswers`.

**BrowserWindows** (main.rs 1098-1176, 2259-2449). `req[r].at` is the command
to Sway a request is about to wait for. `opening` are the windows Firefox has
been told to open: they appear at any time, on the workspace shown then or on
the one they were meant for, also after the launch gave up. `left` are the
commands of dropped requests. `disturbed` records that a person, a focus or a
late window came between a launch and its window; `strays` counts the windows
no launch waits for.

**WebClient** (main.ts, the functions the map of `PROJECT.json` names). `task` are the async
functions under way, each at one of its awaits; the continuation is the action
that leaves it. `sock` are the desktop sockets that exist, whether or not
`desktopSocket` (`socket`) still names them. The gateway side is the lease, the
active flag and Firefox's windows. Disabled buttons are not modelled as such:
`hasty` records that the user acted while something was pending, and the
properties about the page alone are stated for a user who was not.

Not under `src/`, and modelled from how the code uses them: tmux, Sway, Firefox,
the compositor's outputs, the browser's WebSocket and image loading.

## 4. The runs

| Run | Instance | Shows |
|---|---|---|
| `lease_safety` | 2 requests, 2 viewers, outputs {headless, forge}, abandoned requests, fairness | `LeaseExclusive`, `BoundedSwitch`, refinement of `SingleViewer`, `RequestsFinish` |
| `lease_switch` | as `lease_safety`, without fairness | violated: `NoSwitchUnderViewer` |
| `bridges` | 1 request, 1 viewer, 2 outputs, no abandoned requests, fairness | `FilesRemoved`, `HeldWhileCaptured`, `HeadlessBacked`, refinement of `DesktopLease`, `LeaseReturns` |
| `relay` | 2 viewers, history 2, channel 2, 6 chunks, fairness | `NoSilentGap`, `ForwardsInOrder`, `CatchesUp` |
| `frames` | interval 2, timeout 3, send 1, teardown 1, 2 pipe units, 3 packets, 1 message in transit, at most 3 units blocked in writes, fairness | `OneUnacknowledged`, `SilentReleased`, refinement of `ConflatingChannel`, `NewestArrives`, `GoneReleased` |
| `frames_framing` | timeout 4, 2 packets, 2 messages | violated: `HeaderWhereWritten` |
| `input` | three setups, 1 button, 2 positions, queue 2, text limit 2, text of one character, 4 events, 2 in transit, fairness | types, `ButtonsFollow`, `TextComplete`, `InjectsInOrder`, `ClickWhereAimed`, `EndReleases`, `FullQueueDrains` |
| `browser` | 2 requests, limit 2, workspaces from 10, 3 windows ever; symmetric | types, `WithinLimit`, `OwnWorkspace`, `UrlIntoItsWindow`, `EachLaunchItsWindow` |
| `terminals` | 2 names, 2 requests, 3 attachments, 1 other client; symmetric | `OneClientEach`, `CreatesTogether`, `OthersCounted` |
| `clipboard` | 2 operations at once, 1 compositor, an image, a text and a content that is both, fairness | `AnswerIsOneClipboard`, `PreviewMatches`, `PasteLands`, `OperationsEnd` |
| `client` | 2 windows, 3 sockets, 2 tasks, both protocols, 1 retry, 3 acts, fairness | types, `OneStream`, `ShowsItsWindow`, `LostStreamReleased` |
| `client_orphan` | the same with 2 sockets | violated: `StaleViewerReleased` |

### Why the bounds are enough

* Requests, viewers and tasks: every race of the code is between two of a
  kind, or one and something external. Two requests can hold and wait for each
  mutex; two viewers can contend for the lease. The proofs lift the
  restriction where there are any. No cap bounds `lease_*` otherwise.
* `bridges`: one viewer after another takes the lease any number of times, with a
  request beside it; that two viewers or requests race is what `lease_safety`
  has, and the proofs of the refinement, `FilesRemoved` and `HeldWhileCaptured`
  are for any number.
* `clipboard`: two operations are enough to overlap; three contents make every
  change of the offered types happen between the two commands. One compositor,
  and none, make the selection change in between; the proofs of the three
  invariants are for any number of each.
* `relay`: six chunks overrun a history and a channel of two more than twice,
  so trimming, a lag, and a second lag after a catch-up all happen, and a
  viewer can leave and come back. The proofs hold for all sizes.
* `frames`: the code's 5 s, 20 s, 3 s and 2 s become 2, 3, 1 and 1:
  what matters is that a time-out spans several intervals and that a blocked
  send ends. The proof of `SilentReleased` is for all values.
  Three units in writes are as long as the time limit, so that a tick is overdue when the
  helper reads again; a helper that hangs longer than `MaxBlocked` stops the model's
  clock and nothing else. Three packets
  are one in flight, one pending and one that replaces it. Bounding packets and
  messages means a flood ends: that a helper whose packets are always ready
  starves the client's messages in the biased loop is a known limit of the
  code this run cannot show.
* `input`: a queue of two fills with three events; the fourth finds it full
  again, or empty. A movement, a press, a movement and a release is the
  shortest history in which each of joining, deferring and evicting can go
  wrong; the closing channel adds one event of its own. `TextChunk = 1` is what the page sends for a typed character;
  section 5 says what longer text does.
* `browser`: a limit of two and three windows make the limit bite, with one
  window late or foreign. `terminals`: three attachments are one in the map, one
  a viewer still holds though it is dead, and one being made.
* `client`: three acts are a view, a second one during its await and a third
  after it; three sockets are one open, one closing and one opening.

Where a module's types are not in its run, they are the first theorem of its proofs.
`CHECK_DEADLOCK FALSE` is used where the modelled system comes to an end: the
socket task has ended (`frames`), the helper has ended and the client has sent
all it may (`input`).

### Fairness, and why the code justifies it

* Tokio schedules every ready task: weak fairness of the continuations
  (`TaskStep`, `LoopStep`). A helper's shutdown ends because the drain is timed and
  then kills. That hyprctl returns is an assumption of `RequestsFinish`: main.rs:2157
  awaits it without a time limit, so one that hangs holds the transition mutex until
  its client gives up.
* tokio's mutex is first come first served: strong fairness of a request's
  `RequestStep`, since another request may take the mutex in between any number of
  times. `lease_safety` has two requests, one of which waits while the other holds the
  mutex, fails or is dropped with it.
* `select!` looks at its ready branches in random order, so a branch that stays
  ready while the loop comes round is taken: strong fairness of `ClientGone`.
  The time limits of the bridges, the kernel's limit on unacknowledged data
  (`TcpGivesUp`) and those of the clipboard commands run out. Nothing is assumed
  of a helper, of wl-paste or of wl-copy, of the command that wakes an output, nor of a
  client's reading: they may hang. `LeaseReturns`, `NewestArrives` and `GoneReleased`
  except a task that awaits without a limit keep, for ever or over and over, and nothing
  else: a helper or client that stops for a while is no exception (`Blocked`,
  `BlockedByHelper`).
* Time passes (`Tick`), the callback and input threads run, a pointer helper
  that reads the end of its input acts on it. `EndReleases` and `FullQueueDrains` except one
  that is stuck for ever (`PointerStuck`).
* Of clients as little as possible. `CatchesUp` and `NewestArrives` let the
  client leave; weak fairness of `ClientShows` is the page acknowledging each
  image that loads or fails. `WebClient` assumes nothing of the user or the
  page: the gateway answers upgrades, notices closes and keeps its time limit.

## 5. Where the code and its documents disagree

Each of the first three is a run in which TLC finds the quoted statement violated.

* `lease_switch`, main.rs:1784. `start` looks for a viewer before its awaits and
  stores the selection after them, and the WebSocket handlers take the lease
  without the mutex. docs/restart-diagnostic-handoff-2026-07-16.md:55 says
  an output change under a viewer is rejected. `BoundedSwitch` says
  how far it can go.
* `frames_framing`, main.rs:3084. `read_fallback_packet` is two `read_exact`
  calls in a branch of `select!`; when the heartbeat or a message wins between
  them, the header is lost and the next read takes payload for a header.
* `client_orphan`, main.ts:1602. A `renderBrowser` that the user has left goes
  on after its await and connects; `connectFallbackDesktop` overwrites
  `desktopSocket` without closing what was there. A WebRTC socket lost in this
  way has no heartbeat and keeps the lease until the page is unloaded.

Others the models show and no run singles out:

* The event evicted from a full queue may be a button's release
  (wss_desktop.py:87, webrtc_desktop.py:175): the button stays down until the next
  release or the end of the helper. docs/eutherbrowse-pointer-slice.md:22-23 says held
  buttons are released; `lost` in `ButtonsFollow` is this case.
* Awaits without a time limit, in which a bridge looks at nothing else:
  - WebRTC and VNC: the sends to the client (main.rs:2688, 2970), the writes to the
    helper or to WayVNC (2695, 2713, 2978) and the command that wakes the output
    (3030, 3043). A client that stops reading keeps the lease even when the helper
    has died. docs/eutherbrowse-stability-slice.md:16-17 names that client; only the
    HTTPS/WSS bridge got a limit on its sends. `Blocked` in `LeaseReturns` is these
    awaits.
  - HTTPS/WSS: the writes of an input line (2835-2837) and of the stop line (2853). While
    the helper does not read, no tick is taken, no acknowledgement is read and the
    client's close is not seen; the 2 s and the kill of the teardown come only
    after the stop line. Hence `blocked` in `SilentReleased` and `BlockedByHelper` in
    `NewestArrives` and `GoneReleased`. When the helper reads again after more
    than 20 s, the overdue tick comes first in the biased select and ends the task
    of a viewer whose heartbeats are waiting to be read.
  - The input thread's write to euthergate-pointer (webrtc_desktop.py:442-449):
    `PointerStuck` in `EndReleases` and `FullQueueDrains`.
  A half-open WebRTC or VNC client whose helper says nothing is never found out:
  `LeaseReturns` promises nothing for `"silent"`.
* When `InputController` cannot be built (hyprctl, swaymsg or euthergate-pointer
  missing or failing), the input thread is over after a warning
  (wss_desktop.py:127-131) or an exception (webrtc_desktop.py:212), and the
  helper goes on showing frames with nobody to take the input: `pc = "failed"`
  in `FullQueueDrains`.
* Operations of the clipboard panel may overlap, or the view be left during one
  (main.ts:1225, 1319, 2646). The preview and the value that would be copied can
  then differ, and a refresh that was overtaken can put an older value back:
  `hurried` in `PreviewMatches`.
* A clipboard write that reports a failure may have taken the clipboard:
  wl-copy is killed at its time limit, not undone (main.rs:1986).
* PASTE IMAGE says "IMAGE PASTED" whether or not the keys were sent (main.ts:824-847),
  and `wl-paste --list-types` runs on after its time limit (main.rs:1914 sets no
  `kill_on_drop`, unlike 1935).

* Under pointer lock a press sends `clientX`, which stays where the lock began
  (main.ts:1940), so `ClickWhereAimed` excludes locked presses.
* A text event that crosses the limit of a batch is cut at 512 characters after
  it has left the queue (wss_desktop.py:162), so `TextComplete` is stated for
  events that cannot cross it.
* At a full queue a movement is dropped and the click behind it may be
  admitted, at the old position (wss_desktop.py:85, webrtc_desktop.py:173); hence
  `lost` in `ClickWhereAimed` and `ButtonsFollow`.
* `renderDesktop` keeps `activeBrowserSessionId` (main.ts:914, against 306), so a
  desktop reached from a browser view has no pointer lock (1946), a hidden
  cursor (1599) and captures keys as a browser view does (1912).
* A Firefox window that comes after its launch gave up counts against the limit
  and may be taken for the next launch's: `strays` in `WithinLimit` and
  `disturbed` in `OwnWorkspace` and `UrlIntoItsWindow` are exactly these cases and
  those of a focus, which takes no mutex (main.rs:2326).
* The page's retries end with "VIEWER BUSY" after about 4.5 s, before the
  20 s after which the gateway releases a silent viewer.
* A user who clicks two window chips quickly may be left with the second one
  shown as chosen and the first one focused in Sway (`hasty` in
  `ShowsItsWindow`).
* `session()` takes the old attachment out of the map before it spawns the new one
  (main.rs:781-787): when that fails the map has none for the session, and the next
  viewer makes another. No property is affected (`AttachFails`).
* Viewers of a terminal attachment whose tmux client has exited are not told
  (main.rs:1226).

## 6. The proofs

`tlapm` checks every step; the assumptions are the `ASSUME`s of the modules
(sizes are natural numbers, positive where the code divides or waits by them;
special values are not members of the sets they mark an absence in). Sets of
requests, viewers, names and attachments may be infinite.

**DesktopLeaseProofs.** `TypeCorrect`, `OneViewer` (`LeaseExclusive` and
`HelperUnderLease`), `OneTransition`, `BoundedDrift` (`BoundedSwitch`: `AtMostOneSwitch`
and `CaptureFollowsSelection`), `Backed` (`HeadlessBacked`, when no request is
abandoned), `Refinement` (`ImplementsSingleViewer`).
`LeaseExclusive` is inductive together with `HelperUnderLease`, because only the
holder's steps clear the flag. `AtMostOneSwitch` is not: that a second start
cannot have passed the viewer check before the first stored its selection
needs `TransitionExclusive`, and `SwitchInv` says that once a switch has
happened under the present viewer, every start past its check is about to store
what is selected already. `DriftInv` adds that a bridge which captures another
output than the selected one has seen that one switch. `BackedInv` says
what each place of a transaction may rely on: `active` is clear while a stop is
inside, no active selection is the headless output while a start creates it, and
it is there when a start is about to store it. The refinement
maps `LeaseHolder`, a `CHOOSE`, which `HolderIs` pins down with uniqueness of
the holder, and `LeasePhase`, whose law per program counter is `PhaseLaw`; then
each action is a step of `SingleViewer` or a stutter.

**DesktopBridgesProofs.** `TypeCorrect`, `NoFilesLeft` (`FilesRemoved`), `IdleHeld`
(`HeldWhileCaptured`), `Implementation` (`ImplementsLease`), `Backed`
(`HeadlessBacked`, when no request is abandoned) and `OneCapture`, for any number
of viewers and requests. The invariant says per place of a task which locals it has
(`Good`); each action is then a step of the instance or a stutter of it, and a
request's step is one because `bridge` stands still. Two facts carry the
refinement: a helper can be alive only from the spawn to `DropChild`, and the
lease variables change only with `Acquire` and `Release`. The refinement then
carries over what DesktopLeaseProofs has: `Backed` and `OneCapture` cite those
theorems for the instance, so that they hold of the bridges without another
inductive invariant.

**ClipboardProofs.** `TypeCorrect`, `OneClipboard` (`AnswerIsOneClipboard`), `ImageLands`
(`PasteLands`), `PreviewIsBlob` (`PreviewMatches`), for any number of operations,
compositors and contents. `Stage` is what the place of a task says of its record,
`Settled` what a calm one may rely on at each place: its snapshot is the
selection, the type it chose is the best the clipboard offers, the image is on
the clipboard once wl-copy has taken it. `PanelInv` adds that without hurry
at most one operation is on the panel, and what that one has left to set.

**FrameGateProofs.** `FrameTypes`, `FrameNewestWaits`, `FrameSilentReleased`,
`FrameOneUnacknowledged`, `FrameImplementsChannel`, for any helper, client and
values of the four timers. `NewestWaits` speaks of the select only; `SendsNewest`
carries it through a send. `SilentReleased` needs `SilenceBounds`: one bound on
`quiet` for each place of the loop, from the phase of the interval, the age
of the current send and the time spent in writes, which is the part of the silence
nothing in the code bounds. `OneUnackInv` counts the frame or acknowledgement under way
in the send, on the wire and in the messages to the gate.

**InputPipelineProofs.** `TypeCorrect`, `InOrder` (`InjectsInOrder`), `ClicksWhereAimed`
(`ClickWhereAimed`), `ButtonsAreReleased` (`ButtonsFollow`), `NothingLeftOut`
(`TextComplete`), for any setups, buttons, extent, queue and number of events. The
events sent and not yet taken for good (`Pending`) are a line: the deferred one,
then the queue, then those under way, numbered in this order (`Line`, `Numbers`);
`Callback` says that an evicting callback has an event to put and that whoever
joins has deferred nothing. `Aimed` says of each pending press with the pointer
free where the movement sent before it is: pending with the number before its
own, joined last, or carried out last. When the press is injected it is the
first of the line, so only the third is left. `Settles` says of each button
that the last pending event about it, or else the compositor, leaves it as the client
has it. `NothingLeftOut` is for helpers that type each event by itself, or text
events of one character (`NoneCrosses`), which is when no event crosses the limit of a
batch; otherwise it is false, as section 5 says.

**BrowserWindowsProofs.** `TypeCorrect`, `LimitIsKept` (`WithinLimit`), `WorkspacesApart`
(`OwnWorkspace`), `UrlWhereMeant` (`UrlIntoItsWindow`), `GivenOnce`
(`EachLaunchItsWindow`), for any requests, limit and number of windows. `Phases` ties
the mutex to the kind and the place of a request. `Ungiven` is why no window is
given twice: those given before and still open are among the ones the launch
found when it first looked. `WithinLimit` is not inductive: `ComingAreStrays` adds
that every window which may still come is a stray but for one the launch under
way waits for, and `LimitKept` counts dropped commands that will still open a
window. `Undisturbed` is what a launch knows at each place as long as nothing
came between.

**TerminalProofs.** For `TerminalSessions`: `SessionTypes`, `OneClient`
(`OneClientEach`), `CreateTogether` (`CreatesTogether`), `OthersAreCounted`
(`OthersCounted`), for any names, requests and attachments. The types split into
the sets of the variables and two facts, that the map's and the viewers' attachments exist.
`OneClientEach` is inductive itself: a new client is started only in a slot
whose client has gone. `CreatesTogether` needs `RecheckInv`: a request that
failed to create looks again only when its session exists or has ended since.
`OthersCounted` needs `SnapshotInv`: for a session whose client did not change, the
snapshot still says whether the map has a running one, and `OneClientEach`
that this is the only one tmux can count. For `TerminalRelay`: `RelayTypes`,
`RelayHistory` (`HistoryIsNewest`), `RelayNoSilentGap` and `RelayInOrder`
(`ForwardsInOrder`), for any number of viewers, history and channel. The
invariant adds `GateHeld` (who is between the two halves of publishing or
attaching holds the gate) and `ReceiverInv` (a receiver is never past the tail,
and what its viewer was shown is where the receiver stands unless a lag was
reported). In `HistoryIsNewest` the history is exactly one chunk ahead of the
channel while the reader is between its halves, and equal otherwise: this is
what a copy taken under the gate relies on.

**WebClientProofs.** `TypeCorrect`, `OneConnected` (`OneServed`), `LostStays`
(`LostForGood`), `StreamIsOne` (`OneStream`), `WindowIsShown` (`ShowsItsWindow`), for
any windows, sockets, functions under way, retries and acts of the user. `Base` says
which function can be at which await, that the timer the page knows is a
retry's, and that the socket it knows is not one it has closed. Two results
need no more than that and hold however the user hurries: the gateway serves
exactly the socket that has its lease (`OneServed`), and a connected socket the page has
lost sight of never becomes `desktopSocket` again, which is the safety part of
`LostStreamReleased`. `OneStream` is not inductive: that a function which connects
next finds no stream is a fact about all the functions under way and about where
each one is. `Calm` says it for as long as nobody hurried: at most one function
of the user's is under way (`OneAtATime`); a socket that may still connect or is
connected is the one the page knows (`NoStray`); what the function relies on at
its await, such as no stream while it waits for the old viewer to
go, or the focus on its window once it has asked for it (`Relies`); and the
view fits the stream but for a window that function has just opened or closed
(`ViewFits`). The last is what makes `ShowsItsWindow` inductive. `hasty` never goes back to
`FALSE`, so `~hasty => Calm` is the invariant. TLC agreed with it on the instance
of the `client` run before it was proved.

Only model-checked: everything temporal under fairness (`RequestsFinish`,
`LeaseReturns`, `OperationsEnd`, `CatchesUp`, `NewestArrives`, `GoneReleased`, `EndReleases`,
`FullQueueDrains`, `LostStreamReleased`), because the prover has no rule for fairness.
Every invariant and every action property of a passing run is stated by a theorem.
Only proved, and in no run: `TransitionExclusive`, `HelperUnderLease`,
`HistoryIsNewest`, `NewestWaits`, `OneServed`, `LostForGood`, and the types of the modules whose run does not list them.

## 7. Not modelled, and the plan

Not modelled because nothing in it interleaves or persists: login and sessions
(a set behind a lock), configuration, TURN credentials, transport profiles,
validators and parsers (pure functions), image upload, display wake and
service restart (single commands), static files, deployment and smoke tests.

The Forge session file is written by one short `printf` and read whole; a file
that is not finished yet is reported as such and read again later.

Left out of the modelled parts, and worth knowing:

* The terminal's own socket in the page: reconnecting replays the history onto
  what is shown (main.ts:2569), output is decoded chunk by chunk, which splits
  characters (2588), and the page reconnects for ever when its login has
  expired, since the server never sends the close code 4401 it waits for.
* Keys, wheel and touch, the login view, and the selection of profiles.
* How many packets a helper may send without end (`FrameGate` bounds them).

Next, in this order:

1. The terminal page against `TerminalRelay`: input and resize towards the PTY,
   reconnect and replay.
2. A packet count abstracted from `FrameGate`, to speak of the starvation its
   bound hides.
