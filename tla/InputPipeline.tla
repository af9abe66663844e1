---------------------------- MODULE InputPipeline ----------------------------
(***************************************************************************)
(* Input of one desktop viewer: the web client sends events in order; a    *)
(* callback thread of the media helper puts them in a bounded queue; the   *)
(* input thread takes them out, joins runs of movements and of text, and   *)
(* injects them through the compositor's command (Hyprland) or through     *)
(* euthergate-pointer (Sway), which keeps the pressed buttons.             *)
(*                                                                         *)
(* Positions are on one axis.  Commands to euthergate-pointer are applied  *)
(* when they are written: the pipe between keeps their order.              *)
(***************************************************************************)
EXTENDS Integers, Sequences

CONSTANTS
  Setups,      \* the setups viewers come in
  Buttons,
  Extent,      \* Mode.width
  Home,        \* InputController.return_position: the cursor before the viewer came
  Capacity,    \* of input_events
  TextLimit,   \* characters of one typed batch
  TextChunk,   \* characters of one text event, at most
  MaxEvents,   \* bound on what the client sends
  MaxTransit   \* bound on what is under way to the callback

\* The transport's helper, the compositor, and whether the view uses pointer
\* lock (a desktop does, a browser window does not).
ASSUME SetupAssumption ==
  Setups \subseteq [bridge : {"webrtc", "wss"}, backend : {"hyprland", "sway"}, locks : BOOLEAN]
ASSUME SizeAssumption ==
  /\ Extent \in Nat \ {0}
  /\ Home \in 0..(Extent - 1)
  /\ Capacity \in Nat \ {0}
  /\ TextLimit \in Nat \ {0}
  /\ TextChunk \in 0..TextLimit
  /\ MaxEvents \in Nat
  /\ MaxTransit \in Nat

VARIABLES
  setup,    \* of this viewer
  aim,      \* client: where its movements have put the remote pointer
  held,     \* client: desktopPressedPointerButtons
  locked,   \* client: the pointer is locked
  anchor,   \* client: the position events report while it is locked
  sent,     \* events sent so far
  closed,   \* the data channel is closed
  net,      \* events sent and not yet given to the callback
  put,      \* the callback: "idle", "evict" after queue.Full, "reput"
  queue,    \* input_events
  deferred, \* the input thread's deferred event, or NoEvent
  pc,       \* where the input thread is
  want,     \* InputController.remote_x
  batch,    \* characters joined so far
  hand,     \* number of the last event joined or taken
  pressed,  \* InputController.pressed_buttons
  bridge,   \* the helper process: "up", "stopping" (running is cleared), "ended"
  pointer,  \* euthergate-pointer: "up", "hung" (does not read, its pipe is full), "gone"
  cursor,   \* compositor: the pointer's position
  down,     \* euthergate-pointer and compositor: buttons down
  typed,    \* history: characters typed into the compositor
  drawn,    \* history: characters taken from the queue
  last,     \* history: number of the last event injected
  lost,     \* history: an event was dropped at a full queue
  failed    \* history: an injection failed

clientVars == <<aim, held, locked, anchor, sent>>
threadVars == <<deferred, pc, want, batch, hand, pressed>>
worldVars == <<pointer, cursor, down, typed, drawn, last, failed>>
vars == <<clientVars, closed, net, put, queue, threadVars, bridge, worldVars, lost, setup>>

NoEvent == [kind |-> "none", arg |-> 0, aim |-> 0, locked |-> FALSE, no |-> 0]
Moves == {"pointer_move", "pointer_delta"}
Clamp(x) == IF x < 0 THEN 0 ELSE IF x >= Extent THEN Extent - 1 ELSE x
Lesser(a, b) == IF a <= b THEN a ELSE b

Init ==
  /\ setup \in Setups
  /\ aim = 0 /\ held = {} /\ locked = FALSE /\ anchor = 0 /\ sent = 0
  /\ closed = FALSE /\ net = <<>> /\ put = "idle" /\ queue = <<>>
  /\ deferred = NoEvent /\ pc = "start" /\ want = Extent \div 2
  /\ batch = 0 /\ hand = 0 /\ pressed = {}
  /\ bridge = "up"
  /\ pointer = "gone"
  /\ cursor = Home /\ down = {}
  /\ typed = 0 /\ drawn = 0 /\ last = 0 /\ lost = FALSE /\ failed = FALSE
-----------------------------------------------------------------------------
(* The web client.                                                         *)

\* aim, locked and no are history: how things were when it was sent.
Event(kind, arg, n) ==
  [kind |-> kind, arg |-> arg, aim |-> aim', locked |-> locked, no |-> sent + n]

Sends(events) ==
  /\ bridge = "up" /\ ~closed
  /\ sent + Len(events) <= MaxEvents
  /\ Len(net) + Len(events) <= MaxTransit
  /\ sent' = sent + Len(events)
  /\ net' = net \o events
  /\ UNCHANGED <<closed, put, queue, threadVars, bridge, worldVars, lost, setup>>

MovePointer ==
  /\ IF locked
       THEN \E d \in {-1, 1} : aim' = Clamp(aim + d) /\ Sends(<<Event("pointer_delta", d, 1)>>)
       ELSE \E x \in 0..(Extent - 1) : aim' = x /\ Sends(<<Event("pointer_move", x, 1)>>)
  /\ UNCHANGED <<held, locked, anchor>>

\* pointerdown: the event's own position first, then the button.  A further
\* button pressed meanwhile is a pointermove to the browser.
PressButton(b) ==
  /\ held = {}
  /\ held' = {b}
  /\ UNCHANGED <<aim, locked, anchor>>
  /\ Sends(<<Event("pointer_move", IF locked THEN anchor ELSE aim, 1),
             Event("pressed", b, 2)>>)

ReleaseButton(b) ==
  /\ b \in held
  /\ held' = held \ {b}
  /\ UNCHANGED <<aim, locked, anchor>>
  /\ Sends(<<Event("released", b, 1)>>)

TypeText ==
  /\ UNCHANGED <<aim, held, locked, anchor>>
  /\ \E n \in 1..TextChunk : Sends(<<Event("text", n, 1)>>)

\* The browser grants the lock a pointerdown asked for; clientX stays put.
LockPointer ==
  /\ setup.locks /\ ~locked /\ held # {}
  /\ locked' = TRUE
  /\ anchor' = aim
  /\ UNCHANGED <<aim, held, sent, closed, net, put, queue, threadVars, bridge, worldVars, lost,
                 setup>>

\* releaseDesktopControl, once its buttons are released.
ReleaseControl ==
  /\ held = {}
  /\ locked' = FALSE
  /\ UNCHANGED <<aim, held, anchor>>
  /\ Sends(<<Event("release_control", 0, 1)>>)
-----------------------------------------------------------------------------
(* The callback: _on_data_message, or the loop of _command_loop.           *)

Delivers == bridge = "up" /\ net # <<>>

\* Mutant of PutNowait: the queue has no bound.
PutNowaitUnbounded ==
  /\ Delivers /\ put = "idle"
  /\ queue' = Append(queue, Head(net))
  /\ net' = Tail(net)
  /\ UNCHANGED <<clientVars, closed, put, threadVars, bridge, worldVars, lost, setup>>

PutNowait ==
  /\ Delivers /\ put = "idle" /\ Len(queue) < Capacity
  /\ queue' = Append(queue, Head(net))
  /\ net' = Tail(net)
  /\ UNCHANGED <<clientVars, closed, put, threadVars, bridge, worldVars, lost, setup>>

\* queue.Full: a movement is dropped, another event takes the oldest's place.
PutFull ==
  /\ Delivers /\ put = "idle" /\ Len(queue) = Capacity
  /\ lost' = TRUE
  /\ IF Head(net).kind \in Moves
       THEN net' = Tail(net) /\ UNCHANGED put
       ELSE put' = "evict" /\ UNCHANGED net
  /\ UNCHANGED <<clientVars, closed, queue, threadVars, bridge, worldVars, setup>>

\* get_nowait: queue.Empty is not caught.  It ends the callback's thread in
\* wss_desktop.py and with it the helper; in webrtc_desktop.py, the callback.
Evict ==
  /\ Delivers /\ put = "evict"
  /\ IF queue # <<>>
       THEN /\ queue' = Tail(queue)
            /\ put' = "reput"
            /\ UNCHANGED <<net, bridge>>
       ELSE /\ net' = Tail(net)
            /\ put' = "idle"
            /\ bridge' = IF setup.bridge = "wss" THEN "stopping" ELSE bridge
            /\ UNCHANGED queue
  /\ UNCHANGED <<clientVars, closed, threadVars, worldVars, lost, setup>>

Reput ==
  /\ Delivers /\ put = "reput"
  /\ queue' = Append(queue, Head(net))
  /\ net' = Tail(net)
  /\ put' = "idle"
  /\ UNCHANGED <<clientVars, closed, threadVars, bridge, worldVars, lost, setup>>

\* Mutant of ChannelClosed: nothing is queued for the buttons that are down.
ChannelClosedSilently ==
  /\ setup.bridge = "webrtc" /\ bridge = "up" /\ net = <<>> /\ ~closed
  /\ closed' = TRUE
  /\ UNCHANGED <<clientVars, net, put, queue, threadVars, bridge, worldVars, lost, setup>>

\* The data channel closes after its last message: a release is queued, unless
\* the queue is full.  What the client does from then on is sent nowhere.
ChannelClosed ==
  /\ setup.bridge = "webrtc" /\ bridge = "up" /\ net = <<>> /\ ~closed
  /\ closed' = TRUE
  /\ sent' = sent + 1
  /\ IF Len(queue) < Capacity
       THEN /\ queue' = Append(queue, [NoEvent EXCEPT !.kind = "release_control", !.no = sent'])
            /\ UNCHANGED lost
       ELSE lost' = TRUE /\ UNCHANGED queue
  /\ UNCHANGED <<aim, held, locked, anchor, net, put, threadVars, bridge, worldVars, setup>>
-----------------------------------------------------------------------------
(* The input thread.                                                       *)

\* InputController.__init__, whose commands or whose pointer helper may fail: then
\* the thread is over, and the helper goes on without anybody to take the input.
BuildController ==
  /\ pc = "start" /\ bridge # "ended"
  /\ \/ pc' = "get" /\ pointer' = (IF setup.backend = "sway" THEN "up" ELSE "gone")
     \/ pc' = "failed" /\ UNCHANGED pointer
  /\ UNCHANGED <<clientVars, closed, net, put, queue, deferred, want, batch, hand, pressed,
                 bridge, cursor, down, typed, drawn, last, failed, lost, setup>>

\* A write to euthergate-pointer has no time limit.
PointerTakes == pointer # "hung"

Runs == bridge = "up" \/ (bridge = "stopping" /\ pc # "get")

\* Mutant of Starts: the queue is looked at before the deferred event.
StartsQueueFirst(e) ==
  /\ bridge = "up" /\ pc = "get"
  /\ \/ queue # <<>> /\ e = Head(queue) /\ queue' = Tail(queue) /\ UNCHANGED deferred
     \/ /\ queue = <<>> /\ deferred # NoEvent
        /\ e = deferred /\ deferred' = NoEvent
        /\ UNCHANGED queue

\* The event this iteration starts with: `deferred or input_events.get()`.
Starts(e) ==
  /\ bridge = "up" /\ pc = "get"
  /\ \/ deferred # NoEvent /\ e = deferred /\ deferred' = NoEvent /\ UNCHANGED queue
     \/ /\ deferred = NoEvent /\ queue # <<>>
        /\ e = Head(queue) /\ queue' = Tail(queue)
        /\ UNCHANGED deferred

Candidates == {deferred} \cup {queue[i] : i \in DOMAIN queue}

\* update_pointer; the clamp waits for flush_pointer.
UpdatePointer(e) ==
  /\ want' = IF e.kind = "pointer_move" THEN e.arg ELSE want + e.arg
  /\ hand' = e.no

StartMoves ==
  \E e \in Candidates :
    /\ Starts(e)
    /\ e.kind \in Moves
    /\ UpdatePointer(e)
    /\ pc' = "moves"
    /\ UNCHANGED <<clientVars, closed, net, put, batch, pressed, bridge, worldVars, lost, setup>>

\* Mutant of JoinMoves: movements are joined across the event in between.
JoinMovesAcross ==
  /\ Runs /\ pc = "moves"
  /\ IF queue = <<>>
       THEN pc' = "flush" /\ UNCHANGED <<queue, deferred, want, hand>>
       ELSE /\ queue' = Tail(queue)
            /\ IF Head(queue).kind \in Moves
                 THEN UpdatePointer(Head(queue)) /\ UNCHANGED <<pc, deferred>>
                 ELSE /\ deferred' = Head(queue)
                      /\ pc' = (IF deferred = NoEvent THEN "moves" ELSE "flush")
                      /\ UNCHANGED <<want, hand>>
  /\ UNCHANGED <<clientVars, closed, net, put, batch, pressed, bridge, worldVars, lost, setup>>

JoinMoves ==
  /\ Runs /\ pc = "moves"
  /\ IF queue = <<>>
       THEN pc' = "flush" /\ UNCHANGED <<queue, deferred, want, hand>>
       ELSE /\ queue' = Tail(queue)
            /\ IF Head(queue).kind \in Moves
                 THEN UpdatePointer(Head(queue)) /\ UNCHANGED <<pc, deferred>>
                 ELSE /\ deferred' = Head(queue)
                      /\ pc' = "flush"
                      /\ UNCHANGED <<want, hand>>
  /\ UNCHANGED <<clientVars, closed, net, put, batch, pressed, bridge, worldVars, lost, setup>>

\* Mutant of FlushPointer: a failure is not caught and ends the thread.
FlushPointerUncaught ==
  /\ Runs /\ pc = "flush" /\ PointerTakes
  /\ want' = Clamp(want)
  /\ last' = hand
  /\ \/ /\ setup.backend = "hyprland" \/ pointer = "up"
        /\ cursor' = Clamp(want)
        /\ pc' = "get"
        /\ UNCHANGED failed
     \/ /\ setup.backend = "hyprland" \/ pointer = "gone"
        /\ failed' = TRUE
        /\ pc' = "closed"
        /\ UNCHANGED cursor
  /\ UNCHANGED <<clientVars, closed, net, put, queue, deferred, batch, hand, pressed, bridge,
                 pointer, down, typed, drawn, lost, setup>>

\* flush_pointer: clamp, then the compositor's command, which may fail, or a
\* line to euthergate-pointer, if that is alive.
FlushPointer ==
  /\ Runs /\ pc = "flush" /\ PointerTakes
  /\ want' = Clamp(want)
  /\ pc' = "get"
  /\ last' = hand
  /\ \/ /\ setup.backend = "hyprland" \/ pointer = "up"
        /\ cursor' = Clamp(want)
        /\ UNCHANGED failed
     \/ /\ setup.backend = "hyprland" \/ pointer = "gone"
        /\ failed' = TRUE
        /\ UNCHANGED cursor
  /\ UNCHANGED <<clientVars, closed, net, put, queue, deferred, batch, hand, pressed, bridge,
                 pointer, down, typed, drawn, lost, setup>>

\* A text event: injected by itself, or joined with the text that follows.
StartText ==
  \E e \in Candidates :
    /\ Starts(e)
    /\ e.kind = "text"
    /\ drawn' = drawn + e.arg
    /\ batch' = e.arg
    /\ hand' = e.no
    /\ pc' = IF setup.bridge = "wss" THEN "text" ELSE "type"
    /\ UNCHANGED <<clientVars, closed, net, put, want, pressed, bridge, pointer, cursor, down,
                   typed, last, failed, lost, setup>>

\* Mutant of JoinText: a further event replaces what was joined.
JoinTextReplaces ==
  /\ Runs /\ pc = "text"
  /\ IF batch >= TextLimit \/ queue = <<>>
       THEN pc' = "type" /\ UNCHANGED <<queue, deferred, batch, hand, drawn>>
       ELSE /\ queue' = Tail(queue)
            /\ IF Head(queue).kind = "text"
                 THEN /\ batch' = Head(queue).arg
                      /\ drawn' = drawn + Head(queue).arg
                      /\ hand' = Head(queue).no
                      /\ UNCHANGED <<pc, deferred>>
                 ELSE /\ deferred' = Head(queue)
                      /\ pc' = "type"
                      /\ UNCHANGED <<batch, hand, drawn>>
  /\ UNCHANGED <<clientVars, closed, net, put, want, pressed, bridge, pointer, cursor, down,
                 typed, last, failed, lost, setup>>

JoinText ==
  /\ Runs /\ pc = "text"
  /\ IF batch >= TextLimit \/ queue = <<>>
       THEN pc' = "type" /\ UNCHANGED <<queue, deferred, batch, hand, drawn>>
       ELSE /\ queue' = Tail(queue)
            /\ IF Head(queue).kind = "text"
                 THEN /\ batch' = batch + Head(queue).arg
                      /\ drawn' = drawn + Head(queue).arg
                      /\ hand' = Head(queue).no
                      /\ UNCHANGED <<pc, deferred>>
                 ELSE /\ deferred' = Head(queue)
                      /\ pc' = "type"
                      /\ UNCHANGED <<batch, hand, drawn>>
  /\ UNCHANGED <<clientVars, closed, net, put, want, pressed, bridge, pointer, cursor, down,
                 typed, last, failed, lost, setup>>

\* run_wtype_text, which may fail or run out of time.
Type ==
  /\ Runs /\ pc = "type"
  /\ pc' = "get"
  /\ last' = hand
  /\ \/ typed' = typed + Lesser(batch, TextLimit) /\ UNCHANGED failed
     \/ failed' = TRUE /\ UNCHANGED typed
  /\ UNCHANGED <<clientVars, closed, net, put, queue, deferred, want, batch, hand, pressed, bridge,
                 pointer, cursor, down, drawn, lost, setup>>

\* InputController.inject of the other events, on Hyprland: a press is a click
\* where the cursor is, a release is nothing.
InjectHyprland(e) ==
  /\ \/ /\ cursor' = IF e.kind = "release_control" THEN Home ELSE cursor
        /\ UNCHANGED failed
     \/ /\ e.kind # "released"
        /\ failed' = TRUE
        /\ UNCHANGED cursor
  /\ UNCHANGED <<pressed, down>>

\* Mutant of InjectSway: a press is not remembered.
InjectSwayForgets(e) ==
  /\ UNCHANGED cursor
  /\ pointer = "up"
  /\ down' = IF e.kind = "pressed" THEN down \cup {e.arg}
             ELSE IF e.kind = "released" /\ e.arg \in pressed THEN down \ {e.arg}
             ELSE down
  /\ UNCHANGED <<pressed, failed>>

\* On Sway: lines for euthergate-pointer, unless that has died.  A button that
\* is already as the event wants it is skipped, here and there.
InjectSway(e) ==
  /\ UNCHANGED cursor
  /\ LET new == e.kind = "pressed" /\ e.arg \notin pressed
         old == e.kind = "released" /\ e.arg \in pressed
         all == e.kind = "release_control"
     IN IF ~(new \/ old \/ all) THEN UNCHANGED <<pressed, down, failed>>
        ELSE IF pointer = "gone" THEN failed' = TRUE /\ UNCHANGED <<pressed, down>>
        ELSE /\ PointerTakes
             /\ pressed' = IF new THEN pressed \cup {e.arg}
                           ELSE IF old THEN pressed \ {e.arg} ELSE {}
             /\ down' = IF new THEN down \cup {e.arg} ELSE IF old THEN down \ {e.arg} ELSE {}
             /\ UNCHANGED failed

Inject ==
  \E e \in Candidates :
    /\ Starts(e)
    /\ e.kind \in {"pressed", "released", "release_control"}
    /\ IF setup.backend = "hyprland" THEN InjectHyprland(e) ELSE InjectSway(e)
    /\ hand' = e.no
    /\ last' = e.no
    /\ UNCHANGED <<clientVars, closed, net, put, pc, want, batch, bridge, pointer, typed, drawn,
                   lost, setup>>

\* running is cleared: the loop ends, and close() releases and stops the pointer.
CloseController ==
  /\ bridge = "stopping" /\ pc = "get" /\ PointerTakes
  /\ pc' = "closed"
  /\ pressed' = {}
  /\ down' = {}
  /\ pointer' = "gone"
  /\ UNCHANGED <<clientVars, closed, net, put, queue, deferred, want, batch, hand, bridge,
                 cursor, typed, drawn, last, failed, lost, setup>>
-----------------------------------------------------------------------------
(* The processes.                                                          *)

\* A stop line or the end of stdin.
Stop ==
  /\ bridge = "up"
  /\ bridge' = "stopping"
  /\ UNCHANGED <<clientVars, closed, net, put, queue, threadVars, worldVars, lost, setup>>

\* The main thread returns and its daemon threads die with it, or the gateway
\* kills the process.
Exit ==
  /\ bridge # "ended"
  /\ bridge' = "ended"
  /\ UNCHANGED <<clientVars, closed, net, put, queue, threadVars, worldVars, lost, setup>>

\* Mutant of PointerEof: the end of stdin releases nothing.
PointerEofAbrupt ==
  /\ bridge = "ended" /\ pointer = "up"
  /\ pointer' = "gone"
  /\ UNCHANGED <<clientVars, closed, net, put, queue, threadVars, bridge, cursor, down,
                 typed, drawn, last, failed, lost, setup>>

\* euthergate-pointer reads the end of its stdin and releases what is pressed.
PointerEof ==
  /\ bridge = "ended" /\ pointer = "up"
  /\ down' = {}
  /\ pointer' = "gone"
  /\ UNCHANGED <<clientVars, closed, net, put, queue, threadVars, bridge, cursor,
                 typed, drawn, last, failed, lost, setup>>

\* It stops reading its input, or reads again.
PointerHangs ==
  /\ pointer # "gone"
  /\ pointer' = IF pointer = "up" THEN "hung" ELSE "up"
  /\ UNCHANGED <<clientVars, closed, net, put, queue, threadVars, bridge, cursor, down,
                 typed, drawn, last, failed, lost, setup>>

\* euthergate-pointer loses the compositor; its buttons go with its device.
PointerDies ==
  /\ pointer # "gone"
  /\ pointer' = "gone"
  /\ down' = {}
  /\ UNCHANGED <<clientVars, closed, net, put, queue, threadVars, bridge, cursor,
                 typed, drawn, last, failed, lost, setup>>

ClientStep ==
  \/ MovePointer \/ TypeText \/ LockPointer \/ ReleaseControl
  \/ \E b \in Buttons : PressButton(b) \/ ReleaseButton(b)
CallbackStep == PutNowait \/ PutFull \/ Evict \/ Reput
InputStep ==
  \/ BuildController
  \/ StartMoves \/ JoinMoves \/ FlushPointer
  \/ StartText \/ JoinText \/ Type
  \/ Inject \/ CloseController

Next ==
  \/ ClientStep \/ CallbackStep \/ ChannelClosed \/ InputStep
  \/ Stop \/ Exit \/ PointerEof \/ PointerHangs \/ PointerDies

Spec == Init /\ [][Next]_vars

\* The threads run, the helper ends when its main thread does, and
\* euthergate-pointer ends when it reads the end of its input.
Fairness ==
  /\ WF_vars(CallbackStep)
  /\ WF_vars(InputStep)
  /\ WF_vars(bridge = "stopping" /\ Exit)
  /\ WF_vars(PointerEof)

FairSpec == Spec /\ Fairness
-----------------------------------------------------------------------------
(* Properties.                                                             *)

EventSet ==
  [kind : Moves \cup {"pressed", "released", "text", "release_control", "none"},
   arg : Int \cup Buttons, aim : 0..(Extent - 1), locked : BOOLEAN, no : Nat]

TypeOK ==
  /\ setup \in Setups
  /\ aim \in 0..(Extent - 1) /\ anchor \in 0..(Extent - 1) /\ cursor \in 0..(Extent - 1)
  /\ held \subseteq Buttons /\ pressed \subseteq Buttons /\ down \subseteq Buttons
  /\ closed \in BOOLEAN /\ locked \in BOOLEAN /\ lost \in BOOLEAN /\ failed \in BOOLEAN
  /\ sent \in Nat /\ batch \in Nat /\ hand \in Nat /\ typed \in Nat /\ drawn \in Nat /\ last \in Nat
  /\ want \in Int
  /\ \A i \in DOMAIN net : net[i] \in EventSet
  /\ Len(queue) <= Capacity /\ \A i \in DOMAIN queue : queue[i] \in EventSet
  /\ deferred \in EventSet
  /\ put \in {"idle", "evict", "reput"}
  /\ pc \in {"start", "failed", "get", "moves", "flush", "text", "type", "closed"}
  /\ bridge \in {"up", "stopping", "ended"}
  /\ pointer \in {"up", "hung", "gone"}

\* Everything the client sent has been injected, and the helper is well.
Drained ==
  /\ net = <<>> /\ put = "idle" /\ queue = <<>> /\ deferred = NoEvent /\ pc = "get"
  /\ bridge = "up"
  /\ setup.backend = "sway" => pointer = "up"

\* Events are injected in the order they were sent, each at most once.
InjectsInOrder == [][last' # last => last' > last]_vars

\* The press e takes effect.
Clicks(e) ==
  /\ Inject /\ e.kind = "pressed" /\ last' = e.no
  /\ e.arg \in down' \ down \/ (setup.backend = "hyprland" /\ failed' = failed)

\* web/src/main.ts:1431, "Position must arrive before its click": unless an
\* event was dropped at a full queue, an injection failed or the pointer was
\* locked, a press takes effect where the client's pointer was when it was sent;
\* joining and deferring never move a click.
ClickWhereAimed ==
  [][\A e \in Candidates :
       Clicks(e) /\ ~lost /\ ~failed /\ ~e.locked => cursor = e.aim]_vars

\* docs/eutherbrowse-pointer-slice.md:22, "tracks held buttons, and releases
\* them": once everything is injected, the buttons that are down are those the
\* client holds, and none when its channel is closed, as long as nothing was
\* dropped and nothing failed.
ButtonsFollow ==
  Drained /\ setup.backend = "sway" /\ ~lost /\ ~failed =>
    down = (IF closed THEN {} ELSE held) /\ pressed = down

\* docs/eutherbrowse-low-latency-slice.md:41, "Consecutive queued text events are
\* combined into bounded batches": nothing is left out, if no event crosses the
\* limit of a batch, as events of one character do not.
TextComplete == pc = "get" /\ ~failed => typed = drawn

\* euthergate-pointer keeps not reading what it is told.
PointerStuck == []<>(pointer = "hung")

\* docs/eutherbrowse-pointer-slice.md:21, "releases every held button before
\* disconnecting": however the helper ends, no button stays down, unless
\* euthergate-pointer itself is stuck.
EndReleases == PointerStuck \/ ((bridge = "ended") ~> (down = {}))

\* A full queue is worked off unless the helper ends, the input thread could not
\* build its controller (wss_desktop.py:127-131, webrtc_desktop.py:212), or
\* euthergate-pointer never takes the line the thread writes to it.
FullQueueDrains ==
  \/ PointerStuck
  \/ Len(queue) = Capacity ~> queue = <<>> \/ bridge # "up" \/ pc = "failed"
=============================================================================
