------------------------------ MODULE FrameGate ------------------------------
(***************************************************************************)
(* One HTTPS/WSS desktop viewer: the capture helper writes framed packets  *)
(* to a pipe; desktop_fallback_socket reads them, sends JPEGs one at a     *)
(* time as the client acknowledges them, and watches the client's silence. *)
(*                                                                         *)
(* The select loop is biased: heartbeat, packet, client message, helper    *)
(* exit.  A branch that wins drops the futures of the others, and the      *)
(* packet future holds what it has read of a packet so far.  In the pipe   *)
(* a packet is a header and a body; frames are numbered as they are read.  *)
(* A send to the client has a time limit.  A write to the helper has none: *)
(* while the helper does not read its input, nothing else is looked at.    *)
(***************************************************************************)
EXTENDS Integers, Sequences

CONSTANTS
  Interval, Timeout,   \* DESKTOP_HEARTBEAT_INTERVAL and _TIMEOUT
  SendTimeout,         \* DESKTOP_SEND_TIMEOUT
  TeardownTimeout,     \* the wait for the helper at the end
  PipeUnits,           \* bound on what the helper has written ahead
  MaxPackets,          \* bound on the helper's packets
  MaxBlocked,          \* bound on the time spent in writes to the helper
  MaxMessages          \* bound on the heartbeats and inputs in transit

ASSUME TimesAssumption ==
  /\ Interval \in Nat \ {0}
  /\ Timeout \in Nat \ {0}
  /\ SendTimeout \in Nat \ {0}
  /\ TeardownTimeout \in Nat \ {0}
ASSUME BoundsAssumption ==
  /\ PipeUnits \in Nat \ {0}
  /\ MaxPackets \in Nat
  /\ MaxBlocked \in Nat
  /\ MaxMessages \in Nat \ {0}

VARIABLES
  gate,      \* where the loop is
  got,       \* kind of the header the packet future holds, or "none"
  inFlight,  \* frame_in_flight
  pending,   \* pending_frame, or 0
  out,       \* the frame being sent
  newest,    \* number of the last frame read
  taken,     \* number of the last frame sent
  due,       \* the heartbeat interval has a tick to deliver
  phase,     \* time since its last multiple
  quiet,     \* last_client_message.elapsed()
  blocked,   \* history: how much of quiet went into writes to the helper
  age,       \* time spent in the current send or in the teardown
  helper,    \* the helper process
  writing,   \* the packet whose header is written and whose body is not
  pipe,      \* the helper's output that nobody has read
  written,   \* packets begun so far
  client,    \* the viewer: "on", "silent" (half open) or "closed"
  wire,      \* frames on their way to the client
  toGate     \* messages on their way to the gate

loopVars == <<gate, got, inFlight, pending, out, newest, taken>>
timeVars == <<due, phase, quiet, blocked, age>>
helperVars == <<helper, writing, pipe, written>>
clientVars == <<client, wire, toGate>>
vars == <<loopVars, timeVars, helperVars, clientVars>>

Kinds == {"jpeg", "json"}
Body(kind) == IF kind = "jpeg" THEN "jpegBody" ELSE "jsonBody"

Init ==
  /\ gate = "select" /\ got = "none"
  /\ inFlight = FALSE /\ pending = 0
  /\ out = 0 /\ newest = 0 /\ taken = 0
  /\ due = TRUE    \* the first tick of an interval is immediate
  /\ phase = 0 /\ quiet = 0 /\ blocked = 0 /\ age = 0
  /\ helper = "up" /\ writing = "none" /\ pipe = <<>> /\ written = 0
  /\ client = "on" /\ wire = <<>> /\ toGate = <<>>
-----------------------------------------------------------------------------
(* The loop's outcomes.                                                    *)

Goto(g) == gate' = g /\ age' = 0

\* `bail` or `?`: the socket task returns and the dropped child is killed.
Fail ==
  /\ Goto("ended")
  /\ helper' = "exited"
  /\ UNCHANGED <<writing, pipe, written>>

\* `break`: on to the line that asks the helper to stop.
Break == Goto("stopLine") /\ UNCHANGED helperVars

\* Where the task waits for the helper to read its input.
Writes == {"writeInput", "stopLine"}

\* The loop goes on to another select, or starts a send.
Continue == Goto("select") /\ UNCHANGED helperVars
StartFrame(frame) ==
  /\ Goto("sendFrame")
  /\ out' = frame
-----------------------------------------------------------------------------
(* The heartbeat branch.                                                   *)

\* Mutant of HeartbeatTick: silence is never noticed.
HeartbeatTickLenient ==
  /\ gate = "select" /\ due
  /\ due' = FALSE
  /\ got' = "none"
  /\ Continue
  /\ UNCHANGED <<inFlight, pending, out, newest, taken, phase, quiet, blocked, clientVars>>

HeartbeatTick ==
  /\ gate = "select" /\ due
  /\ due' = FALSE
  /\ got' = "none"
  /\ IF quiet >= Timeout THEN Fail ELSE Continue
  /\ UNCHANGED <<inFlight, pending, out, newest, taken, phase, quiet, blocked, clientVars>>
-----------------------------------------------------------------------------
(* The packet branch: read_fallback_packet and what the loop does with it. *)

\* What the five bytes at the front of the pipe say; "oversize" is a length
\* over FALLBACK_MAX_PACKET_BYTES.  In the middle of a packet, anything.
HeaderOf(unit) ==
  IF unit \in Kinds THEN {unit} ELSE {"jpeg", "json", "other", "oversize"}

CanRead == gate = "select" /\ ~due /\ pipe # <<>>

ReadHeader ==
  /\ CanRead /\ got = "none"
  /\ pipe' = Tail(pipe)
  /\ \E kind \in HeaderOf(Head(pipe)) :
       IF kind = "oversize"
         THEN got' = "none" /\ Goto("ended") /\ helper' = "exited"
         ELSE got' = kind /\ UNCHANGED <<gate, age, helper>>
  /\ UNCHANGED <<inFlight, pending, out, newest, taken, due, phase, quiet, blocked,
                 writing, written, clientVars>>

\* Mutant of ReadFrame: frames are sent whether or not one is unacknowledged.
ReadFrameUngated ==
  /\ CanRead /\ got = "jpeg"
  /\ got' = "none"
  /\ pipe' = Tail(pipe)
  /\ newest' = newest + 1
  /\ StartFrame(newest + 1)
  /\ UNCHANGED <<inFlight, pending, taken, due, phase, quiet, blocked, helper, writing, written, clientVars>>

\* A JPEG: to the pending slot while one is unacknowledged, else to the client.
ReadFrame ==
  /\ CanRead /\ got = "jpeg"
  /\ got' = "none"
  /\ pipe' = Tail(pipe)
  /\ newest' = newest + 1
  /\ IF inFlight
       THEN pending' = newest + 1 /\ UNCHANGED <<gate, age, out>>
       ELSE StartFrame(newest + 1) /\ UNCHANGED pending
  /\ UNCHANGED <<inFlight, taken, due, phase, quiet, blocked, helper, writing, written, clientVars>>

\* A status message is sent at once if it is UTF-8; any other kind is an error.
ReadOther ==
  /\ CanRead /\ got \in {"json", "other"}
  /\ got' = "none"
  /\ pipe' = Tail(pipe)
  /\ \/ got = "json" /\ Goto("sendText") /\ UNCHANGED helper
     \/ /\ got = "other" \/ Head(pipe) # "jsonBody"
        /\ Goto("ended") /\ helper' = "exited"
  /\ UNCHANGED <<inFlight, pending, out, newest, taken, due, phase, quiet, blocked,
                 writing, written, clientVars>>

\* End of file, or child.wait() when something still holds the pipe open.
HelperGone ==
  /\ gate = "select" /\ ~due
  /\ helper = "exited" /\ pipe = <<>>
  /\ got' = "none"
  /\ (got = "none" /\ Break) \/ Fail
  /\ UNCHANGED <<inFlight, pending, out, newest, taken, due, phase, quiet, blocked, clientVars>>
-----------------------------------------------------------------------------
(* Sends: done, or failed or out of time.                                  *)

\* Mutant of FrameSent: the frame does not count as unacknowledged.
FrameSentUncounted ==
  /\ gate = "sendFrame"
  /\ client # "closed"
  /\ wire' = Append(wire, out)
  /\ taken' = out
  /\ Continue
  /\ UNCHANGED <<got, inFlight, pending, out, newest, timeVars, client, toGate>>

FrameSent ==
  /\ gate = "sendFrame"
  /\ client # "closed"
  /\ wire' = Append(wire, out)
  /\ inFlight' = TRUE
  /\ taken' = out
  /\ Continue
  /\ UNCHANGED <<got, pending, out, newest, due, phase, quiet, blocked, client, toGate>>

TextSent ==
  /\ gate = "sendText"
  /\ client # "closed"
  /\ Continue
  /\ UNCHANGED <<got, inFlight, pending, out, newest, taken, due, phase, quiet, blocked, clientVars>>

SendFails ==
  /\ gate \in {"sendFrame", "sendText"}
  /\ client = "closed" \/ age = SendTimeout
  /\ Break
  /\ UNCHANGED <<got, inFlight, pending, out, newest, taken, due, phase, quiet, blocked, clientVars>>
-----------------------------------------------------------------------------
(* The client branch: polled when the packet branch has nothing to do.     *)

TakesMessage(kind) ==
  /\ gate = "select" /\ ~due /\ pipe = <<>>
  /\ toGate # <<>> /\ Head(toGate) = kind
  /\ toGate' = Tail(toGate)
  /\ got' = "none"

\* last_client_message = Instant::now()
Heard == quiet' = 0 /\ blocked' = 0

Heartbeat ==
  /\ TakesMessage("heartbeat")
  /\ Heard
  /\ Continue
  /\ UNCHANGED <<inFlight, pending, out, newest, taken, due, phase, client, wire>>

\* Mutant of FrameAck: the pending frame waits for the next capture.
FrameAckForgets ==
  /\ TakesMessage("frame_ack")
  /\ Heard
  /\ inFlight' = FALSE
  /\ Continue
  /\ UNCHANGED <<pending, out, newest, taken, due, phase, client, wire>>

FrameAck ==
  /\ TakesMessage("frame_ack")
  /\ Heard
  /\ inFlight' = FALSE
  /\ pending' = 0
  /\ IF pending # 0 THEN StartFrame(pending) ELSE Goto("select") /\ UNCHANGED out
  /\ UNCHANGED <<newest, taken, due, phase, client, wire, helperVars>>

\* Anything else is a line for the helper.
Input ==
  /\ TakesMessage("input")
  /\ Heard
  /\ Goto("writeInput") /\ UNCHANGED helperVars
  /\ UNCHANGED <<inFlight, pending, out, newest, taken, due, phase, client, wire>>

Close ==
  /\ TakesMessage("close")
  /\ Break
  /\ UNCHANGED <<inFlight, pending, out, newest, taken, due, phase, quiet, blocked, client, wire>>

\* write_all and flush return when the pipe has room; without a helper they fail.
InputWritten ==
  /\ gate = "writeInput"
  /\ helper # "hung"
  /\ IF helper = "exited" THEN Fail ELSE Continue
  /\ UNCHANGED <<got, inFlight, pending, out, newest, taken, due, phase, quiet, blocked, clientVars>>

\* The stop line: an error is ignored, a full pipe is waited for.
StopWritten ==
  /\ gate = "stopLine"
  /\ helper # "hung"
  /\ Goto("closing")
  /\ UNCHANGED <<got, inFlight, pending, out, newest, taken, due, phase, quiet, blocked,
                 helperVars, clientVars>>

\* Mutant of Teardown: a helper that does not stop by itself is not killed.
TeardownWaits ==
  /\ gate = "closing"
  /\ helper = "exited"
  /\ Fail
  /\ UNCHANGED <<got, inFlight, pending, out, newest, taken, due, phase, quiet, blocked, clientVars>>

\* The end: the helper stops by itself or is killed when its time is up.
Teardown ==
  /\ gate = "closing"
  /\ Fail
  /\ UNCHANGED <<got, inFlight, pending, out, newest, taken, due, phase, quiet, blocked, clientVars>>
-----------------------------------------------------------------------------
(* The helper.  output_lock lets one thread write a packet at a time.      *)

HelperRuns == helper # "exited" /\ gate # "ended" /\ Len(pipe) < PipeUnits

WriteHeader ==
  /\ HelperRuns /\ writing = "none" /\ written < MaxPackets
  /\ \E kind \in Kinds : writing' = kind /\ pipe' = Append(pipe, kind)
  /\ written' = written + 1
  /\ UNCHANGED <<loopVars, timeVars, helper, clientVars>>

WriteBody ==
  /\ HelperRuns /\ writing # "none"
  /\ pipe' = Append(pipe, Body(writing))
  /\ writing' = "none"
  /\ UNCHANGED <<loopVars, timeVars, helper, written, clientVars>>

\* It does not read its input and the pipe is full, until it reads again.  Only a
\* write can tell.
HelperHangs ==
  /\ gate \in Writes
  /\ helper # "exited"
  /\ helper' = IF helper = "up" THEN "hung" ELSE "up"
  /\ UNCHANGED <<loopVars, timeVars, writing, pipe, written, clientVars>>

HelperExits ==
  /\ helper # "exited" /\ gate # "ended"
  /\ helper' = "exited"
  /\ UNCHANGED <<loopVars, timeVars, writing, pipe, written, clientVars>>
-----------------------------------------------------------------------------
(* The client.                                                             *)

Says(message) ==
  /\ client = "on" /\ gate # "ended"
  /\ toGate' = Append(toGate, message)

ClientActs ==
  /\ Len(toGate) < MaxMessages
  /\ Says("heartbeat") \/ Says("input")
  /\ UNCHANGED <<loopVars, timeVars, helperVars, client, wire>>

\* showFallbackFrame: the image is loaded, or fails to, and is acknowledged.
ClientShows ==
  /\ wire # <<>>
  /\ wire' = Tail(wire)
  /\ Says("frame_ack")
  /\ UNCHANGED <<loopVars, timeVars, helperVars, client>>

ClientLeaves ==
  /\ \/ Says("close") /\ client' = "closed"
     \/ client = "on" /\ client' = "silent" /\ UNCHANGED toGate
  /\ UNCHANGED <<loopVars, timeVars, helperVars, wire>>
-----------------------------------------------------------------------------
(* Time.  A timer that is up fires before more time passes.                *)

Tick ==
  /\ gate # "ended"
  /\ ~(gate = "select" /\ due)
  /\ gate \in {"sendFrame", "sendText"} => age < SendTimeout
  /\ gate = "closing" => age < TeardownTimeout
  /\ gate \in Writes => blocked < MaxBlocked
  /\ quiet' = quiet + 1
  /\ phase' = IF phase + 1 = Interval THEN 0 ELSE phase + 1
  /\ due' = (due \/ phase + 1 = Interval)
  /\ blocked' = IF gate \in Writes THEN blocked + 1 ELSE blocked
  /\ age' = IF gate \in Writes \cup {"select"} THEN 0 ELSE age + 1
  /\ UNCHANGED <<loopVars, helperVars, clientVars>>

LoopStep ==
  \/ HeartbeatTick
  \/ ReadHeader \/ ReadFrame \/ ReadOther \/ HelperGone
  \/ FrameSent \/ TextSent \/ SendFails
  \/ Heartbeat \/ FrameAck \/ Input \/ Close
  \/ InputWritten \/ StopWritten
  \/ Teardown

Next ==
  \/ LoopStep
  \/ WriteHeader \/ WriteBody \/ HelperHangs \/ HelperExits
  \/ ClientActs \/ ClientShows \/ ClientLeaves
  \/ Tick

Spec == Init /\ [][Next]_vars

\* The loop runs, a client that is there shows what it gets, and time passes.
\* Nothing is assumed of the helper.
Fairness ==
  /\ WF_vars(LoopStep)
  /\ WF_vars(ClientShows)
  /\ WF_vars(Tick)

FairSpec == Spec /\ Fairness
-----------------------------------------------------------------------------
(* Properties.                                                             *)

TypeOK ==
  /\ gate \in {"select", "sendFrame", "sendText", "writeInput", "stopLine", "closing", "ended"}
  /\ got \in {"none", "jpeg", "json", "other"}
  /\ inFlight \in BOOLEAN /\ due \in BOOLEAN
  /\ pending \in Nat /\ out \in Nat /\ newest \in Nat /\ taken \in Nat
  /\ phase \in 0..(Interval - 1) /\ quiet \in Nat /\ blocked \in Nat /\ age \in Nat
  /\ helper \in {"up", "hung", "exited"}
  /\ writing \in Kinds \cup {"none"}
  /\ pipe \in Seq({"jpeg", "json", "jpegBody", "jsonBody"})
  /\ written \in Nat
  /\ client \in {"on", "silent", "closed"}
  /\ wire \in Seq(Nat)
  /\ toGate \in Seq({"heartbeat", "frame_ack", "input", "close"})

AckAt(i) == i \in DOMAIN toGate /\ toGate[i] = "frame_ack"

\* docs/eutherbrowse-low-latency-slice.md:19: at most one frame is on its way
\* to the client or back as an acknowledgement, and the gate knows which.
OneUnacknowledged ==
  /\ Len(wire) <= 1
  /\ \A i, j \in DOMAIN toGate : AckAt(i) /\ AckAt(j) => i = j
  /\ wire # <<>> => \A i \in DOMAIN toGate : ~AckAt(i)
  /\ inFlight <=> wire # <<>> \/ \E i \in DOMAIN toGate : AckAt(i)

\* The same line: what waits behind an unacknowledged frame is the newest
\* frame, and nothing waits when nothing is unacknowledged.
NewestWaits ==
  gate = "select" =>
    /\ ~inFlight => pending = 0 /\ taken = newest
    /\ inFlight => pending = (IF taken = newest THEN 0 ELSE newest)

Channel == INSTANCE ConflatingChannel WITH busy <- inFlight

\* The gate hands frames over as a conflating channel does.
ImplementsChannel == Channel!Spec

\* docs/eutherbrowse-stability-slice.md:34, "A viewer with no application
\* message for 20 seconds is released": the socket task outlives the silence by
\* no more than an interval, a blocked send, the teardown, and what it spends in
\* the writes that have no limit (main.rs:2835-2837, 2853), of which the document
\* says nothing.
SilentReleased ==
  gate # "ended" => quiet < Timeout + Interval + SendTimeout + TeardownTimeout + blocked

\* The helper keeps the task waiting in writes, for ever or over and over.  One that
\* does so for a while is no excuse.
BlockedByHelper == []<>(helper = "hung" /\ gate \in Writes)

\* The newest frame, or one after it, reaches a client that keeps acknowledging,
\* unless the helper keeps the task from reading the acknowledgement for ever.
NewestArrives ==
  \/ BlockedByHelper
  \/ \A n \in 1..MaxPackets :
       newest >= n ~> taken >= n \/ gate \in {"stopLine", "closing", "ended"} \/ client # "on"

\* A viewer that has gone away in any manner gives up its socket task, and with it
\* the lease; only a helper that never again reads its input can keep it.
GoneReleased == BlockedByHelper \/ (client # "on" ~> gate = "ended")

\* scripts/wss_desktop.py:7, "1 byte packet type + 4 byte big-endian payload
\* length + payload": the gate looks for a header where the helper wrote one.
HeaderWhereWritten ==
  gate # "ended" /\ got = "none" /\ pipe # <<>> => Head(pipe) \in Kinds
=============================================================================
