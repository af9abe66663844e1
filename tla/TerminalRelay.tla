---------------------------- MODULE TerminalRelay ----------------------------
(***************************************************************************)
(* One terminal attachment: the PTY reader thread appends what it reads to *)
(* a bounded history and broadcasts it; each viewer task takes a copy of   *)
(* the history, subscribes, replays and then forwards.  `gate` makes copy  *)
(* and subscription one step for the reader.                               *)
(*                                                                         *)
(* The output is a sequence of chunks numbered from 1; the history is the  *)
(* interval of the last HistoryLimit of them (the code counts bytes, so a  *)
(* replay may start inside a chunk).                                       *)
(***************************************************************************)
EXTENDS Integers

CONSTANTS
  Viewers,
  Pty,           \* the reader thread, as a holder of the gate
  Free,          \* nobody holds the gate
  HistoryLimit,  \* HISTORY_LIMIT, in chunks
  Capacity,      \* of the broadcast channel
  MaxChunks      \* bound on the output

ASSUME NamesAssumption == Pty \notin Viewers /\ Free \notin Viewers /\ Pty # Free
ASSUME LimitsAssumption ==
  /\ HistoryLimit \in Nat \ {0}
  /\ Capacity \in Nat \ {0}
  /\ MaxChunks \in Nat

VARIABLES
  gate,    \* OutputRelay.gate
  lo, hi,  \* OutputRelay.history holds the chunks lo+1 .. hi
  sent,    \* chunks broadcast so far: the channel's tail
  pty,     \* where the reader thread is
  vpc,     \* where each viewer task is
  next,    \* each viewer's receiver: the chunk it takes next
  shown,   \* the last chunk forwarded to each viewer
  lagged   \* history: a lag was reported since that chunk

relayVars == <<gate, lo, hi, sent, pty, vpc, next, shown, lagged>>

Larger(a, b) == IF a >= b THEN a ELSE b

Attached(v) == vpc[v] \in {"replay", "live", "sending"}

RelayInit ==
  /\ gate = Free
  /\ lo = 0 /\ hi = 0 /\ sent = 0
  /\ pty = "read"
  /\ vpc = [v \in Viewers |-> "detached"]
  /\ next = [v \in Viewers |-> 1]
  /\ shown = [v \in Viewers |-> 0]
  /\ lagged = [v \in Viewers |-> FALSE]
-----------------------------------------------------------------------------
(* The reader thread.                                                      *)

PtyRead ==
  /\ pty = "read"
  /\ \/ sent < MaxChunks /\ pty' = "gate"
     \/ pty' = "done"    \* end of file or a read error
  /\ UNCHANGED <<gate, lo, hi, sent, vpc, next, shown, lagged>>

\* Mutant of PtyAppend: the thread does not take the gate.
PtyAppendUngated ==
  /\ pty = "gate"
  /\ pty' = "send"
  /\ hi' = hi + 1
  /\ lo' = Larger(lo, hi + 1 - HistoryLimit)
  /\ UNCHANGED <<gate, sent, vpc, next, shown, lagged>>

PtyAppend ==
  /\ pty = "gate"
  /\ gate = Free
  /\ gate' = Pty
  /\ pty' = "send"
  /\ hi' = hi + 1
  /\ lo' = Larger(lo, hi + 1 - HistoryLimit)
  /\ UNCHANGED <<sent, vpc, next, shown, lagged>>

PtySend ==
  /\ pty = "send"
  /\ sent' = sent + 1
  /\ gate' = Free
  /\ pty' = "read"
  /\ UNCHANGED <<lo, hi, vpc, next, shown, lagged>>
-----------------------------------------------------------------------------
(* A viewer task.                                                          *)

GotoV(v, pc) == vpc' = [vpc EXCEPT ![v] = pc]

Connect(v) ==
  /\ vpc[v] = "detached"
  /\ GotoV(v, "copy")
  /\ UNCHANGED <<gate, lo, hi, sent, pty, next, shown, lagged>>

\* The first half of replay_and_subscribe: the history becomes the replay.
CopyHistory(v) ==
  /\ vpc[v] = "copy"
  /\ gate = Free
  /\ gate' = v
  /\ shown' = [shown EXCEPT ![v] = hi]
  /\ lagged' = [lagged EXCEPT ![v] = FALSE]
  /\ GotoV(v, "subscribe")
  /\ UNCHANGED <<lo, hi, sent, pty, next>>

Subscribe(v) ==
  /\ vpc[v] = "subscribe"
  /\ next' = [next EXCEPT ![v] = sent + 1]
  /\ gate' = Free
  /\ GotoV(v, "replay")
  /\ UNCHANGED <<lo, hi, sent, pty, shown, lagged>>

\* The replay is sent; the task ends if that fails.
Replay(v) ==
  /\ vpc[v] = "replay"
  /\ GotoV(v, "live") \/ GotoV(v, "detached")
  /\ UNCHANGED <<gate, lo, hi, sent, pty, next, shown, lagged>>

\* Mutant of Receive: a receiver that was lapped does not return.
ReceiveStuck(v) ==
  /\ vpc[v] = "live"
  /\ next[v] <= sent
  /\ next[v] > sent - Capacity
  /\ GotoV(v, "sending")
  /\ next' = [next EXCEPT ![v] = @ + 1]
  /\ UNCHANGED <<gate, lo, hi, sent, pty, shown, lagged>>

\* recv: the next chunk, or a lag that moves the receiver to the oldest chunk
\* the channel still has; the task logs it and goes on.
Receive(v) ==
  /\ vpc[v] = "live"
  /\ next[v] <= sent
  /\ IF next[v] > sent - Capacity
       THEN /\ GotoV(v, "sending")
            /\ next' = [next EXCEPT ![v] = @ + 1]
            /\ UNCHANGED lagged
       ELSE /\ next' = [next EXCEPT ![v] = sent - Capacity + 1]
            /\ lagged' = [lagged EXCEPT ![v] = TRUE]
            /\ UNCHANGED vpc
  /\ UNCHANGED <<gate, lo, hi, sent, pty, shown>>

\* The send succeeds, or fails and ends the task.
Forward(v) ==
  /\ vpc[v] = "sending"
  /\ \/ /\ GotoV(v, "live")
        /\ shown' = [shown EXCEPT ![v] = next[v] - 1]
        /\ lagged' = [lagged EXCEPT ![v] = FALSE]
     \/ GotoV(v, "detached") /\ UNCHANGED <<shown, lagged>>
  /\ UNCHANGED <<gate, lo, hi, sent, pty, next>>

\* The client closes, its socket fails, or its input cannot be written.
Disconnect(v) ==
  /\ vpc[v] = "live"
  /\ GotoV(v, "detached")
  /\ UNCHANGED <<gate, lo, hi, sent, pty, next, shown, lagged>>
-----------------------------------------------------------------------------
PtyStep == PtyRead \/ PtyAppend \/ PtySend

TaskStep(v) == CopyHistory(v) \/ Subscribe(v) \/ Replay(v) \/ Receive(v) \/ Forward(v)

RelayNext ==
  \/ PtyStep
  \/ \E v \in Viewers : Connect(v) \/ TaskStep(v) \/ Disconnect(v)

RelaySpec == RelayInit /\ [][RelayNext]_relayVars

\* The reader thread and the tasks run; a client reads what it is sent or its
\* connection breaks (terminal_socket puts no time limit on a send).
Fairness ==
  /\ WF_relayVars(PtyAppend \/ PtySend)
  /\ \A v \in Viewers : WF_relayVars(TaskStep(v))

FairSpec == RelaySpec /\ Fairness
-----------------------------------------------------------------------------
(* Properties.                                                             *)

RelayTypeOK ==
  /\ gate \in Viewers \cup {Pty, Free}
  /\ lo \in Nat /\ hi \in Nat /\ sent \in Nat
  /\ pty \in {"read", "gate", "send", "done"}
  /\ vpc \in [Viewers -> {"detached", "copy", "subscribe", "replay", "live", "sending"}]
  /\ next \in [Viewers -> Nat]
  /\ shown \in [Viewers -> Nat]
  /\ lagged \in [Viewers -> BOOLEAN]

\* README.md:11, "a bounded output replay buffer": what a viewer copies is the
\* newest HistoryLimit chunks of everything read, whenever it gets the gate.
HistoryIsNewest ==
  /\ hi = IF pty = "send" THEN sent + 1 ELSE sent
  /\ lo = Larger(0, hi - HistoryLimit)

\* The last chunk a viewer got or has in hand.
UpTo(v) == IF vpc[v] = "sending" THEN next[v] - 2 ELSE next[v] - 1

\* docs/architecture.md:38, "sends recent buffered output before forwarding new
\* PTY output": between the replay and the live chunks, and between one chunk
\* and the next, nothing is missing unless the channel reported a lag.
NoSilentGap == \A v \in Viewers : Attached(v) /\ ~lagged[v] => shown[v] = UpTo(v)

\* A viewer is never sent a chunk it already has, nor an older one.
ForwardsInOrder ==
  [][\A v \in Viewers :
       vpc[v] = "sending" /\ vpc'[v] = "live" =>
         /\ shown'[v] > shown[v]
         /\ lagged[v] \/ shown'[v] = shown[v] + 1]_relayVars

\* A viewer that stays gets to the end of the output, through any lag.
CatchesUp == \A v \in Viewers : Attached(v) ~> (~Attached(v) \/ shown[v] = sent)
=============================================================================
