--------------------------- MODULE FrameGateProofs ---------------------------
(***************************************************************************)
(* Proofs about FrameGate for any timers and bounds: one unacknowledged    *)
(* frame, the newest frame waits, a silent viewer is given up in time, and *)
(* the gate implements a conflating channel.                               *)
(***************************************************************************)
EXTENDS FrameGate, SequenceTheorems, TLAPS

Sending == gate \in {"sendFrame", "sendText"}

\* The frame in hand is the newest, and nothing is unacknowledged or waits.
SendsNewest ==
  /\ gate = "sendFrame" => ~inFlight /\ pending = 0 /\ out = newest /\ taken < newest
  /\ gate \in {"sendText", "writeInput"} =>
       /\ ~inFlight => pending = 0 /\ taken = newest
       /\ inFlight => pending = (IF taken = newest THEN 0 ELSE newest)
  /\ taken <= newest

\* What the client's silence can have reached, by where the loop is, besides what
\* went into writes to the helper: between two ticks it grows with the phase,
\* after a missed tick with the send; a write of input begins it anew.
SilenceBounds ==
  /\ gate = "select" => age = 0
  /\ Sending => age <= SendTimeout
  /\ gate = "closing" => age <= TeardownTimeout
  /\ (gate = "select" \/ Sending) /\ ~due => quiet <= Timeout - 1 + phase + blocked
  /\ gate = "select" /\ due => quiet <= Timeout - 1 + Interval + SendTimeout + blocked
  /\ Sending /\ due => quiet <= Timeout - 1 + Interval + age + blocked
  /\ gate = "writeInput" => quiet <= blocked
  /\ gate = "stopLine" => quiet <= Timeout - 1 + Interval + SendTimeout + blocked
  /\ gate = "closing" => quiet <= Timeout - 1 + Interval + SendTimeout + age + blocked

-----------------------------------------------------------------------------
LEMMA TypesInit == Init => TypeOK
<1> SUFFICES ASSUME Init PROVE TypeOK
  OBVIOUS
<1>1. inFlight \in BOOLEAN /\ due \in BOOLEAN
  BY Zenon DEF Init
<1>2. pipe \in Seq({"jpeg", "json", "jpegBody", "jsonBody"}) /\ wire \in Seq(Nat)
      /\ toGate \in Seq({"heartbeat", "frame_ack", "input", "close"})
  BY DEF Init
<1>3. phase \in 0..(Interval - 1)
  BY TimesAssumption DEF Init
<1>4. QED
  BY <1>1, <1>2, <1>3 DEF Init, TypeOK, Kinds

\* The loop's flags stay Boolean.
LEMMA FlagsNext ==
  ASSUME inFlight \in BOOLEAN, due \in BOOLEAN, [Next]_vars
  PROVE  inFlight' \in BOOLEAN /\ due' \in BOOLEAN
<1> USE DEF clientVars, helperVars, timeVars, loopVars
<1>1. CASE HeartbeatTick
  BY <1>1, Zenon DEF HeartbeatTick
<1>2. CASE ReadHeader \/ ReadFrame \/ ReadOther \/ HelperGone
  BY <1>2, Zenon DEF ReadHeader, ReadFrame, ReadOther, HelperGone
<1>3. CASE FrameSent \/ TextSent \/ SendFails \/ InputWritten \/ StopWritten \/ Teardown
  BY <1>3, Zenon DEF FrameSent, TextSent, SendFails, InputWritten, StopWritten, Teardown
<1>4. CASE Heartbeat \/ FrameAck \/ Input \/ Close
  BY <1>4, Zenon DEF Heartbeat, FrameAck, Input, Close
<1>5. CASE WriteHeader \/ WriteBody \/ HelperHangs \/ HelperExits
  BY <1>5, Zenon DEF WriteHeader, WriteBody, HelperHangs, HelperExits
<1>6. CASE ClientActs \/ ClientShows \/ ClientLeaves
  BY <1>6, Zenon DEF ClientActs, ClientShows, ClientLeaves
<1>7. CASE Tick
  BY <1>7, Zenon DEF Tick
<1>8. CASE UNCHANGED vars
  BY <1>8, Zenon DEF vars
<1>9. QED
  BY <1>1, <1>2, <1>3, <1>4, <1>5, <1>6, <1>7, <1>8 DEF Next, LoopStep

LEMMA TypesNext == TypeOK /\ [Next]_vars => TypeOK'
<1> SUFFICES ASSUME TypeOK, [Next]_vars PROVE TypeOK'
  OBVIOUS
<1>flags. inFlight' \in BOOLEAN /\ due' \in BOOLEAN
  BY FlagsNext DEF TypeOK
<1> USE <1>flags, TimesAssumption
    DEF TypeOK, Kinds, Goto, clientVars, helperVars, timeVars, loopVars
<1>1. CASE HeartbeatTick
  BY <1>1 DEF HeartbeatTick, Fail, Continue
<1>2. CASE ReadHeader
  <2>1. HeaderOf(Head(pipe)) \subseteq {"jpeg", "json", "other", "oversize"}
    BY DEF HeaderOf
  <2>2. got' \in {"none", "jpeg", "json", "other"} /\ age' \in Nat
        /\ gate' \in {"select", "ended"} /\ helper' \in {"up", "hung", "exited"}
    BY <1>2, <2>1 DEF ReadHeader, CanRead
  <2>3. QED BY <1>2, <2>2 DEF ReadHeader, CanRead
<1>3. CASE ReadFrame
  BY <1>3 DEF ReadFrame, CanRead, StartFrame
<1>4. CASE ReadOther
  BY <1>4 DEF ReadOther, CanRead
<1>5. CASE HelperGone
  <2>1. CASE Break
    BY <1>5, <2>1 DEF HelperGone, Break
  <2>2. CASE Fail
    BY <1>5, <2>2 DEF HelperGone, Fail
  <2>3. QED BY <1>5, <2>1, <2>2 DEF HelperGone
<1>6. CASE FrameSent
  BY <1>6 DEF FrameSent, Continue
<1>7. CASE TextSent
  BY <1>7 DEF TextSent, Continue
<1>8. CASE SendFails
  BY <1>8 DEF SendFails, Break
<1>9. CASE Heartbeat
  BY <1>9 DEF Heartbeat, TakesMessage, Heard, Continue
<1>10. CASE FrameAck
  BY <1>10 DEF FrameAck, TakesMessage, Heard, StartFrame
<1>11. CASE Input
  BY <1>11 DEF Input, TakesMessage, Heard
<1>12. CASE Close
  BY <1>12 DEF Close, TakesMessage, Break
<1>13. CASE Teardown
  BY <1>13 DEF Teardown, Fail
<1>14. CASE WriteHeader
  BY <1>14 DEF WriteHeader, HelperRuns
<1>15. CASE WriteBody
  BY <1>15 DEF WriteBody, HelperRuns, Body
<1>16. CASE HelperHangs \/ HelperExits
  BY <1>16 DEF HelperHangs, HelperExits
<1>17. CASE ClientActs \/ ClientShows \/ ClientLeaves
  <2>1. CASE ClientActs
    <3>1. CASE Says("heartbeat")
      BY <2>1, <3>1 DEF ClientActs, Says
    <3>2. CASE Says("input")
      BY <2>1, <3>2 DEF ClientActs, Says
    <3>3. QED BY <2>1, <3>1, <3>2 DEF ClientActs
  <2>2. CASE ClientShows
    BY <2>2 DEF ClientShows, Says
  <2>3. CASE ClientLeaves
    <3>1. CASE Says("close") /\ client' = "closed"
      BY <2>3, <3>1 DEF ClientLeaves, Says
    <3>2. CASE client' = "silent" /\ UNCHANGED toGate
      BY <2>3, <3>2 DEF ClientLeaves
    <3>3. QED BY <2>3, <3>1, <3>2 DEF ClientLeaves
  <2>4. QED BY <1>17, <2>1, <2>2, <2>3
<1>18. CASE Tick
  <2>1. phase' \in 0..(Interval - 1) /\ quiet' \in Nat /\ blocked' \in Nat /\ age' \in Nat
    BY <1>18 DEF Tick
  <2>2. UNCHANGED <<loopVars, helperVars, clientVars>>
    BY <1>18 DEF Tick
  <2>3. QED BY <2>1, <2>2
<1>19. CASE UNCHANGED vars
  BY <1>19 DEF vars
<1>20. CASE InputWritten
  <2>1. CASE Continue
    BY <1>20, <2>1 DEF InputWritten, Continue
  <2>2. CASE Fail
    BY <1>20, <2>2 DEF InputWritten, Fail
  <2>3. QED BY <1>20, <2>1, <2>2 DEF InputWritten
<1>21. CASE StopWritten
  BY <1>21 DEF StopWritten
<1>22. QED
  BY <1>1, <1>2, <1>3, <1>4, <1>5, <1>6, <1>7, <1>8, <1>9, <1>10, <1>11, <1>12, <1>13,
     <1>14, <1>15, <1>16, <1>17, <1>18, <1>19, <1>20, <1>21 DEF Next, LoopStep

\* Whatever the helper, the timers and the clients do, the state has its types.
THEOREM FrameTypes == Spec => []TypeOK
  BY TypesInit, TypesNext, PTL DEF Spec
-----------------------------------------------------------------------------
\* What the gate knows of the frames: the parts of FrameInv about the loop.
FramesInv == NewestWaits /\ SendsNewest

LEMMA FramesInit == Init => FramesInv
  BY DEF Init, FramesInv, NewestWaits, SendsNewest

LEMMA FramesNext == TypeOK /\ FramesInv /\ [Next]_vars => FramesInv'
<1> SUFFICES ASSUME TypeOK, FramesInv, [Next]_vars PROVE FramesInv'
  OBVIOUS
<1> USE DEF TypeOK, FramesInv, NewestWaits, SendsNewest, Goto,
            clientVars, helperVars, timeVars, loopVars
<1>1. CASE HeartbeatTick
  BY <1>1 DEF HeartbeatTick, Fail, Continue
<1>2. CASE ReadHeader
  BY <1>2 DEF ReadHeader, CanRead
<1>3. CASE ReadFrame
  BY <1>3 DEF ReadFrame, CanRead, StartFrame
<1>4. CASE ReadOther \/ HelperGone
  BY <1>4 DEF ReadOther, CanRead, HelperGone, Break, Fail
<1>5. CASE FrameSent \/ TextSent
  BY <1>5 DEF FrameSent, TextSent, Continue
<1>6. CASE SendFails \/ InputWritten \/ StopWritten \/ Teardown
  BY <1>6 DEF SendFails, Break, InputWritten, StopWritten, Teardown, Fail, Continue
<1>7. CASE Heartbeat \/ Input \/ Close
  BY <1>7 DEF Heartbeat, Input, Close, TakesMessage, Heard, Continue, Break
<1>8. CASE FrameAck
  BY <1>8 DEF FrameAck, TakesMessage, Heard, StartFrame
<1>9. CASE WriteHeader \/ WriteBody \/ HelperHangs \/ HelperExits
  BY <1>9 DEF WriteHeader, WriteBody, HelperHangs, HelperExits
<1>10. CASE ClientActs \/ ClientShows \/ ClientLeaves
  BY <1>10 DEF ClientActs, ClientShows, ClientLeaves
<1>11. CASE Tick
  BY <1>11 DEF Tick
<1>12. CASE UNCHANGED vars
  BY <1>12 DEF vars
<1>13. QED
  BY <1>1, <1>2, <1>3, <1>4, <1>5, <1>6, <1>7, <1>8, <1>9, <1>10, <1>11, <1>12
     DEF Next, LoopStep

\* The gate retains the newest frame behind an unacknowledged one, and nothing
\* otherwise, for any helper and any client.
THEOREM FrameNewestWaits == Spec => []NewestWaits
<1>1. FramesInv => NewestWaits
  BY DEF FramesInv
<1>2. QED
  BY <1>1, TypesInit, TypesNext, FramesInit, FramesNext, PTL DEF Spec
-----------------------------------------------------------------------------
LEMMA SilenceInit == Init => SilenceBounds
  BY TimesAssumption DEF Init, SilenceBounds, Sending

LEMMA SilenceNext == TypeOK /\ SilenceBounds /\ [Next]_vars => SilenceBounds'
<1> SUFFICES ASSUME TypeOK, SilenceBounds, [Next]_vars PROVE SilenceBounds'
  OBVIOUS
<1> USE TimesAssumption DEF TypeOK, SilenceBounds, Sending, Goto,
                            clientVars, helperVars, timeVars, loopVars
<1>1. CASE HeartbeatTick
  BY <1>1 DEF HeartbeatTick, Fail, Continue
<1>2. CASE ReadHeader
  BY <1>2 DEF ReadHeader, CanRead
<1>3. CASE ReadFrame
  BY <1>3 DEF ReadFrame, CanRead, StartFrame
<1>4. CASE ReadOther \/ HelperGone
  BY <1>4 DEF ReadOther, CanRead, HelperGone, Break, Fail
<1>5. CASE FrameSent \/ TextSent
  BY <1>5 DEF FrameSent, TextSent, Continue
<1>6. CASE SendFails \/ InputWritten \/ StopWritten \/ Teardown
  BY <1>6 DEF SendFails, Break, InputWritten, StopWritten, Teardown, Fail, Continue
<1>7. CASE Heartbeat \/ Input \/ Close
  <2>1. CASE Heartbeat
    BY <2>1 DEF Heartbeat, TakesMessage, Heard, Continue
  <2>2. CASE Input
    BY <2>2 DEF Input, TakesMessage, Heard
  <2>3. CASE Close
    BY <2>3 DEF Close, TakesMessage, Break
  <2>4. QED BY <1>7, <2>1, <2>2, <2>3
<1>8. CASE FrameAck
  BY <1>8 DEF FrameAck, TakesMessage, Heard, StartFrame
<1>9. CASE WriteHeader \/ WriteBody \/ HelperHangs \/ HelperExits
  <2>1. UNCHANGED <<gate, timeVars>>
    BY <1>9, Zenon DEF WriteHeader, WriteBody, HelperHangs, HelperExits
  <2>2. QED BY <2>1
<1>10. CASE ClientActs \/ ClientShows \/ ClientLeaves
  <2>1. UNCHANGED <<gate, timeVars>>
    BY <1>10, Zenon DEF ClientActs, ClientShows, ClientLeaves
  <2>2. QED BY <2>1
<1>11. CASE Tick
  <2>1. gate' = gate /\ quiet' = quiet + 1
        /\ blocked' = (IF gate \in Writes THEN blocked + 1 ELSE blocked)
        /\ age' = (IF gate \in Writes \cup {"select"} THEN 0 ELSE age + 1)
        /\ phase' = (IF phase + 1 = Interval THEN 0 ELSE phase + 1)
    BY <1>11 DEF Tick
  <2>2. due' <=> due \/ phase + 1 = Interval
    BY <1>11 DEF Tick
  <2> USE DEF Writes
  <2>3. CASE gate = "select"
    <3>1. ~due
      BY <1>11, <2>3 DEF Tick
    <3>2. QED BY <2>1, <2>2, <2>3, <3>1
  <2>4. CASE gate \in {"sendFrame", "sendText"}
    <3>1. age < SendTimeout
      BY <1>11, <2>4 DEF Tick
    <3>2. QED BY <2>1, <2>2, <2>4, <3>1
  <2>5. CASE gate = "closing"
    <3>1. age < TeardownTimeout
      BY <1>11, <2>5 DEF Tick
    <3>2. QED BY <2>1, <2>5, <3>1
  <2>6. CASE gate = "ended"
    BY <1>11, <2>6 DEF Tick
  <2>7. CASE gate \in Writes
    BY <2>1, <2>7
  <2>8. QED BY <2>3, <2>4, <2>5, <2>6, <2>7
<1>12. CASE UNCHANGED vars
  BY <1>12 DEF vars
<1>13. QED
  BY <1>1, <1>2, <1>3, <1>4, <1>5, <1>6, <1>7, <1>8, <1>9, <1>10, <1>11, <1>12
     DEF Next, LoopStep

\* For any timers, a viewer silent for Timeout plus one interval, one blocked send
\* and the teardown is gone, unless the task spent the rest of that time in writes
\* to a helper that did not read; those have no bound.
THEOREM FrameSilentReleased == Spec => []SilentReleased
<1>1. TypeOK /\ SilenceBounds => SilentReleased
  BY TimesAssumption DEF TypeOK, SilenceBounds, Sending, SilentReleased
<1>2. QED
  BY <1>1, TypesInit, TypesNext, SilenceInit, SilenceNext, PTL DEF Spec
-----------------------------------------------------------------------------
\* Elements of a sequence after an element is taken from it or added to it.
LEMMA TailElements ==
  ASSUME NEW S, NEW s \in Seq(S), s # <<>>
  PROVE  /\ 1 \in DOMAIN s
         /\ s[1] = Head(s)
         /\ \A i \in DOMAIN Tail(s) : i + 1 \in DOMAIN s /\ Tail(s)[i] = s[i + 1] /\ i \in Nat
         /\ \A j \in DOMAIN s : j = 1 \/ (j - 1 \in DOMAIN Tail(s) /\ s[j] = Tail(s)[j - 1])
  OBVIOUS

LEMMA AppendElements ==
  ASSUME NEW S, NEW s \in Seq(S), NEW x \in S
  PROVE  /\ DOMAIN Append(s, x) = DOMAIN s \cup {Len(s) + 1}
         /\ Append(s, x)[Len(s) + 1] = x
         /\ Len(s) + 1 \notin DOMAIN s
         /\ \A i \in DOMAIN s : Append(s, x)[i] = s[i]
  OBVIOUS

LEMMA TailOfOne ==
  ASSUME NEW S, NEW s \in Seq(S), s # <<>>, Len(s) <= 1
  PROVE  Tail(s) = <<>>
<1>1. Len(s) \in Nat \ {0}
  BY EmptySeq, Zenon
<1>2. Tail(s) \in Seq(S) /\ Len(Tail(s)) = Len(s) - 1
  BY HeadTailProperties, Zenon
<1>3. Len(Tail(s)) = 0
  BY <1>1, <1>2
<1>4. Tail(s) # <<>> => Len(Tail(s)) \in Nat \ {0}
  BY <1>2, EmptySeq, Zenon
<1>5. QED
  BY <1>3, <1>4

Messages == {"heartbeat", "frame_ack", "input", "close"}

\* Another message than an acknowledgement, sent or taken, changes nothing.
LEMMA OtherMessage ==
  ASSUME TypeOK, OneUnacknowledged, UNCHANGED <<wire, inFlight>>,
         NEW m \in Messages \ {"frame_ack"},
         \/ toGate' = Append(toGate, m)
         \/ toGate # <<>> /\ Head(toGate) = m /\ toGate' = Tail(toGate)
  PROVE  OneUnacknowledged'
<1> USE DEF OneUnacknowledged, AckAt, Messages
<1>0. toGate \in Seq(Messages)
  BY DEF TypeOK
<1>1. CASE toGate' = Append(toGate, m)
  <2>1. /\ DOMAIN toGate' = DOMAIN toGate \cup {Len(toGate) + 1}
        /\ toGate'[Len(toGate) + 1] = m
        /\ \A i \in DOMAIN toGate : toGate'[i] = toGate[i]
    BY <1>0, <1>1, AppendElements
  <2>2. \A i \in DOMAIN toGate' : AckAt(i)' => i \in DOMAIN toGate /\ AckAt(i)
    BY <2>1
  <2>3. \A i \in DOMAIN toGate : AckAt(i) => i \in DOMAIN toGate' /\ AckAt(i)'
    BY <2>1
  <2>4. QED BY <2>2, <2>3
<1>2. CASE toGate # <<>> /\ Head(toGate) = m /\ toGate' = Tail(toGate)
  <2>1. /\ toGate[1] = m
        /\ \A i \in DOMAIN toGate' : i + 1 \in DOMAIN toGate /\ toGate'[i] = toGate[i + 1] /\ i \in Nat
        /\ \A j \in DOMAIN toGate : j = 1 \/ (j - 1 \in DOMAIN toGate' /\ toGate[j] = toGate'[j - 1])
    BY <1>0, <1>2, TailElements
  <2>2. \A i \in DOMAIN toGate' : AckAt(i)' => AckAt(i + 1) /\ i \in Nat
    BY <2>1
  <2>3. \A j \in DOMAIN toGate : AckAt(j) => AckAt(j - 1)'
    BY <2>1
  <2>4. \A i, j \in DOMAIN toGate' : AckAt(i)' /\ AckAt(j)' => i = j
    <3> TAKE i, j \in DOMAIN toGate'
    <3> HAVE AckAt(i)' /\ AckAt(j)'
    <3>1. i + 1 = j + 1
      BY <2>1, <2>2
    <3>2. QED BY <3>1, <2>1
  <2>5. (\E i \in DOMAIN toGate : AckAt(i)) <=> (\E i \in DOMAIN toGate' : AckAt(i)')
    BY <2>1, <2>2, <2>3
  <2>6. QED BY <2>4, <2>5
<1>3. QED
  BY <1>1, <1>2

\* Taking the acknowledgement leaves nothing unacknowledged.
LEMMA TakenAck ==
  ASSUME TypeOK, OneUnacknowledged, UNCHANGED wire, inFlight' = FALSE,
         toGate # <<>>, Head(toGate) = "frame_ack", toGate' = Tail(toGate)
  PROVE  inFlight /\ OneUnacknowledged'
<1> USE DEF OneUnacknowledged, AckAt
<1>0. toGate \in Seq(Messages)
  BY DEF TypeOK, Messages
<1>1. /\ 1 \in DOMAIN toGate
      /\ toGate[1] = "frame_ack"
      /\ \A i \in DOMAIN toGate' : i + 1 \in DOMAIN toGate /\ toGate'[i] = toGate[i + 1] /\ i \in Nat
      /\ \A i \in DOMAIN toGate' : i # 0
  BY <1>0, TailElements
<1>2. AckAt(1)
  BY <1>1
<1>3. inFlight /\ wire = <<>>
  BY <1>1, <1>2
<1>4. \A i \in DOMAIN toGate' : ~AckAt(i)'
  <2> SUFFICES ASSUME NEW i \in DOMAIN toGate', AckAt(i)' PROVE FALSE
    OBVIOUS
  <2>1. AckAt(i + 1) /\ i + 1 # 1
    BY <1>1
  <2>2. QED BY <2>1, <1>1, <1>2
<1>5. QED
  BY <1>3, <1>4

\* Showing the frame on the way turns it into an acknowledgement.
LEMMA ShownFrame ==
  ASSUME TypeOK, OneUnacknowledged, UNCHANGED inFlight, wire # <<>>,
         wire' = Tail(wire), toGate' = Append(toGate, "frame_ack")
  PROVE  OneUnacknowledged'
<1> USE DEF OneUnacknowledged, AckAt
<1>0. toGate \in Seq(Messages) /\ wire \in Seq(Nat)
  BY DEF TypeOK, Messages
<1>1. wire' = <<>> /\ Len(wire') = 0
  <2>1. Len(wire) <= 1
    OBVIOUS
  <2>2. Tail(wire) = <<>>
    BY <1>0, <2>1, TailOfOne
  <2>3. QED BY <2>2
<1>2. /\ DOMAIN toGate' = DOMAIN toGate \cup {Len(toGate) + 1}
      /\ toGate'[Len(toGate) + 1] = "frame_ack"
      /\ \A i \in DOMAIN toGate : toGate'[i] = toGate[i]
  BY <1>0, AppendElements DEF Messages
<1>3. \A i \in DOMAIN toGate' : AckAt(i)' => i = Len(toGate) + 1
  BY <1>2
<1>4. inFlight' /\ \E i \in DOMAIN toGate' : AckAt(i)'
  <2>1. inFlight
    OBVIOUS
  <2>2. inFlight'
    BY <2>1
  <2>3. PICK i : i = Len(toGate) + 1
    OBVIOUS
  <2>4. AckAt(i)'
    BY <1>2, <2>3
  <2>5. QED BY <2>2, <2>4
<1>5. QED
  BY <1>1, <1>2, <1>3, <1>4

OneUnackInv == TypeOK /\ FramesInv /\ OneUnacknowledged

LEMMA OneUnackInit == Init => OneUnacknowledged
  BY DEF Init, OneUnacknowledged, AckAt

\* The sent frame is the only one on its way: the gate sends when none is.
LEMMA SentFrame ==
  ASSUME OneUnackInv, FrameSent
  PROVE  OneUnacknowledged'
<1> USE DEF OneUnackInv, FramesInv, SendsNewest
<1>1. ~inFlight /\ inFlight' /\ toGate' = toGate /\ wire' = Append(wire, out)
  BY DEF FrameSent, clientVars
<1>2. wire = <<>> /\ \A i \in DOMAIN toGate : ~AckAt(i)
  BY <1>1 DEF OneUnacknowledged
<1>3. wire' = <<out>>
  BY <1>1, <1>2
<1>4. \A i \in DOMAIN toGate' : ~AckAt(i)'
  BY <1>1, <1>2 DEF AckAt
<1>5. QED
  BY <1>1, <1>3, <1>4 DEF OneUnacknowledged

LEMMA OneUnackNext == OneUnackInv /\ [Next]_vars => OneUnacknowledged'
<1> SUFFICES ASSUME OneUnackInv, [Next]_vars PROVE OneUnacknowledged'
  OBVIOUS
<1> USE DEF OneUnackInv
<1>same. ASSUME UNCHANGED <<inFlight, wire, toGate>> PROVE OneUnacknowledged'
  BY <1>same DEF OneUnacknowledged, AckAt
<1>other. \A m \in Messages \ {"frame_ack"} :
            /\ UNCHANGED <<wire, inFlight>>
            /\ \/ toGate' = Append(toGate, m)
               \/ toGate # <<>> /\ Head(toGate) = m /\ toGate' = Tail(toGate)
            => OneUnacknowledged'
  BY OtherMessage
<1>1. CASE HeartbeatTick \/ ReadHeader \/ ReadFrame \/ ReadOther \/ HelperGone
  <2>1. UNCHANGED <<inFlight, wire, toGate>>
    BY <1>1, Zenon DEF HeartbeatTick, ReadHeader, ReadFrame, ReadOther, HelperGone, clientVars
  <2>2. QED BY <2>1, <1>same
<1>2. CASE FrameSent
  BY <1>2, SentFrame
<1>3. CASE TextSent \/ SendFails \/ InputWritten \/ StopWritten \/ Teardown
  <2>1. UNCHANGED <<inFlight, wire, toGate>>
    BY <1>3, Zenon DEF TextSent, SendFails, InputWritten, StopWritten, Teardown, clientVars
  <2>2. QED BY <2>1, <1>same
<1>4. CASE Heartbeat
  <2>1. /\ UNCHANGED <<wire, inFlight>>
        /\ toGate # <<>> /\ Head(toGate) = "heartbeat" /\ toGate' = Tail(toGate)
    BY <1>4, Zenon DEF Heartbeat, TakesMessage
  <2>2. QED BY <2>1, <1>other DEF Messages
<1>5. CASE Input
  <2>1. /\ UNCHANGED <<wire, inFlight>>
        /\ toGate # <<>> /\ Head(toGate) = "input" /\ toGate' = Tail(toGate)
    BY <1>5, Zenon DEF Input, TakesMessage
  <2>2. QED BY <2>1, <1>other DEF Messages
<1>6. CASE Close
  <2>1. /\ UNCHANGED <<wire, inFlight>>
        /\ toGate # <<>> /\ Head(toGate) = "close" /\ toGate' = Tail(toGate)
    BY <1>6, Zenon DEF Close, TakesMessage
  <2>2. QED BY <2>1, <1>other DEF Messages
<1>7. CASE FrameAck
  <2>1. /\ wire' = wire /\ inFlight' = FALSE
        /\ toGate # <<>> /\ Head(toGate) = "frame_ack" /\ toGate' = Tail(toGate)
    BY <1>7, Zenon DEF FrameAck, TakesMessage
  <2>2. QED BY <2>1, TakenAck
<1>8. CASE WriteHeader \/ WriteBody \/ HelperHangs \/ HelperExits \/ Tick
  <2>1. UNCHANGED <<inFlight, wire, toGate>>
    BY <1>8, Zenon DEF WriteHeader, WriteBody, HelperHangs, HelperExits, Tick, loopVars, clientVars
  <2>2. QED BY <2>1, <1>same
<1>9. CASE ClientActs
  <2>1. /\ UNCHANGED <<wire, inFlight>>
        /\ toGate' = Append(toGate, "heartbeat") \/ toGate' = Append(toGate, "input")
    BY <1>9, Zenon DEF ClientActs, Says, loopVars
  <2>2. QED BY <2>1, <1>other DEF Messages
<1>10. CASE ClientShows
  <2>1. /\ inFlight' = inFlight
        /\ wire # <<>> /\ wire' = Tail(wire) /\ toGate' = Append(toGate, "frame_ack")
    BY <1>10, Zenon DEF ClientShows, Says, loopVars
  <2>2. QED BY <2>1, ShownFrame
<1>11. CASE ClientLeaves
  <2>1. /\ UNCHANGED <<wire, inFlight>>
        /\ toGate' = Append(toGate, "close") \/ toGate' = toGate
    BY <1>11, Zenon DEF ClientLeaves, Says, loopVars
  <2>2. CASE toGate' = Append(toGate, "close")
    BY <2>1, <2>2, <1>other DEF Messages
  <2>3. CASE toGate' = toGate
    BY <2>1, <2>3, <1>same
  <2>4. QED BY <2>1, <2>2, <2>3
<1>12. CASE UNCHANGED vars
  <2>1. UNCHANGED <<inFlight, wire, toGate>>
    BY <1>12, Zenon DEF vars, loopVars, clientVars
  <2>2. QED BY <2>1, <1>same
<1>13. QED
  BY <1>1, <1>2, <1>3, <1>4, <1>5, <1>6, <1>7, <1>8, <1>9, <1>10, <1>11, <1>12
     DEF Next, LoopStep

LEMMA OneUnackAlways == Spec => []OneUnackInv
<1>1. Init => OneUnackInv
  BY TypesInit, FramesInit, OneUnackInit DEF OneUnackInv
<1>2. OneUnackInv /\ [Next]_vars => OneUnackInv'
  BY TypesNext, FramesNext, OneUnackNext DEF OneUnackInv
<1>3. QED
  BY <1>1, <1>2, PTL DEF Spec

\* At most one frame is unacknowledged, for any helper, client and timers.
THEOREM FrameOneUnacknowledged == Spec => []OneUnacknowledged
<1>1. OneUnackInv => OneUnacknowledged
  BY DEF OneUnackInv
<1>2. QED
  BY <1>1, OneUnackAlways, PTL
-----------------------------------------------------------------------------
LEMMA ChannelStep ==
  ASSUME OneUnackInv, [Next]_vars
  PROVE  [Channel!Next]_Channel!vars
<1> USE DEF Channel!vars, OneUnackInv, FramesInv
<1>same. ASSUME UNCHANGED <<newest, taken, inFlight>> PROVE UNCHANGED Channel!vars
  BY <1>same
<1>1. CASE HeartbeatTick \/ ReadHeader \/ ReadOther \/ HelperGone
  BY <1>1, <1>same, Zenon DEF HeartbeatTick, ReadHeader, ReadOther, HelperGone
<1>2. CASE ReadFrame
  <2>1. newest' = newest + 1 /\ taken' = taken /\ inFlight' = inFlight
    BY <1>2, Zenon DEF ReadFrame
  <2>2. QED BY <2>1 DEF Channel!Next, Channel!Publish
<1>3. CASE FrameSent
  <2>1. ~inFlight /\ taken < newest /\ out = newest
    BY <1>3 DEF FrameSent, SendsNewest
  <2>2. taken' = out /\ newest' = newest /\ inFlight' = TRUE
    BY <1>3, Zenon DEF FrameSent
  <2>3. QED BY <2>1, <2>2 DEF Channel!Next, Channel!Take
<1>4. CASE \/ TextSent \/ SendFails \/ InputWritten \/ StopWritten \/ Teardown
            \/ Heartbeat \/ Input \/ Close
  BY <1>4, <1>same, Zenon
     DEF TextSent, SendFails, InputWritten, StopWritten, Teardown, Heartbeat, Input, Close
<1>5. CASE FrameAck
  <2>1. /\ wire' = wire /\ inFlight' = FALSE
        /\ toGate # <<>> /\ Head(toGate) = "frame_ack" /\ toGate' = Tail(toGate)
    BY <1>5, Zenon DEF FrameAck, TakesMessage
  <2>2. inFlight
    BY <2>1, TakenAck
  <2>3. newest' = newest /\ taken' = taken
    BY <1>5, Zenon DEF FrameAck
  <2>4. QED BY <2>1, <2>2, <2>3 DEF Channel!Next, Channel!Acknowledge
<1>6. CASE WriteHeader \/ WriteBody \/ HelperHangs \/ HelperExits \/ Tick
  BY <1>6, <1>same, Zenon DEF WriteHeader, WriteBody, HelperHangs, HelperExits, Tick, loopVars
<1>7. CASE ClientActs \/ ClientShows \/ ClientLeaves
  BY <1>7, <1>same, Zenon DEF ClientActs, ClientShows, ClientLeaves, loopVars
<1>8. CASE UNCHANGED vars
  BY <1>8, <1>same, Zenon DEF vars, loopVars
<1>9. QED
  BY <1>1, <1>2, <1>3, <1>4, <1>5, <1>6, <1>7, <1>8 DEF Next, LoopStep

\* The gate hands frames over as the conflating channel of the docs: each
\* hand-over takes the newest frame, none is handed over while one is busy.
THEOREM FrameImplementsChannel == Spec => ImplementsChannel
<1>1. Init => Channel!Init
  BY DEF Init, Channel!Init
<1>2. OneUnackInv /\ [Next]_vars => [Channel!Next]_Channel!vars
  BY ChannelStep
<1>3. QED
  BY <1>1, <1>2, OneUnackAlways, PTL DEF Spec, Channel!Spec, ImplementsChannel
=============================================================================
