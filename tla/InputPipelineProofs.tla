------------------------- MODULE InputPipelineProofs -------------------------
(***************************************************************************)
(* Proofs about InputPipeline, for any setups, any number of buttons and   *)
(* any sizes.                                                              *)
(***************************************************************************)
EXTENDS InputPipeline, TLAPS

-----------------------------------------------------------------------------
(* Sequences of events in order.                                           *)

Elems(s) == {s[i] : i \in DOMAIN s}

\* Events are in the order in which they were sent.
Ordered(s) == \A i, j \in DOMAIN s : i < j => s[i].no < s[j].no

\* The events of A were sent before those of B.
Before(A, B) == \A e \in A, f \in B : e.no < f.no

LEMMA TakeHead ==
  ASSUME NEW S, NEW s \in Seq(S), s # <<>>
  PROVE  /\ Head(s) \in S /\ Tail(s) \in Seq(S) /\ Len(Tail(s)) = Len(s) - 1 /\ Len(s) \in Nat
         /\ Elems(s) = {Head(s)} \cup Elems(Tail(s))
<1>1. Head(s) \in S /\ Tail(s) \in Seq(S) /\ Len(Tail(s)) = Len(s) - 1 /\ Len(s) \in Nat
      /\ Len(s) > 0
  OBVIOUS
<1>2. \A i \in DOMAIN Tail(s) : Tail(s)[i] = s[i + 1] /\ i + 1 \in DOMAIN s
  OBVIOUS
<1>3. \A i \in DOMAIN s : i # 1 => s[i] = Tail(s)[i - 1] /\ i - 1 \in DOMAIN Tail(s)
  OBVIOUS
<1>4. Head(s) = s[1] /\ 1 \in DOMAIN s
  BY <1>1
<1>5. Elems(s) \subseteq {Head(s)} \cup Elems(Tail(s))
  BY <1>3, <1>4 DEF Elems
<1>6. {Head(s)} \cup Elems(Tail(s)) \subseteq Elems(s)
  BY <1>2, <1>4 DEF Elems
<1>7. QED BY <1>1, <1>5, <1>6

LEMMA TakeHeadOrdered ==
  ASSUME NEW S, NEW s \in Seq(S), s # <<>>, Ordered(s), \A e \in S : e.no \in Int
  PROVE  Ordered(Tail(s)) /\ Before({Head(s)}, Elems(Tail(s)))
<1>1. \A i \in DOMAIN Tail(s) : Tail(s)[i] = s[i + 1] /\ i + 1 \in DOMAIN s /\ 1 < i + 1 /\ i \in Int
  OBVIOUS
<1>2. Head(s) = s[1] /\ 1 \in DOMAIN s
  OBVIOUS
<1>3. Ordered(Tail(s))
  BY <1>1 DEF Ordered
<1>4. \A i \in DOMAIN Tail(s) : Head(s).no < Tail(s)[i].no
  BY <1>1, <1>2 DEF Ordered
<1>5. QED BY <1>3, <1>4 DEF Before, Elems

LEMMA AppendOne ==
  ASSUME NEW S, NEW s \in Seq(S), NEW e \in S
  PROVE  /\ Append(s, e) \in Seq(S) /\ Len(Append(s, e)) = Len(s) + 1 /\ Len(s) \in Nat
         /\ Append(s, e) # <<>>
         /\ Elems(Append(s, e)) = Elems(s) \cup {e}
         /\ Ordered(s) /\ Before(Elems(s), {e}) => Ordered(Append(s, e))
<1> DEFINE t == Append(s, e)
<1>1. t \in Seq(S) /\ Len(t) = Len(s) + 1 /\ Len(s) \in Nat
  OBVIOUS
<1>2. \A i \in DOMAIN s : t[i] = s[i] /\ i \in DOMAIN t /\ i # Len(s) + 1
  OBVIOUS
<1>3. t[Len(s) + 1] = e /\ Len(s) + 1 \in DOMAIN t
  OBVIOUS
<1>4. \A i \in DOMAIN t : i \in Int /\ ((i \in DOMAIN s /\ i < Len(s) + 1) \/ i = Len(s) + 1)
  OBVIOUS
<1> HIDE DEF t
<1>5. Elems(t) = Elems(s) \cup {e}
  <2>1. Elems(t) \subseteq Elems(s) \cup {e}
    BY <1>2, <1>3, <1>4 DEF Elems
  <2>2. Elems(s) \cup {e} \subseteq Elems(t)
    BY <1>2, <1>3 DEF Elems
  <2>3. QED BY <2>1, <2>2
<1>6. ASSUME Ordered(s), Before(Elems(s), {e}) PROVE Ordered(t)
  <2> SUFFICES ASSUME NEW i \in DOMAIN t, NEW j \in DOMAIN t, i < j PROVE t[i].no < t[j].no
    BY DEF Ordered
  <2>1. i \in DOMAIN s /\ t[i] = s[i]
    BY <1>1, <1>2, <1>4
  <2>2. CASE j \in DOMAIN s
    BY <1>2, <1>6, <2>1, <2>2 DEF Ordered
  <2>3. CASE j = Len(s) + 1
    BY <1>3, <1>6, <2>1, <2>3 DEF Before, Elems
  <2>4. QED BY <1>4, <2>2, <2>3
<1>7. t # <<>>
  BY <1>1
<1>8. QED BY <1>1, <1>5, <1>6, <1>7 DEF t

LEMMA EmptyHasNone == Elems(<<>>) = {} /\ Ordered(<<>>) /\ \A S : <<>> \in Seq(S)
  BY DEF Elems, Ordered
-----------------------------------------------------------------------------
(* The invariant.                                                          *)

\* An event carries what its kind needs.
Events ==
  {e \in EventSet :
     /\ e.kind # "none"
     /\ e.kind \in Moves => e.arg \in Int
     /\ e.kind \in {"pressed", "released"} => e.arg \in Buttons
     /\ e.kind = "text" => e.arg \in 1..TextChunk}

\* Events sent and not yet taken for good by the input thread.
Pending == Elems(queue) \cup Elems(net) \cup ({deferred} \ {NoEvent})

\* They are in line: the deferred event, then the queue, then those under way.
Line ==
  /\ queue \in Seq(Events) /\ net \in Seq(Events) /\ deferred \in Events \cup {NoEvent}
  /\ Ordered(queue) /\ Ordered(net) /\ Before(Elems(queue), Elems(net))
  /\ deferred # NoEvent => Before({deferred}, Elems(queue) \cup Elems(net))

\* The callback is about the first event under way, and has made room for it.
Callback ==
  /\ Len(queue) <= Capacity
  /\ put # "idle" => lost /\ net # <<>>
  /\ put = "reput" => Len(queue) < Capacity
  /\ pc \in {"moves", "text"} => deferred = NoEvent

\* The numbers of events: injected, joined, pending, sent.
Numbers ==
  /\ last <= hand /\ hand <= sent
  /\ pc \in {"moves", "flush", "text", "type"} => last < hand
  /\ \A e \in Pending : hand < e.no /\ e.no <= sent

\* Where the thread has nothing in hand.
Idle == {"start", "get", "closed", "failed"}

\* Before each press with the pointer free is the movement to where it was
\* aimed: on its way, joined, or carried out.
Aimed ==
  ~lost =>
    \A e \in Pending :
      e.kind = "pressed" /\ ~e.locked =>
        \/ \E f \in Pending : f.kind = "pointer_move" /\ f.arg = e.aim /\ f.no = e.no - 1
        \/ hand = e.no - 1 /\ pc \in {"moves", "flush"} /\ want = e.aim
        \/ hand = e.no - 1 /\ pc \in Idle /\ (failed \/ cursor = e.aim)

\* Pending events about the button b.
About(b) ==
  {e \in Pending :
     e.kind = "release_control" \/ (e.kind \in {"pressed", "released"} /\ e.arg = b)}

Wanted == IF closed THEN {} ELSE held

\* euthergate-pointer is started with the controller.
Unbuilt == pc = "start" => pointer = "gone"

\* The last event about a button leaves it as the client has it.
Settles ==
  setup.backend = "sway" /\ bridge = "up" /\ (pointer # "gone" \/ pc = "start") /\ ~lost /\ ~failed =>
    /\ pressed = down
    /\ \A b \in Buttons :
         /\ About(b) = {} => (b \in down <=> b \in Wanted)
         /\ \A e \in About(b) :
              (\A f \in About(b) : f.no <= e.no) => (e.kind = "pressed" <=> b \in Wanted)

\* What has been taken from the queue is typed or in the batch.
Typing ==
  /\ pc \in {"text", "type"} => batch <= TextLimit
  /\ ~failed => drawn = typed + (IF pc \in {"text", "type"} THEN batch ELSE 0)
-----------------------------------------------------------------------------
(* What a step does to the line of events.                                 *)

LEMMA EventsNumbered ==
  /\ \A e \in Events : e.no \in Nat /\ e.kind # "none" /\ e # NoEvent
  /\ NoEvent \notin Events
  BY DEF Events, EventSet, NoEvent

LEMMA PendingAreEvents ==
  ASSUME Line
  PROVE  Pending \subseteq Events
<1>1. Elems(queue) \subseteq Events /\ Elems(net) \subseteq Events
  BY DEF Line, Elems
<1>2. QED BY <1>1 DEF Line, Pending

\* Events are sent after all the others.
LEMMA SendsIs ==
  ASSUME Line, NEW E, net' \in Seq(Events), Ordered(net'), Elems(net') = Elems(net) \cup E,
         Before(Pending, E), UNCHANGED <<queue, deferred>>
  PROVE  Line' /\ Pending' = Pending \cup E
<1>1. Pending' = Pending \cup E
  BY DEF Pending
<1>2. Before(Elems(queue), Elems(net'))
  BY DEF Line, Before, Pending
<1>3. deferred # NoEvent => Before({deferred}, Elems(queue) \cup Elems(net'))
  BY DEF Line, Before, Pending
<1>4. QED BY <1>1, <1>2, <1>3 DEF Line

LEMMA SendsOneIs ==
  ASSUME TypeOK, Line, Numbers, NEW e \in Events, e.no = sent + 1, Sends(<<e>>)
  PROVE  /\ Line' /\ Pending' = Pending \cup {e} /\ sent' = sent + 1 /\ net' # <<>>
<1>1. net' = Append(net, e) /\ sent' = sent + 1 /\ UNCHANGED <<queue, deferred>>
  BY DEF Sends, Line, threadVars
<1>2. Before(Pending, {e})
  BY PendingAreEvents, EventsNumbered DEF Before, Numbers, TypeOK
<1>3. Before(Elems(net), {e})
  BY <1>2 DEF Before, Pending
<1>4. /\ net' \in Seq(Events) /\ Ordered(net') /\ Elems(net') = Elems(net) \cup {e} /\ net' # <<>>
  BY <1>1, <1>3, AppendOne DEF Line
<1>5. QED BY <1>1, <1>2, <1>4, SendsIs

LEMMA SendsTwoIs ==
  ASSUME TypeOK, Line, Numbers, NEW e \in Events, NEW f \in Events, e.no = sent + 1, f.no = sent + 2,
         Sends(<<e, f>>)
  PROVE  /\ Line' /\ Pending' = Pending \cup {e, f} /\ sent' = sent + 2 /\ net' # <<>>
<1>0. PICK one : one = Append(net, e)
  OBVIOUS
<1>1. net' = Append(one, f) /\ sent' = sent + 2 /\ UNCHANGED <<queue, deferred>>
  BY <1>0 DEF Sends, Line, threadVars
<1>2. Before(Pending, {e, f})
  BY PendingAreEvents, EventsNumbered DEF Before, Numbers, TypeOK
<1>3. Before(Elems(net), {e}) /\ Before(Elems(net) \cup {e}, {f})
  BY <1>2, EventsNumbered DEF Before, Pending, TypeOK
<1>4. /\ one \in Seq(Events) /\ Ordered(one) /\ Elems(one) = Elems(net) \cup {e}
  BY <1>0, <1>3, AppendOne DEF Line
<1>5. Before(Elems(one), {f})
  BY <1>3, <1>4
<1>6. /\ net' \in Seq(Events) /\ Ordered(net') /\ Elems(net') = Elems(one) \cup {f} /\ net' # <<>>
  <2>1. f \in Events
    OBVIOUS
  <2>2. Append(one, f) \in Seq(Events) /\ Ordered(Append(one, f)) /\ Append(one, f) # <<>>
        /\ Elems(Append(one, f)) = Elems(one) \cup {f}
    <3>1. one \in Seq(Events) /\ Ordered(one) /\ Before(Elems(one), {f})
      BY <1>4, <1>5
    <3> QED BY ONLY <3>1, <2>1, AppendOne
  <2>3. QED BY <1>1, <2>2
<1>7. Elems(net') = Elems(net) \cup {e, f}
  BY <1>4, <1>6
<1>8. QED BY <1>1, <1>2, <1>6, <1>7, SendsIs

\* The callback moves the first event under way to the end of the queue.
LEMMA PutIs ==
  ASSUME Line, net # <<>>, queue' = Append(queue, Head(net)), net' = Tail(net), UNCHANGED deferred
  PROVE  Line' /\ Pending' = Pending /\ Len(queue') = Len(queue) + 1
<1> DEFINE h == Head(net)
<1>1. /\ h \in Events /\ net' \in Seq(Events) /\ Elems(net) = {h} \cup Elems(net')
  BY TakeHead DEF Line
<1>2. Ordered(net') /\ Before({h}, Elems(net'))
  BY TakeHeadOrdered, EventsNumbered DEF Line
<1>3. Before(Elems(queue), {h})
  BY <1>1 DEF Line, Before
<1> HIDE DEF h
<1>4. /\ queue' \in Seq(Events) /\ Len(queue') = Len(queue) + 1 /\ Ordered(queue')
      /\ Elems(queue') = Elems(queue) \cup {h}
  BY <1>1, <1>3, AppendOne DEF Line, h
<1>5. Before(Elems(queue'), Elems(net'))
  BY <1>1, <1>2, <1>4 DEF Line, Before
<1>6. Elems(queue') \cup Elems(net') = Elems(queue) \cup Elems(net)
  BY <1>1, <1>4
<1>7. Line'
  BY <1>1, <1>2, <1>4, <1>5, <1>6 DEF Line
<1>8. Pending' = Pending
  BY <1>6 DEF Pending
<1>9. QED BY <1>4, <1>7, <1>8

\* The oldest event of the queue, or the first under way, is dropped.
LEMMA DropIs ==
  ASSUME Line, \/ net # <<>> /\ net' = Tail(net) /\ UNCHANGED <<queue, deferred>>
               \/ queue # <<>> /\ queue' = Tail(queue) /\ UNCHANGED <<net, deferred>>
  PROVE  Line' /\ Pending' \subseteq Pending
<1>1. /\ queue' \in Seq(Events) /\ net' \in Seq(Events) /\ Ordered(queue') /\ Ordered(net')
      /\ Elems(queue') \subseteq Elems(queue) /\ Elems(net') \subseteq Elems(net) /\ UNCHANGED deferred
  <2>1. CASE net # <<>> /\ net' = Tail(net) /\ UNCHANGED <<queue, deferred>>
    <3>1. net \in Seq(Events) /\ Ordered(net) /\ net # <<>> /\ \A f \in Events : f.no \in Int
      BY <2>1, EventsNumbered DEF Line
    <3>2. /\ Tail(net) \in Seq(Events) /\ Ordered(Tail(net))
          /\ Elems(net) = {Head(net)} \cup Elems(Tail(net))
      BY ONLY <3>1, TakeHead, TakeHeadOrdered
    <3>3. QED BY <2>1, <3>2 DEF Line
  <2>2. CASE queue # <<>> /\ queue' = Tail(queue) /\ UNCHANGED <<net, deferred>>
    <3>1. queue \in Seq(Events) /\ Ordered(queue) /\ queue # <<>> /\ \A f \in Events : f.no \in Int
      BY <2>2, EventsNumbered DEF Line
    <3>2. /\ Tail(queue) \in Seq(Events) /\ Ordered(Tail(queue))
          /\ Elems(queue) = {Head(queue)} \cup Elems(Tail(queue))
      BY ONLY <3>1, TakeHead, TakeHeadOrdered
    <3>3. QED BY <2>2, <3>2 DEF Line
  <2>3. QED BY <2>1, <2>2
<1>2. Before(Elems(queue'), Elems(net'))
  BY <1>1 DEF Line, Before
<1>3. deferred # NoEvent => Before({deferred}, Elems(queue') \cup Elems(net'))
  BY <1>1 DEF Line, Before
<1>4. Line'
  BY <1>1, <1>2, <1>3 DEF Line
<1>5. QED BY <1>1, <1>4 DEF Pending

\* The release that the closing channel puts in the queue is the last event.
LEMMA ReleaseIs ==
  ASSUME Line, net = <<>>, NEW e \in Events, queue' = Append(queue, e), Before(Pending, {e}),
         UNCHANGED <<net, deferred>>
  PROVE  Line' /\ Pending' = Pending \cup {e}
<1>1. Before(Elems(queue), {e})
  BY DEF Before, Pending
<1>2. /\ queue' \in Seq(Events) /\ Ordered(queue') /\ Elems(queue') = Elems(queue) \cup {e}
  BY <1>1, AppendOne DEF Line
<1>3. Elems(net') = {}
  BY EmptyHasNone
<1>4. Before(Elems(queue'), Elems(net'))
  BY <1>3 DEF Before
<1>5. deferred # NoEvent => Before({deferred}, Elems(queue') \cup Elems(net'))
  BY <1>2, <1>3 DEF Line, Before, Pending
<1>6. Line'
  BY <1>2, <1>4, <1>5 DEF Line
<1>7. QED BY <1>2, <1>6 DEF Pending

\* The input thread starts with the event that was sent first.
LEMMA StartsIs ==
  ASSUME Line, NEW e, Starts(e), UNCHANGED net
  PROVE  /\ Line' /\ e \in Pending /\ e \in Events /\ Before({e}, Pending \ {e})
         /\ Pending' = Pending \ {e} /\ deferred' = NoEvent
         /\ queue' = queue \/ (queue # <<>> /\ queue' = Tail(queue))
<1>1. CASE deferred # NoEvent /\ e = deferred /\ deferred' = NoEvent /\ UNCHANGED queue
  <2>1. Before({e}, Elems(queue) \cup Elems(net)) /\ e \in Events
    BY <1>1 DEF Line
  <2>2. e \notin Elems(queue) \cup Elems(net)
    BY <2>1, EventsNumbered DEF Before
  <2>3. Pending = {e} \cup Elems(queue) \cup Elems(net) /\ Pending' = Elems(queue) \cup Elems(net)
    BY <1>1 DEF Pending
  <2>4. Line'
    BY <1>1 DEF Line
  <2>5. QED BY <1>1, <2>1, <2>2, <2>3, <2>4 DEF Before
<1>2. CASE deferred = NoEvent /\ queue # <<>> /\ e = Head(queue) /\ queue' = Tail(queue)
           /\ UNCHANGED deferred
  <2>1. /\ e \in Events /\ queue' \in Seq(Events) /\ Elems(queue) = {e} \cup Elems(queue')
        /\ Ordered(queue') /\ Before({e}, Elems(queue'))
    <3>1. queue \in Seq(Events) /\ Ordered(queue) /\ queue # <<>> /\ \A f \in Events : f.no \in Int
      BY <1>2, EventsNumbered DEF Line
    <3>2. /\ Head(queue) \in Events /\ Tail(queue) \in Seq(Events)
          /\ Elems(queue) = {Head(queue)} \cup Elems(Tail(queue))
          /\ Ordered(Tail(queue)) /\ Before({Head(queue)}, Elems(Tail(queue)))
      BY ONLY <3>1, TakeHead, TakeHeadOrdered
    <3>3. QED BY <1>2, <3>2
  <2>2. Before({e}, Elems(net)) /\ Before(Elems(queue'), Elems(net))
    BY <2>1 DEF Line, Before
  <2>3. e \notin Elems(queue') \cup Elems(net)
    BY <2>1, <2>2, EventsNumbered DEF Before
  <2>4. Pending = {e} \cup Elems(queue') \cup Elems(net) /\ Pending' = Elems(queue') \cup Elems(net)
    BY <1>2, <2>1 DEF Pending
  <2>5. Line'
    BY <1>2, <2>1, <2>2 DEF Line
  <2>6. QED BY <1>2, <2>1, <2>2, <2>3, <2>4, <2>5 DEF Before
<1>3. QED BY <1>1, <1>2 DEF Starts

\* The input thread takes a further event: it joins it or puts it by.
LEMMA JoinIs ==
  ASSUME Line, deferred = NoEvent, queue # <<>>, queue' = Tail(queue), UNCHANGED net
  PROVE  /\ Head(queue) \in Pending /\ Head(queue) \in Events
         /\ Before({Head(queue)}, Pending \ {Head(queue)})
         /\ deferred' = NoEvent => Line' /\ Pending' = Pending \ {Head(queue)}
         /\ deferred' = Head(queue) => Line' /\ Pending' = Pending
<1> DEFINE h == Head(queue)
<1>1. /\ h \in Events /\ queue' \in Seq(Events) /\ Elems(queue) = {h} \cup Elems(queue')
      /\ Ordered(queue') /\ Before({h}, Elems(queue'))
  BY TakeHead, TakeHeadOrdered, EventsNumbered DEF Line
<1> HIDE DEF h
<1>2. Before({h}, Elems(net)) /\ Before(Elems(queue'), Elems(net))
  BY <1>1 DEF Line, Before
<1>3. h \notin Elems(queue') \cup Elems(net)
  BY <1>1, <1>2, EventsNumbered DEF Before
<1>4. Pending = {h} \cup Elems(queue') \cup Elems(net)
  BY <1>1 DEF Pending
<1>5. ASSUME deferred' = NoEvent PROVE Line' /\ Pending' = Pending \ {h}
  <2>1. Pending' = Elems(queue') \cup Elems(net)
    BY <1>5 DEF Pending
  <2>2. QED BY <1>1, <1>2, <1>3, <1>4, <1>5, <2>1 DEF Line
<1>6. ASSUME deferred' = h PROVE Line' /\ Pending' = Pending
  <2>1. Before({h}, Elems(queue') \cup Elems(net'))
    BY <1>1, <1>2 DEF Before
  <2>2. Pending' = Elems(queue') \cup Elems(net) \cup {h}
    BY <1>1, <1>6, EventsNumbered DEF Pending
  <2>3. QED BY <1>1, <1>2, <1>4, <1>6, <2>1, <2>2 DEF Line
<1>7. Before({h}, Pending \ {h})
  BY <1>1, <1>2, <1>4 DEF Before
<1>8. QED BY <1>1, <1>4, <1>5, <1>6, <1>7 DEF h
-----------------------------------------------------------------------------
(* What the client sends.                                                  *)

LEMMA MovePointerIs ==
  ASSUME TypeOK, MovePointer
  PROVE  /\ \E e \in Events : e.kind \in Moves /\ e.no = sent + 1 /\ Sends(<<e>>)
         /\ UNCHANGED held /\ aim' \in 0..(Extent - 1)
<1> USE SizeAssumption
<1>0. \A x \in Int : Clamp(x) \in 0..(Extent - 1)
  BY DEF Clamp
<1>1. CASE locked
  <2>1. PICK d \in {-1, 1} : aim' = Clamp(aim + d) /\ Sends(<<Event("pointer_delta", d, 1)>>)
    BY <1>1 DEF MovePointer
  <2>2. PICK e : e = Event("pointer_delta", d, 1)
    OBVIOUS
  <2>3. aim' \in 0..(Extent - 1)
    BY <1>0, <2>1 DEF TypeOK
  <2>4. e \in Events /\ e.kind \in Moves /\ e.no = sent + 1
    BY <2>2, <2>3 DEF Event, Events, EventSet, Moves, TypeOK
  <2>5. QED BY <2>1, <2>2, <2>3, <2>4 DEF MovePointer
<1>2. CASE ~locked
  <2>1. PICK x \in 0..(Extent - 1) : aim' = x /\ Sends(<<Event("pointer_move", x, 1)>>)
    BY <1>2 DEF MovePointer
  <2>2. PICK e : e = Event("pointer_move", x, 1)
    OBVIOUS
  <2>3. e \in Events /\ e.kind \in Moves /\ e.no = sent + 1
    BY <2>1, <2>2 DEF Event, Events, EventSet, Moves, TypeOK
  <2>4. QED BY <2>1, <2>2, <2>3 DEF MovePointer
<1>3. QED BY <1>1, <1>2

\* The movement is to where a press is aimed, unless the pointer is locked.
LEMMA PressButtonIs ==
  ASSUME TypeOK, NEW b \in Buttons, PressButton(b)
  PROVE  /\ \E e, f \in Events :
              /\ e.kind = "pointer_move" /\ e.no = sent + 1
              /\ f.kind = "pressed" /\ f.arg = b /\ f.no = sent + 2
              /\ ~f.locked => e.arg = f.aim
              /\ Sends(<<e, f>>)
         /\ held = {} /\ held' = {b} /\ UNCHANGED <<aim, locked, anchor>>
<1>1. /\ UNCHANGED <<aim, locked, anchor>> /\ held = {} /\ held' = {b}
      /\ Sends(<<Event("pointer_move", IF locked THEN anchor ELSE aim, 1), Event("pressed", b, 2)>>)
  BY DEF PressButton
<1>2. PICK e : e = Event("pointer_move", IF locked THEN anchor ELSE aim, 1)
  OBVIOUS
<1>3. PICK f : f = Event("pressed", b, 2)
  OBVIOUS
<1>4. e \in Events /\ e.kind = "pointer_move" /\ e.no = sent + 1 /\ (~locked => e.arg = aim)
  BY <1>1, <1>2, SizeAssumption DEF Event, Events, EventSet, Moves, TypeOK
<1>5. /\ f \in Events /\ f.kind = "pressed" /\ f.arg = b /\ f.no = sent + 2
      /\ f.locked = locked /\ f.aim = aim
  BY <1>1, <1>3 DEF Event, Events, EventSet, Moves, TypeOK
<1>6. QED BY <1>1, <1>2, <1>3, <1>4, <1>5

LEMMA ReleaseButtonIs ==
  ASSUME TypeOK, NEW b \in Buttons, ReleaseButton(b)
  PROVE  /\ \E e \in Events : e.kind = "released" /\ e.arg = b /\ e.no = sent + 1 /\ Sends(<<e>>)
         /\ held' = held \ {b} /\ UNCHANGED <<aim, locked, anchor>>
<1>1. PICK e : e = Event("released", b, 1)
  OBVIOUS
<1>2. e \in Events /\ e.kind = "released" /\ e.arg = b /\ e.no = sent + 1
  BY <1>1 DEF ReleaseButton, Event, Events, EventSet, Moves, TypeOK
<1>3. QED BY <1>1, <1>2 DEF ReleaseButton

LEMMA TypeTextIs ==
  ASSUME TypeOK, TypeText
  PROVE  /\ \E e \in Events : e.kind = "text" /\ e.no = sent + 1 /\ Sends(<<e>>)
         /\ UNCHANGED <<aim, held, locked, anchor>>
<1>1. PICK n \in 1..TextChunk : Sends(<<Event("text", n, 1)>>)
  BY DEF TypeText
<1>2. PICK e : e = Event("text", n, 1)
  OBVIOUS
<1>3. UNCHANGED <<aim, held, locked, anchor>>
  BY DEF TypeText
<1>4. e \in Events /\ e.kind = "text" /\ e.no = sent + 1
  BY <1>2, <1>3, SizeAssumption DEF Event, Events, EventSet, Moves, TypeOK
<1>5. QED BY <1>1, <1>2, <1>3, <1>4

LEMMA ReleaseControlIs ==
  ASSUME TypeOK, ReleaseControl
  PROVE  /\ \E e \in Events : e.kind = "release_control" /\ e.no = sent + 1 /\ Sends(<<e>>)
         /\ held = {} /\ UNCHANGED <<aim, held, anchor>> /\ locked' = FALSE
<1>1. PICK e : e = Event("release_control", 0, 1)
  OBVIOUS
<1>2. e \in Events /\ e.kind = "release_control" /\ e.no = sent + 1
  BY <1>1 DEF ReleaseControl, Event, Events, EventSet, Moves, TypeOK
<1>3. QED BY <1>1, <1>2 DEF ReleaseControl

\* The steps of the client that send one event.
SendsOne == MovePointer \/ TypeText \/ ReleaseControl \/ \E b \in Buttons : ReleaseButton(b)

LEMMA SendsOneEvent ==
  ASSUME TypeOK, SendsOne
  PROVE  \E e \in Events : e.no = sent + 1 /\ e.kind # "pressed" /\ Sends(<<e>>)
  BY MovePointerIs, TypeTextIs, ReleaseControlIs, ReleaseButtonIs DEF SendsOne, Moves

\* The channel closes.
LEMMA ChannelClosedIs ==
  ASSUME TypeOK, Line, Numbers, ChannelClosed
  PROVE  /\ \/ /\ UNCHANGED lost /\ Len(queue) < Capacity
               /\ \E e \in Events : /\ e.kind = "release_control" /\ e.no = sent + 1
                                    /\ Line' /\ Pending' = Pending \cup {e}
                                    /\ queue' = Append(queue, e)
            \/ lost' /\ Line' /\ Pending' = Pending /\ UNCHANGED queue
         /\ closed' /\ sent' = sent + 1 /\ net = <<>>
         /\ UNCHANGED <<net, held, put, threadVars, bridge, worldVars, setup>>
<1>1. /\ closed' = TRUE /\ sent' = sent + 1 /\ net = <<>>
      /\ UNCHANGED <<net, held, put, threadVars, bridge, worldVars, setup>>
  BY DEF ChannelClosed
<1>2. CASE Len(queue) < Capacity
  <2>1. PICK e : e = [NoEvent EXCEPT !.kind = "release_control", !.no = sent + 1]
    OBVIOUS
  <2>2. e \in Events /\ e.kind = "release_control" /\ e.no = sent + 1
    <3>1. e = [kind |-> "release_control", arg |-> 0, aim |-> 0, locked |-> FALSE, no |-> sent + 1]
      BY <2>1 DEF NoEvent
    <3>2. QED BY <3>1, SizeAssumption DEF Events, EventSet, Moves, TypeOK
  <2>3. queue' = Append(queue, e) /\ UNCHANGED lost
    BY <1>1, <1>2, <2>1 DEF ChannelClosed
  <2>4. Before(Pending, {e})
    BY <2>2, PendingAreEvents, EventsNumbered DEF Before, Numbers, TypeOK
  <2>5. UNCHANGED <<net, deferred>>
    BY <1>1 DEF threadVars
  <2>6. Line' /\ Pending' = Pending \cup {e}
    BY <1>1, <2>2, <2>3, <2>4, <2>5, ReleaseIs
  <2>7. QED BY <1>1, <1>2, <2>2, <2>3, <2>6
<1>3. CASE ~(Len(queue) < Capacity)
  <2>1. lost' /\ UNCHANGED <<queue, net, deferred>>
    BY <1>1, <1>3 DEF ChannelClosed, threadVars
  <2>2. Line' /\ Pending' = Pending
    BY <2>1 DEF Line, Pending
  <2>3. QED BY <1>1, <2>1, <2>2
<1>4. QED BY <1>2, <1>3
-----------------------------------------------------------------------------
(* The line, the callback and the numbers.                                 *)

InLine == Line /\ Callback /\ Numbers

\* Steps that touch neither events nor their numbers.
LEMMA InLineSame ==
  ASSUME TypeOK, InLine, UNCHANGED <<queue, net, deferred, put, sent, lost>>, last' = hand \/ last' = last,
         UNCHANGED hand, pc' \in Idle \/ (pc' = pc /\ last' = last)
  PROVE  InLine'
<1>1. Line' /\ Pending' = Pending
  BY DEF InLine, Line, Pending
<1>2. Callback'
  BY DEF InLine, Callback, Idle
<1>3. Numbers'
  BY <1>1 DEF InLine, Numbers, TypeOK, Idle
<1>4. QED BY <1>1, <1>2, <1>3 DEF InLine

LEMMA InLineClient ==
  ASSUME TypeOK, InLine, NEW E, \A e \in E : e.no \in Int /\ sent < e.no /\ e.no <= sent',
         NEW es, Sends(es), Line', Pending' = Pending \cup E, sent' \in Nat, sent <= sent', net' # <<>>
  PROVE  InLine'
<1>1. UNCHANGED <<put, queue, deferred, pc, hand, last, lost>>
  BY DEF Sends, threadVars, worldVars
<1>2. Callback'
  BY <1>1 DEF InLine, Callback
<1>3. \A e \in Pending : e.no \in Int
  BY PendingAreEvents, EventsNumbered DEF InLine
<1>4. Numbers'
  BY <1>1, <1>3 DEF InLine, Numbers, TypeOK
<1>5. QED BY <1>2, <1>4 DEF InLine

LEMMA InLineSends ==
  ASSUME TypeOK, InLine, SendsOne \/ \E b \in Buttons : PressButton(b)
  PROVE  InLine'
<1>1. ASSUME SendsOne PROVE InLine'
  <2>1. PICK e \in Events : e.no = sent + 1 /\ Sends(<<e>>)
    BY <1>1, SendsOneEvent
  <2>2. Line' /\ Pending' = Pending \cup {e} /\ sent' = sent + 1 /\ net' # <<>>
    BY <2>1, SendsOneIs DEF InLine
  <2>3. \A f \in {e} : f.no \in Int /\ sent < f.no /\ f.no <= sent'
    BY <2>1, <2>2 DEF TypeOK
  <2>4. sent' \in Nat /\ sent <= sent'
    BY <2>2 DEF TypeOK
  <2>5. QED BY <2>1, <2>2, <2>3, <2>4, InLineClient
<1>2. ASSUME NEW b \in Buttons, PressButton(b) PROVE InLine'
  <2>1. PICK e, f \in Events : e.no = sent + 1 /\ f.no = sent + 2 /\ Sends(<<e, f>>)
    BY <1>2, PressButtonIs
  <2>2. Line' /\ Pending' = Pending \cup {e, f} /\ sent' = sent + 2 /\ net' # <<>>
    BY <2>1, SendsTwoIs DEF InLine
  <2>3. \A g \in {e, f} : g.no \in Int /\ sent < g.no /\ g.no <= sent'
    BY <2>1, <2>2 DEF TypeOK
  <2>4. sent' \in Nat /\ sent <= sent'
    BY <2>2 DEF TypeOK
  <2>5. QED BY <2>1, <2>2, <2>3, <2>4, InLineClient
<1>3. QED BY <1>1, <1>2

LEMMA InLineCallback ==
  ASSUME TypeOK, InLine, CallbackStep
  PROVE  /\ InLine' /\ Pending' \subseteq Pending
         /\ UNCHANGED <<clientVars, closed, threadVars, worldVars, setup>>
         /\ bridge' = "up" => bridge = "up"
         /\ lost => lost'
         /\ ~lost' => Pending' = Pending
<1>0. /\ UNCHANGED <<clientVars, closed, threadVars, worldVars, setup>>
      /\ bridge' = "up" => bridge = "up"
      /\ UNCHANGED <<sent, deferred, pc, hand, last>>
  BY DEF CallbackStep, PutNowait, PutFull, Evict, Reput, clientVars, threadVars, worldVars
<1>1. Numbers /\ Line /\ Callback /\ Len(queue) \in Nat
  BY DEF InLine, Line
<1>2. ASSUME Pending' \subseteq Pending PROVE Numbers'
  BY <1>0, <1>1, <1>2 DEF Numbers
<1>3. CASE PutNowait \/ Reput
  <2>1. /\ net # <<>> /\ queue' = Append(queue, Head(net)) /\ net' = Tail(net) /\ UNCHANGED lost
        /\ put' = "idle" /\ Len(queue) < Capacity
    BY <1>1, <1>3 DEF PutNowait, Reput, Delivers, Callback
  <2>2. Line' /\ Pending' = Pending /\ Len(queue') = Len(queue) + 1
    BY <1>0, <1>1, <2>1, PutIs
  <2>3. Callback'
    BY <1>0, <1>1, <2>1, <2>2, SizeAssumption DEF Callback
  <2>4. QED BY <1>0, <1>2, <2>1, <2>2, <2>3 DEF InLine
<1>4. CASE PutFull
  <2>1. CASE net' = Tail(net) /\ UNCHANGED put
    <3>1. net # <<>> /\ UNCHANGED <<queue, deferred>> /\ lost' /\ put = "idle"
      BY <1>0, <1>4 DEF PutFull, Delivers
    <3>2. Line' /\ Pending' \subseteq Pending
      BY <1>1, <2>1, <3>1, DropIs
    <3>3. Callback'
      BY <1>0, <1>1, <2>1, <3>1 DEF Callback
    <3>4. QED BY <1>0, <1>2, <3>1, <3>2, <3>3 DEF InLine
  <2>2. CASE put' = "evict" /\ UNCHANGED net
    <3>1. net # <<>> /\ UNCHANGED <<queue, deferred>> /\ lost'
      BY <1>0, <1>4 DEF PutFull, Delivers
    <3>2. Line' /\ Pending' = Pending
      BY <1>1, <2>2, <3>1 DEF Line, Pending
    <3>3. Callback'
      BY <1>0, <1>1, <2>2, <3>1 DEF Callback
    <3>4. QED BY <1>0, <1>2, <3>1, <3>2, <3>3 DEF InLine
  <2>3. QED BY <1>4, <2>1, <2>2 DEF PutFull
<1>5. CASE Evict
  <2>1. net # <<>> /\ lost /\ UNCHANGED <<lost, deferred>>
    BY <1>0, <1>1, <1>5 DEF Evict, Delivers, Callback
  <2>2. CASE queue # <<>>
    <3>1. queue' = Tail(queue) /\ UNCHANGED <<net, deferred>> /\ put' = "reput"
      BY <1>5, <2>1, <2>2 DEF Evict
    <3>2. Line' /\ Pending' \subseteq Pending
      BY <1>1, <2>2, <3>1, DropIs
    <3>3. Len(queue') = Len(queue) - 1
      BY <1>1, <2>2, <3>1, TakeHead DEF Line
    <3>4. Callback'
      BY <1>0, <1>1, <2>1, <3>1, <3>3, SizeAssumption DEF Callback
    <3>5. QED BY <1>0, <1>2, <2>1, <3>2, <3>4 DEF InLine
  <2>3. CASE queue = <<>>
    <3>1. net' = Tail(net) /\ UNCHANGED <<queue, deferred>> /\ put' = "idle"
      BY <1>5, <2>1, <2>3 DEF Evict
    <3>2. Line' /\ Pending' \subseteq Pending
      BY <1>1, <2>1, <3>1, DropIs
    <3>3. Callback'
      BY <1>0, <1>1, <2>1, <3>1 DEF Callback
    <3>4. QED BY <1>0, <1>2, <2>1, <3>2, <3>3 DEF InLine
  <2>4. QED BY <2>2, <2>3
<1>6. QED BY <1>3, <1>4, <1>5 DEF CallbackStep

LEMMA InLineCloses ==
  ASSUME TypeOK, InLine, ChannelClosed
  PROVE  InLine'
<1>1. /\ sent' = sent + 1 /\ UNCHANGED <<net, put, deferred, pc, hand, last>> /\ Line'
      /\ Pending' \subseteq Pending \cup {e \in Events : e.no = sent + 1}
      /\ lost => lost'
      /\ UNCHANGED queue \/ (\E e \in Events : queue' = Append(queue, e) /\ Len(queue) < Capacity)
  BY ChannelClosedIs DEF InLine, threadVars, worldVars
<1>2. put = "idle"
  <2>1. net = <<>>
    BY ChannelClosedIs DEF InLine
  <2>2. QED BY <2>1 DEF InLine, Callback, TypeOK
<1>3. Len(queue') <= Capacity
  BY <1>1, AppendOne, SizeAssumption DEF InLine, Line, Callback
<1>4. Callback'
  BY <1>1, <1>2, <1>3 DEF InLine, Callback
<1>5. \A e \in Pending : e.no \in Int
  BY PendingAreEvents, EventsNumbered DEF InLine
<1>6. Numbers'
  BY <1>1, <1>5 DEF InLine, Numbers, TypeOK
<1>7. QED BY <1>1, <1>4, <1>6 DEF InLine

\* An iteration of the input thread begins with the event e.
LEMMA InLineStarts ==
  ASSUME TypeOK, InLine, NEW e, Starts(e), UNCHANGED <<net, put, sent, lost>>, hand' = e.no,
         \/ pc' \in {"moves", "text", "type"} /\ last' = last
         \/ pc' = "get" /\ last' = e.no
  PROVE  InLine'
<1>1. /\ Line' /\ e \in Pending /\ e \in Events /\ Before({e}, Pending \ {e})
      /\ Pending' = Pending \ {e} /\ deferred' = NoEvent
      /\ queue' = queue \/ (queue # <<>> /\ queue' = Tail(queue))
  BY StartsIs DEF InLine
<1>2. Len(queue') <= Len(queue) /\ Len(queue) \in Nat /\ Len(queue') \in Nat
  BY <1>1, TakeHead DEF InLine, Line
<1>3. Callback'
  BY <1>1, <1>2, SizeAssumption DEF InLine, Callback
<1>4. Numbers'
  BY <1>1, EventsNumbered DEF InLine, Numbers, Before, TypeOK
<1>5. QED BY <1>1, <1>3, <1>4 DEF InLine

\* A further event is joined, or put by for the next iteration.
LEMMA InLineJoins ==
  ASSUME TypeOK, InLine, pc \in {"moves", "text"}, queue # <<>>, queue' = Tail(queue),
         UNCHANGED <<net, put, sent, lost, last>>,
         \/ deferred' = deferred /\ hand' = Head(queue).no /\ pc' = pc
         \/ deferred' = Head(queue) /\ hand' = hand /\ pc' \in {"flush", "type"}
  PROVE  InLine'
<1>1. deferred = NoEvent
  BY DEF InLine, Callback
<1>2. /\ Head(queue) \in Pending /\ Head(queue) \in Events
      /\ Before({Head(queue)}, Pending \ {Head(queue)})
      /\ deferred' = NoEvent => Line' /\ Pending' = Pending \ {Head(queue)}
      /\ deferred' = Head(queue) => Line' /\ Pending' = Pending
  BY <1>1, JoinIs DEF InLine
<1>3. Len(queue') = Len(queue) - 1 /\ Len(queue) \in Nat
  BY TakeHead DEF InLine, Line
<1>4. Callback'
  BY <1>1, <1>3, SizeAssumption DEF InLine, Callback
<1>5. Numbers' /\ Line'
  <2>1. CASE deferred' = deferred /\ hand' = Head(queue).no /\ pc' = pc
    BY <1>1, <1>2, <2>1, EventsNumbered DEF InLine, Numbers, Before, TypeOK
  <2>2. CASE deferred' = Head(queue) /\ hand' = hand /\ pc' \in {"flush", "type"}
    BY <1>2, <2>2 DEF InLine, Numbers
  <2>3. QED BY <2>1, <2>2
<1>6. QED BY <1>4, <1>5 DEF InLine

LEMMA InLineInput ==
  ASSUME TypeOK, InLine, InputStep
  PROVE  InLine'
<1>1. CASE StartMoves
  <2>1. PICK e \in Candidates :
          /\ Starts(e) /\ UNCHANGED <<net, put, sent, lost>> /\ hand' = e.no /\ pc' = "moves"
          /\ last' = last
    BY <1>1 DEF StartMoves, UpdatePointer, clientVars, worldVars
  <2>2. QED BY <2>1, InLineStarts
<1>2. CASE StartText
  <2>1. PICK e \in Candidates :
          /\ Starts(e) /\ UNCHANGED <<net, put, sent, lost>> /\ hand' = e.no /\ pc' \in {"text", "type"}
          /\ last' = last
    BY <1>2 DEF StartText, clientVars
  <2>2. QED BY <2>1, InLineStarts
<1>3. CASE Inject
  <2>1. PICK e \in Candidates :
          /\ Starts(e) /\ UNCHANGED <<net, put, sent, lost>> /\ hand' = e.no /\ pc' = pc
          /\ last' = e.no
    BY <1>3 DEF Inject, clientVars
  <2>2. pc = "get"
    BY <2>1 DEF Starts
  <2>3. QED BY <2>1, <2>2, InLineStarts
<1>4. CASE (JoinMoves \/ JoinText) /\ queue # <<>>
  <2>1. \/ /\ pc \in {"moves", "text"} /\ queue' = Tail(queue)
           /\ UNCHANGED <<net, put, sent, lost, last>>
           /\ \/ deferred' = deferred /\ hand' = Head(queue).no /\ pc' = pc
              \/ deferred' = Head(queue) /\ hand' = hand /\ pc' \in {"flush", "type"}
        \/ /\ pc' = "type" /\ pc = "text"
           /\ UNCHANGED <<net, put, sent, lost, last, queue, deferred, hand>>
    BY <1>4 DEF JoinMoves, JoinText, UpdatePointer, clientVars, worldVars
  <2>2. CASE pc' = "type" /\ pc = "text"
             /\ UNCHANGED <<net, put, sent, lost, last, queue, deferred, hand>>
    <3>1. Line' /\ Pending' = Pending
      BY <2>2 DEF InLine, Line, Pending
    <3>2. QED BY <2>2, <3>1 DEF InLine, Callback, Numbers
  <2>3. QED BY <1>4, <2>1, <2>2, InLineJoins
<1>5. CASE (JoinMoves \/ JoinText) /\ queue = <<>>
  <2>1. /\ pc' \in {"flush", "type"} /\ pc \in {"moves", "text"}
        /\ UNCHANGED <<net, put, sent, lost, last, queue, deferred, hand>>
    BY <1>5 DEF JoinMoves, JoinText, clientVars, worldVars
  <2>2. Line' /\ Pending' = Pending
    BY <2>1 DEF InLine, Line, Pending
  <2>3. QED BY <2>1, <2>2 DEF InLine, Callback, Numbers
<1>6. CASE FlushPointer \/ Type \/ CloseController \/ BuildController
  <2>1. /\ UNCHANGED <<queue, net, deferred, put, sent, lost, hand>> /\ pc' \in Idle
        /\ last' = hand \/ last' = last
    BY <1>6 DEF FlushPointer, Type, CloseController, BuildController, clientVars, Idle
  <2>2. QED BY <2>1, InLineSame
<1>7. QED BY <1>1, <1>2, <1>3, <1>4, <1>5, <1>6 DEF InputStep

\* The processes end, the client locks its pointer, or nothing happens.
Ends == Stop \/ Exit \/ PointerEof \/ PointerHangs \/ PointerDies \/ LockPointer \/ UNCHANGED vars

LEMMA EndsIs ==
  ASSUME Ends
  PROVE  /\ UNCHANGED <<closed, net, put, queue, threadVars, sent, held, cursor, typed, drawn, last,
                        failed, lost, setup>>
         /\ bridge' = "up" => bridge = "up"
         /\ pointer' # "gone" => pointer # "gone" /\ UNCHANGED down
         /\ pointer = "gone" => UNCHANGED <<pointer, down>>
<1> USE DEF clientVars, threadVars, worldVars
<1>1. CASE Stop \/ Exit \/ LockPointer \/ UNCHANGED vars
  BY <1>1 DEF Stop, Exit, LockPointer, vars
<1>2. CASE PointerEof \/ PointerHangs \/ PointerDies
  BY <1>2 DEF PointerEof, PointerHangs, PointerDies
<1>3. QED BY <1>1, <1>2 DEF Ends

LEMMA NextIs ==
  ASSUME [Next]_vars
  PROVE  \/ SendsOne \/ (\E b \in Buttons : PressButton(b)) \/ CallbackStep \/ ChannelClosed
         \/ InputStep \/ Ends
  BY DEF Next, ClientStep, SendsOne, Ends

LEMMA InLineStep ==
  ASSUME TypeOK, InLine, [Next]_vars
  PROVE  InLine'
<1>1. ASSUME Ends PROVE InLine'
  <2>1. UNCHANGED <<queue, net, deferred, put, sent, lost, hand, pc, last>>
    BY <1>1, EndsIs DEF threadVars
  <2>2. QED BY <2>1, InLineSame
<1>2. ASSUME CallbackStep PROVE InLine'
  BY <1>2, InLineCallback
<1>3. QED BY <1>1, <1>2, NextIs, InLineSends, InLineCloses, InLineInput
-----------------------------------------------------------------------------
(* Types.                                                                  *)

LEMMA ClampIs == \A x \in Int : Clamp(x) \in 0..(Extent - 1) /\ (x \in 0..(Extent - 1) => Clamp(x) = x)
  BY SizeAssumption DEF Clamp

\* What the input thread has in hand.
LEMMA StartsEvent ==
  ASSUME InLine, NEW e, Starts(e), UNCHANGED net
  PROVE  e \in Events /\ e.no \in Nat
  BY StartsIs, EventsNumbered DEF InLine

LEMMA LineTyped ==
  ASSUME NEW q \in Seq(Events), NEW d \in Events \cup {NoEvent}
  PROVE  (\A i \in DOMAIN q : q[i] \in EventSet) /\ d \in EventSet
<1>1. NoEvent \in EventSet
  BY SizeAssumption DEF NoEvent, EventSet
<1>2. QED BY <1>1 DEF Events

LEMMA TypesClient ==
  ASSUME TypeOK, InLine, InLine', SendsOne \/ \E b \in Buttons : PressButton(b)
  PROVE  TypeOK'
<1>1. /\ \A i \in DOMAIN net' : net'[i] \in EventSet
      /\ Len(queue') <= Capacity /\ \A i \in DOMAIN queue' : queue'[i] \in EventSet
      /\ deferred' \in EventSet
  BY LineTyped DEF InLine, Line, Callback
<1>2. ASSUME NEW es, Sends(es), sent' \in Nat, aim' \in 0..(Extent - 1), anchor' = anchor,
             held' \subseteq Buttons, locked' \in BOOLEAN
      PROVE  TypeOK'
  <2>1. UNCHANGED <<closed, put, threadVars, bridge, worldVars, lost, setup>>
    BY <1>2 DEF Sends
  <2>2. QED BY <1>1, <1>2, <2>1 DEF TypeOK, threadVars, worldVars
<1>3. ASSUME NEW b \in Buttons, PressButton(b) PROVE TypeOK'
  <2>1. PICK e, f \in Events : Sends(<<e, f>>)
    BY <1>3, PressButtonIs
  <2>2. sent' = sent + 2
    BY <2>1 DEF Sends
  <2>3. sent' \in Nat /\ held' = {b} /\ UNCHANGED <<aim, locked, anchor>>
    BY <1>3, <2>2, PressButtonIs DEF TypeOK
  <2>4. QED BY <1>2, <2>1, <2>3 DEF TypeOK
<1>4. ASSUME SendsOne PROVE TypeOK'
  <2>1. PICK e \in Events : Sends(<<e>>)
    BY <1>4, SendsOneEvent
  <2>2. sent' = sent + 1
    BY <2>1 DEF Sends
  <2>3. sent' \in Nat
    BY <2>2 DEF TypeOK
  <2>4. aim' \in 0..(Extent - 1) /\ anchor' = anchor /\ held' \subseteq Buttons /\ locked' \in BOOLEAN
    <3>1. CASE MovePointer
      BY <3>1, MovePointerIs DEF MovePointer, TypeOK
    <3>2. CASE TypeText \/ ReleaseControl \/ \E b \in Buttons : ReleaseButton(b)
      BY <3>2, TypeTextIs, ReleaseControlIs, ReleaseButtonIs DEF TypeOK
    <3>3. QED BY <1>4, <3>1, <3>2 DEF SendsOne
  <2>5. QED BY <1>2, <2>1, <2>3, <2>4
<1>5. QED BY <1>3, <1>4

LEMMA TypesInput ==
  ASSUME TypeOK, InLine, InLine', InputStep
  PROVE  TypeOK'
<1>1. /\ \A i \in DOMAIN net' : net'[i] \in EventSet
      /\ Len(queue') <= Capacity /\ \A i \in DOMAIN queue' : queue'[i] \in EventSet
      /\ deferred' \in EventSet
  BY LineTyped DEF InLine, Line, Callback
<1>2. UNCHANGED <<aim, held, locked, anchor, sent, closed, net, put, bridge, lost, setup>>
  BY DEF InputStep, StartMoves, JoinMoves, FlushPointer, StartText, JoinText, Type, Inject,
         CloseController, BuildController, clientVars
<1>3. CASE StartMoves
  <2>1. PICK e \in Candidates :
          /\ Starts(e) /\ e.kind \in Moves /\ UpdatePointer(e) /\ pc' = "moves"
          /\ UNCHANGED <<batch, pressed, worldVars>>
    BY <1>3 DEF StartMoves
  <2>2. e \in Events /\ e.no \in Nat
    BY <1>2, <2>1, StartsEvent
  <2>3. want' \in Int /\ hand' \in Nat
    BY <2>1, <2>2 DEF UpdatePointer, Events, TypeOK
  <2>4. QED BY <1>1, <1>2, <2>1, <2>3 DEF TypeOK, worldVars
<1>4. CASE JoinMoves
  <2>1. queue # <<>> => Head(queue) \in Events
    BY TakeHead DEF InLine, Line
  <2>2. want' \in Int /\ hand' \in Nat
    BY <1>4, <2>1, EventsNumbered DEF JoinMoves, UpdatePointer, Events, TypeOK
  <2>3. pc' \in {"moves", "flush"} /\ UNCHANGED <<batch, pressed, worldVars>>
    BY <1>4 DEF JoinMoves
  <2>4. QED BY <1>1, <1>2, <2>2, <2>3 DEF TypeOK, worldVars
<1>5. CASE FlushPointer
  <2>1. /\ pc' = "get" /\ last' = hand /\ want' = Clamp(want) /\ cursor' \in {cursor, Clamp(want)}
        /\ failed' \in {failed, TRUE} /\ UNCHANGED <<batch, hand, pressed, pointer, down, typed, drawn>>
    BY <1>5 DEF FlushPointer
  <2>2. Clamp(want) \in 0..(Extent - 1) /\ Clamp(want) \in Int
    BY ClampIs DEF TypeOK
  <2>3. QED BY ZenonT(40), <1>1, <1>2, <2>1, <2>2 DEF TypeOK
<1>6. CASE StartText
  <2>1. PICK e \in Candidates :
          /\ Starts(e) /\ e.kind = "text" /\ drawn' = drawn + e.arg /\ batch' = e.arg /\ hand' = e.no
          /\ pc' \in {"text", "type"}
          /\ UNCHANGED <<want, pressed, pointer, cursor, down, typed, last, failed>>
    BY <1>6 DEF StartText
  <2>2. e \in Events /\ e.no \in Nat
    BY <1>2, <2>1, StartsEvent
  <2>3. e.arg \in Nat
    BY <2>1, <2>2, SizeAssumption DEF Events
  <2>4. QED BY SMTT(30), <1>1, <1>2, <2>1, <2>2, <2>3 DEF TypeOK
<1>7. CASE JoinText
  <2>1. queue # <<>> => Head(queue) \in Events /\ (Head(queue).kind = "text" => Head(queue).arg \in Nat)
    BY TakeHead, SizeAssumption DEF InLine, Line, Events
  <2>2. batch' \in Nat /\ drawn' \in Nat /\ hand' \in Nat
    BY SMTT(30), <1>7, <2>1, EventsNumbered DEF JoinText, TypeOK
  <2>3. /\ pc' \in {"text", "type"}
        /\ UNCHANGED <<want, pressed, pointer, cursor, down, typed, last, failed>>
    BY <1>7 DEF JoinText
  <2>4. QED BY <1>1, <1>2, <2>2, <2>3 DEF TypeOK
<1>8. CASE Type
  <2>1. /\ pc' = "get" /\ last' = hand /\ failed' \in {failed, TRUE}
        /\ typed' \in {typed, typed + Lesser(batch, TextLimit)}
        /\ UNCHANGED <<want, batch, hand, pressed, pointer, cursor, down, drawn>>
    BY <1>8 DEF Type
  <2>2. Lesser(batch, TextLimit) \in Nat
    BY SizeAssumption DEF Lesser, TypeOK
  <2>3. last' \in Nat /\ typed' \in Nat /\ drawn' \in Nat /\ batch' \in Nat /\ hand' \in Nat
    BY <2>1, <2>2 DEF TypeOK
  <2>4. failed' \in BOOLEAN
    BY <2>1 DEF TypeOK
  <2>5. QED BY <1>1, <1>2, <2>1, <2>3, <2>4 DEF TypeOK
<1>9. CASE Inject
  <2>1. PICK e \in Candidates :
          /\ Starts(e) /\ e.kind \in {"pressed", "released", "release_control"}
          /\ IF setup.backend = "hyprland" THEN InjectHyprland(e) ELSE InjectSway(e)
          /\ hand' = e.no /\ last' = e.no
          /\ UNCHANGED <<pc, want, batch, pointer, typed, drawn>>
    BY <1>9 DEF Inject
  <2>2. e \in Events /\ e.no \in Nat
    BY <1>2, <2>1, StartsEvent
  <2>3. e.kind = "pressed" => e.arg \in Buttons
    BY <2>2 DEF Events
  <2>4. /\ cursor' \in {cursor, Home} /\ failed' \in {failed, TRUE}
        /\ pressed' \subseteq Buttons /\ down' \subseteq Buttons
    <3>1. CASE setup.backend = "hyprland"
      BY <2>1, <3>1 DEF InjectHyprland, TypeOK
    <3>2. CASE setup.backend # "hyprland"
      <4>1. InjectSway(e)
        BY <2>1, <3>2
      <4>2. cursor' = cursor /\ failed' \in {failed, TRUE}
        BY <4>1 DEF InjectSway
      <4>3. /\ pressed' \in {pressed, pressed \cup {e.arg}, pressed \ {e.arg}, {}}
            /\ down' \in {down, down \cup {e.arg}, down \ {e.arg}, {}}
            /\ e.kind # "pressed" => pressed' \subseteq pressed /\ down' \subseteq down
        BY <4>1 DEF InjectSway
      <4>4. QED BY <2>3, <4>2, <4>3 DEF TypeOK
    <3>3. QED BY <3>1, <3>2
  <2>5. failed' \in BOOLEAN
    BY <2>4 DEF TypeOK
  <2>6. cursor' \in 0..(Extent - 1)
    BY <2>4, SizeAssumption DEF TypeOK
  <2>7. QED BY <1>1, <1>2, <2>1, <2>2, <2>4, <2>5, <2>6 DEF TypeOK
<1>10. CASE CloseController
  BY <1>1, <1>2, <1>10 DEF CloseController, TypeOK
<1>11. CASE BuildController
  <2>1. /\ pc' \in {"get", "failed"} /\ pointer' \in {pointer, "up", "gone"}
        /\ UNCHANGED <<want, batch, hand, pressed, cursor, down, typed, drawn, last, failed>>
    BY <1>11 DEF BuildController
  <2>2. QED BY <1>1, <1>2, <2>1 DEF TypeOK
<1>12. QED BY <1>3, <1>4, <1>5, <1>6, <1>7, <1>8, <1>9, <1>10, <1>11 DEF InputStep

LEMMA TypesStep ==
  ASSUME TypeOK, InLine, InLine', [Next]_vars
  PROVE  TypeOK'
<1>1. /\ \A i \in DOMAIN net' : net'[i] \in EventSet
      /\ Len(queue') <= Capacity /\ \A i \in DOMAIN queue' : queue'[i] \in EventSet
      /\ deferred' \in EventSet
  BY LineTyped DEF InLine, Line, Callback
<1>2. CASE CallbackStep
  <2>1. UNCHANGED <<clientVars, closed, threadVars, worldVars, setup>>
    BY <1>2, InLineCallback
  <2>2. put' \in {"idle", "evict", "reput"} /\ bridge' \in {bridge, "stopping"} /\ lost' \in {lost, TRUE}
    BY <1>2 DEF CallbackStep, PutNowait, PutFull, Evict, Reput, TypeOK
  <2>3. QED BY ZenonT(40), <1>1, <2>1, <2>2 DEF TypeOK, clientVars, threadVars, worldVars
<1>3. CASE ChannelClosed
  <2>1. /\ sent' = sent + 1 /\ closed' = TRUE /\ lost' \in {lost, TRUE}
        /\ UNCHANGED <<aim, held, locked, anchor, put, threadVars, bridge, worldVars, setup>>
    BY <1>3 DEF ChannelClosed
  <2>2. closed' \in BOOLEAN /\ lost' \in BOOLEAN
    BY <2>1 DEF TypeOK
  <2>3. sent' \in Nat
    BY <2>1 DEF TypeOK
  <2>4. QED BY <1>1, <2>1, <2>2, <2>3 DEF TypeOK, threadVars, worldVars
<1>4. CASE Ends
  <2>1. /\ UNCHANGED <<closed, put, threadVars, sent, held, cursor, typed, drawn, last, failed, lost,
                       setup>>
        /\ aim' = aim /\ locked' \in {locked, TRUE} /\ anchor' \in {anchor, aim}
        /\ bridge' \in {bridge, "stopping", "ended"} /\ pointer' \in {pointer, "up", "hung", "gone"}
        /\ down' \in {down, {}}
    <3>1. CASE Stop \/ Exit \/ PointerEof \/ PointerHangs \/ PointerDies
      BY <3>1 DEF Stop, Exit, PointerEof, PointerHangs, PointerDies, clientVars, worldVars
    <3>2. CASE LockPointer \/ UNCHANGED vars
      BY <3>2 DEF LockPointer, vars, clientVars, worldVars
    <3>3. QED BY <1>4, <3>1, <3>2 DEF Ends
  <2>2. locked' \in BOOLEAN
    BY <2>1 DEF TypeOK
  <2>3. anchor' \in 0..(Extent - 1) /\ down' \subseteq Buttons
    BY <2>1 DEF TypeOK
  <2>4. bridge' \in {"up", "stopping", "ended"} /\ pointer' \in {"up", "hung", "gone"}
    BY <2>1 DEF TypeOK
  <2>5. QED BY <1>1, <2>1, <2>2, <2>3, <2>4 DEF TypeOK, threadVars
<1>5. QED BY <1>2, <1>3, <1>4, NextIs, TypesClient, TypesInput

LEMMA TypesInit == Init => TypeOK /\ InLine
<1> SUFFICES ASSUME Init PROVE TypeOK /\ InLine
  OBVIOUS
<1>1. /\ queue = <<>> /\ net = <<>> /\ deferred = NoEvent /\ put = "idle" /\ pc = "start"
      /\ hand = 0 /\ last = 0 /\ sent = 0
  BY DEF Init
<1>2. Elems(queue) = {} /\ Elems(net) = {} /\ Pending = {}
  BY <1>1, EmptyHasNone DEF Pending
<1>3. Line
  BY <1>1, <1>2, EmptyHasNone DEF Line, Before
<1>4. Callback /\ Numbers
  BY <1>1, <1>2, SizeAssumption DEF Callback, Numbers
<1>5. InLine
  BY <1>3, <1>4 DEF InLine
<1>6. Extent \div 2 \in Int
  BY SizeAssumption
<1>7. /\ \A i \in DOMAIN net : net[i] \in EventSet
      /\ Len(queue) <= Capacity /\ \A i \in DOMAIN queue : queue[i] \in EventSet
      /\ deferred \in EventSet
  BY <1>3, <1>4, LineTyped DEF Line, Callback
<1>8. /\ setup \in Setups /\ aim = 0 /\ anchor = 0 /\ cursor = Home /\ held = {} /\ pressed = {} /\ down = {}
      /\ closed = FALSE /\ locked = FALSE /\ lost = FALSE /\ failed = FALSE
      /\ batch = 0 /\ typed = 0 /\ drawn = 0 /\ want = Extent \div 2 /\ bridge = "up"
      /\ pointer \in {"up", "gone"}
  BY DEF Init
<1>9. closed \in BOOLEAN /\ locked \in BOOLEAN /\ lost \in BOOLEAN /\ failed \in BOOLEAN
  BY <1>8
<1>10. TypeOK
  BY <1>1, <1>6, <1>7, <1>8, <1>9, SizeAssumption DEF TypeOK
<1>11. QED BY <1>5, <1>10
-----------------------------------------------------------------------------
(* What the input thread takes.                                            *)

\* The input thread takes for good the event that was sent first.
Takes(e) ==
  /\ e \in Pending /\ Before({e}, Pending \ {e})
  /\ Pending' = Pending \ {e}
  /\ hand < e.no /\ hand' = e.no

LEMMA StartsTakes ==
  ASSUME InLine, NEW e, Starts(e), UNCHANGED net, hand' = e.no
  PROVE  Takes(e) /\ pc = "get" /\ bridge = "up"
<1>1. e \in Pending /\ Before({e}, Pending \ {e}) /\ Pending' = Pending \ {e}
  BY StartsIs DEF InLine
<1>2. hand < e.no
  BY <1>1 DEF InLine, Numbers
<1>3. QED BY <1>1, <1>2 DEF Takes, Starts

LEMMA StartMovesIs ==
  ASSUME InLine, StartMoves
  PROVE  /\ \E e \in Pending : /\ Takes(e) /\ e.kind \in Moves
                               /\ e.kind = "pointer_move" => want' = e.arg
         /\ pc' = "moves" /\ UNCHANGED <<closed, held, lost, setup, bridge, worldVars, pressed, batch>>
<1>1. PICK e \in Candidates :
        /\ Starts(e) /\ e.kind \in Moves /\ UpdatePointer(e) /\ pc' = "moves"
        /\ UNCHANGED <<net, closed, held, lost, setup, bridge, worldVars, pressed, batch>>
  BY DEF StartMoves, clientVars
<1>2. hand' = e.no /\ (e.kind = "pointer_move" => want' = e.arg)
  BY <1>1 DEF UpdatePointer
<1>3. Takes(e)
  BY <1>1, <1>2, StartsTakes
<1>4. QED BY <1>1, <1>2, <1>3 DEF Takes

LEMMA StartTextIs ==
  ASSUME InLine, StartText
  PROVE  /\ \E e \in Pending : /\ Takes(e) /\ e.kind = "text"
                               /\ drawn' = drawn + e.arg /\ batch' = e.arg
         /\ pc = "get" /\ pc' = IF setup.bridge = "wss" THEN "text" ELSE "type"
         /\ UNCHANGED <<closed, held, lost, setup, bridge, pressed, down, cursor, pointer, failed, typed>>
<1>1. PICK e \in Candidates :
        /\ Starts(e) /\ e.kind = "text" /\ drawn' = drawn + e.arg /\ batch' = e.arg /\ hand' = e.no
        /\ pc' = IF setup.bridge = "wss" THEN "text" ELSE "type"
        /\ UNCHANGED net
        /\ UNCHANGED <<closed, held, lost, setup, bridge, pressed, down, cursor, pointer, failed, typed>>
  BY DEF StartText, clientVars
<1>2. Takes(e) /\ pc = "get"
  BY <1>1, StartsTakes
<1>3. QED BY <1>1, <1>2 DEF Takes

LEMMA InjectIs ==
  ASSUME InLine, Inject
  PROVE  /\ \E e \in Pending :
              /\ Takes(e) /\ e.kind \in {"pressed", "released", "release_control"} /\ last' = e.no
              /\ IF setup.backend = "hyprland" THEN InjectHyprland(e) ELSE InjectSway(e)
         /\ pc = "get" /\ pc' = "get"
         /\ UNCHANGED <<closed, held, lost, setup, bridge, pointer, batch, drawn, typed>>
<1>1. PICK e \in Candidates :
        /\ Starts(e) /\ e.kind \in {"pressed", "released", "release_control"} /\ hand' = e.no
        /\ last' = e.no
        /\ IF setup.backend = "hyprland" THEN InjectHyprland(e) ELSE InjectSway(e)
        /\ UNCHANGED net
        /\ UNCHANGED <<closed, held, lost, setup, bridge, pc, pointer, batch, drawn, typed>>
  BY DEF Inject, clientVars
<1>2. Takes(e) /\ pc = "get"
  BY <1>1, StartsTakes
<1>3. e \in Pending
  BY <1>2 DEF Takes
<1>4. QED BY <1>1, <1>2, <1>3

\* It joins a further event of the kind, or stops joining.
LEMMA JoinTakes ==
  ASSUME InLine, pc \in {"moves", "text"}, queue # <<>>, queue' = Tail(queue), UNCHANGED net
  PROVE  /\ Head(queue) \in Pending
         /\ UNCHANGED deferred /\ hand' = Head(queue).no => Takes(Head(queue))
         /\ deferred' = Head(queue) => Pending' = Pending
<1>1. deferred = NoEvent
  BY DEF InLine, Callback
<1>2. /\ Head(queue) \in Pending /\ Before({Head(queue)}, Pending \ {Head(queue)})
      /\ deferred' = NoEvent => Pending' = Pending \ {Head(queue)}
      /\ deferred' = Head(queue) => Pending' = Pending
  BY <1>1, JoinIs DEF InLine
<1>3. hand < Head(queue).no
  BY <1>2 DEF InLine, Numbers
<1>4. QED BY <1>1, <1>2, <1>3 DEF Takes

LEMMA JoinMovesIs ==
  ASSUME InLine, JoinMoves
  PROVE  /\ pc = "moves"
         /\ UNCHANGED <<closed, held, lost, setup, bridge, worldVars, pressed, batch>>
         /\ \/ \E e \in Pending : /\ Takes(e) /\ e.kind \in Moves /\ pc' = "moves"
                                  /\ e.kind = "pointer_move" => want' = e.arg
            \/ Pending' = Pending /\ pc' = "flush" /\ UNCHANGED <<hand, want>>
<1>1. /\ pc = "moves" /\ UNCHANGED net
      /\ UNCHANGED <<closed, held, lost, setup, bridge, worldVars, pressed, batch>>
  BY DEF JoinMoves, clientVars
<1>2. CASE queue = <<>>
  <2>1. pc' = "flush" /\ UNCHANGED <<queue, deferred, want, hand>>
    BY <1>2 DEF JoinMoves
  <2>2. QED BY <1>1, <2>1 DEF Pending
<1>3. CASE queue # <<>> /\ Head(queue).kind \in Moves
  <2>1. queue' = Tail(queue) /\ UNCHANGED <<pc, deferred>> /\ UpdatePointer(Head(queue))
    BY <1>3 DEF JoinMoves
  <2>2. hand' = Head(queue).no /\ (Head(queue).kind = "pointer_move" => want' = Head(queue).arg)
    BY <2>1 DEF UpdatePointer
  <2>3. Takes(Head(queue)) /\ Head(queue) \in Pending
    BY <1>1, <1>3, <2>1, <2>2, JoinTakes
  <2>4. QED BY <1>1, <1>3, <2>1, <2>2, <2>3
<1>4. CASE queue # <<>> /\ Head(queue).kind \notin Moves
  <2>1. queue' = Tail(queue) /\ deferred' = Head(queue) /\ pc' = "flush" /\ UNCHANGED <<want, hand>>
    BY <1>4 DEF JoinMoves
  <2>2. Pending' = Pending
    BY <1>1, <1>4, <2>1, JoinTakes
  <2>3. QED BY <1>1, <2>1, <2>2
<1>5. QED BY <1>2, <1>3, <1>4

LEMMA JoinTextIs ==
  ASSUME InLine, JoinText
  PROVE  /\ pc = "text"
         /\ UNCHANGED <<closed, held, lost, setup, bridge, pressed, down, cursor, pointer, failed, typed,
                        want>>
         /\ \/ \E e \in Pending : /\ Takes(e) /\ e.kind = "text" /\ pc' = "text"
                                  /\ ~(batch >= TextLimit)
                                  /\ batch' = batch + e.arg /\ drawn' = drawn + e.arg
            \/ Pending' = Pending /\ pc' = "type" /\ UNCHANGED <<hand, batch, drawn>>
<1>1. /\ pc = "text" /\ UNCHANGED net
      /\ UNCHANGED <<closed, held, lost, setup, bridge, pressed, down, cursor, pointer, failed, typed,
                     want>>
  BY DEF JoinText, clientVars
<1>2. CASE batch >= TextLimit \/ queue = <<>>
  <2>1. pc' = "type" /\ UNCHANGED <<queue, deferred, batch, hand, drawn>>
    BY <1>2 DEF JoinText
  <2>2. QED BY <1>1, <2>1 DEF Pending
<1>3. CASE ~(batch >= TextLimit) /\ queue # <<>> /\ Head(queue).kind = "text"
  <2>1. /\ queue' = Tail(queue) /\ UNCHANGED <<pc, deferred>> /\ hand' = Head(queue).no
        /\ batch' = batch + Head(queue).arg /\ drawn' = drawn + Head(queue).arg
    BY <1>3 DEF JoinText
  <2>2. Takes(Head(queue)) /\ Head(queue) \in Pending
    BY <1>1, <1>3, <2>1, JoinTakes
  <2>3. QED BY <1>1, <1>3, <2>1, <2>2
<1>4. CASE ~(batch >= TextLimit) /\ queue # <<>> /\ Head(queue).kind # "text"
  <2>1. queue' = Tail(queue) /\ deferred' = Head(queue) /\ pc' = "type" /\ UNCHANGED <<batch, hand, drawn>>
    BY <1>4 DEF JoinText
  <2>2. Pending' = Pending
    BY <1>1, <1>4, <2>1, JoinTakes
  <2>3. QED BY <1>1, <2>1, <2>2
<1>5. QED BY <1>2, <1>3, <1>4

\* The other steps of the input thread take nothing.
LEMMA PerformsIs ==
  ASSUME FlushPointer \/ Type \/ CloseController \/ BuildController
  PROVE  Pending' = Pending /\ UNCHANGED <<hand, closed, held, lost, setup, bridge, batch, drawn>>
  BY DEF FlushPointer, Type, CloseController, BuildController, Pending, clientVars
-----------------------------------------------------------------------------
(* Clicks.                                                                 *)

LEMMA AimedTakes ==
  ASSUME TypeOK, InLine, Aimed, UNCHANGED lost, NEW e, Takes(e),
         e.kind = "pointer_move" => pc' = "moves" /\ want' = e.arg
  PROVE  Aimed'
<1> SUFFICES ASSUME ~lost, NEW p \in Pending', p.kind = "pressed", ~p.locked
             PROVE  \/ \E f \in Pending' : f.kind = "pointer_move" /\ f.arg = p.aim /\ f.no = p.no - 1
                    \/ hand' = p.no - 1 /\ pc' \in {"moves", "flush"} /\ want' = p.aim
  BY DEF Aimed
<1>1. p \in Pending /\ e.no < p.no /\ hand < e.no
  BY DEF Takes, Before
<1>2. p.no \in Nat /\ e.no \in Nat /\ hand \in Nat
  BY <1>1, PendingAreEvents, EventsNumbered DEF InLine, Takes, TypeOK
<1>3. hand # p.no - 1
  BY <1>1, <1>2
<1>4. PICK f \in Pending : f.kind = "pointer_move" /\ f.arg = p.aim /\ f.no = p.no - 1
  BY <1>1, <1>3 DEF Aimed
<1>5. CASE f = e
  BY <1>4, <1>5 DEF Takes
<1>6. CASE f # e
  BY <1>4, <1>6 DEF Takes
<1>7. QED BY <1>5, <1>6

\* Nothing is taken; what has been joined or carried out stays or is carried out.
LEMMA AimedStays ==
  ASSUME Aimed, lost => lost', ~lost' => Pending' = Pending \cup {e \in Pending' : e.kind # "pressed"},
         UNCHANGED hand,
         pc \in {"moves", "flush"} =>
           \/ pc' \in {"moves", "flush"} /\ UNCHANGED want
           \/ pc' = "get" /\ \A x \in 0..(Extent - 1) : want = x => failed' \/ cursor' = x,
         pc \in Idle => pc' \in Idle /\ (failed => failed') /\ UNCHANGED cursor,
         Line
  PROVE  Aimed'
<1> SUFFICES ASSUME ~lost', NEW p \in Pending', p.kind = "pressed", ~p.locked
             PROVE  \/ \E f \in Pending' : f.kind = "pointer_move" /\ f.arg = p.aim /\ f.no = p.no - 1
                    \/ hand' = p.no - 1 /\ pc' \in {"moves", "flush"} /\ want' = p.aim
                    \/ hand' = p.no - 1 /\ pc' \in Idle /\ (failed' \/ cursor' = p.aim)
  BY DEF Aimed
<1>1. ~lost /\ p \in Pending /\ Pending \subseteq Pending'
  OBVIOUS
<1>2. p.aim \in 0..(Extent - 1)
  BY <1>1, PendingAreEvents DEF Events, EventSet
<1>3. CASE \E f \in Pending : f.kind = "pointer_move" /\ f.arg = p.aim /\ f.no = p.no - 1
  BY <1>1, <1>3
<1>4. CASE hand = p.no - 1 /\ pc \in {"moves", "flush"} /\ want = p.aim
  BY <1>2, <1>4 DEF Idle
<1>5. CASE hand = p.no - 1 /\ pc \in Idle /\ (failed \/ cursor = p.aim)
  BY <1>5
<1>6. QED BY <1>1, <1>3, <1>4, <1>5 DEF Aimed

LEMMA AimedPress ==
  ASSUME TypeOK, InLine, Aimed, NEW b \in Buttons, PressButton(b)
  PROVE  Aimed'
<1>1. PICK e, f \in Events :
        /\ e.kind = "pointer_move" /\ e.no = sent + 1 /\ f.kind = "pressed" /\ f.no = sent + 2
        /\ ~f.locked => e.arg = f.aim
        /\ Sends(<<e, f>>)
  BY PressButtonIs
<1>2. Pending' = Pending \cup {e, f}
  BY <1>1, SendsTwoIs DEF InLine
<1>3. UNCHANGED <<lost, hand, pc, want, failed, cursor>>
  BY <1>1 DEF Sends, threadVars, worldVars
<1> SUFFICES ASSUME ~lost, NEW p \in Pending', p.kind = "pressed", ~p.locked
             PROVE  \/ \E g \in Pending' : g.kind = "pointer_move" /\ g.arg = p.aim /\ g.no = p.no - 1
                    \/ hand = p.no - 1 /\ pc \in {"moves", "flush"} /\ want = p.aim
                    \/ hand = p.no - 1 /\ pc \in Idle /\ (failed \/ cursor = p.aim)
  BY <1>3 DEF Aimed
<1>4. CASE p = f
  <2>1. e.arg = p.aim /\ e.no = p.no - 1
    BY <1>1, <1>4 DEF TypeOK
  <2>2. QED BY <1>1, <1>2, <2>1
<1>5. CASE p # f
  <2>1. p \in Pending
    BY <1>1, <1>2, <1>5
  <2>2. QED BY <1>2, <2>1 DEF Aimed
<1>6. QED BY <1>4, <1>5

LEMMA AimedStep ==
  ASSUME TypeOK, InLine, Aimed, [Next]_vars
  PROVE  Aimed'
<1>1. ASSUME SendsOne PROVE Aimed'
  <2>1. PICK e \in Events : e.no = sent + 1 /\ e.kind # "pressed" /\ Sends(<<e>>)
    BY <1>1, SendsOneEvent
  <2>2. Pending' = Pending \cup {e}
    BY <2>1, SendsOneIs DEF InLine
  <2>3. UNCHANGED <<lost, hand, pc, want, failed, cursor>>
    BY <2>1 DEF Sends, threadVars, worldVars
  <2>4. Pending' = Pending \cup {f \in Pending' : f.kind # "pressed"}
    BY <2>1, <2>2
  <2>5. QED BY <2>3, <2>4, AimedStays DEF InLine, Idle
<1>2. ASSUME CallbackStep PROVE Aimed'
  <2>1. /\ UNCHANGED <<hand, pc, want, failed, cursor>> /\ (lost => lost')
        /\ ~lost' => Pending' = Pending
    BY <1>2, InLineCallback DEF threadVars, worldVars
  <2>2. QED BY <2>1, AimedStays DEF InLine, Idle
<1>3. ASSUME ChannelClosed PROVE Aimed'
  <2>1. /\ UNCHANGED <<hand, pc, want, failed, cursor>> /\ (lost => lost')
        /\ ~lost' => \E e : e.kind = "release_control" /\ Pending' = Pending \cup {e}
    BY <1>3, ChannelClosedIs DEF InLine, threadVars, worldVars
  <2>2. ~lost' => Pending' = Pending \cup {e \in Pending' : e.kind # "pressed"}
    BY <2>1
  <2>3. QED BY <2>1, <2>2, AimedStays DEF InLine, Idle
<1>4. ASSUME StartMoves PROVE Aimed'
  <2>1. PICK e \in Pending : Takes(e) /\ (e.kind = "pointer_move" => want' = e.arg)
    BY <1>4, StartMovesIs
  <2>2. pc' = "moves" /\ UNCHANGED lost
    BY <1>4, StartMovesIs
  <2>3. QED BY <2>1, <2>2, AimedTakes
<1>5. ASSUME StartText PROVE Aimed'
  BY <1>5, StartTextIs, AimedTakes
<1>6. ASSUME Inject PROVE Aimed'
  BY <1>6, InjectIs, AimedTakes
<1>7. ASSUME JoinMoves PROVE Aimed'
  <2>1. pc = "moves" /\ UNCHANGED <<lost, failed, cursor>>
    BY <1>7, JoinMovesIs DEF worldVars
  <2>2. CASE \E e \in Pending : /\ Takes(e) /\ e.kind \in Moves /\ pc' = "moves"
                                /\ e.kind = "pointer_move" => want' = e.arg
    BY <2>1, <2>2, AimedTakes
  <2>3. CASE Pending' = Pending /\ pc' = "flush" /\ UNCHANGED <<hand, want>>
    BY <2>1, <2>3, AimedStays DEF InLine, Idle
  <2>4. QED BY <1>7, <2>2, <2>3, JoinMovesIs
<1>8. ASSUME JoinText PROVE Aimed'
  <2>1. pc = "text" /\ UNCHANGED <<lost, failed, cursor>>
    BY <1>8, JoinTextIs
  <2>2. CASE \E e \in Pending : Takes(e) /\ e.kind = "text"
    BY <2>1, <2>2, AimedTakes
  <2>3. CASE Pending' = Pending /\ UNCHANGED hand
    BY <2>1, <2>3, AimedStays DEF InLine, Idle
  <2>4. QED BY <1>8, <2>2, <2>3, JoinTextIs
<1>9. ASSUME FlushPointer PROVE Aimed'
  <2>1. /\ pc = "flush" /\ pc' = "get" /\ Pending' = Pending /\ UNCHANGED <<hand, lost>>
        /\ failed' = TRUE \/ cursor' = Clamp(want)
    BY <1>9, PerformsIs DEF FlushPointer
  <2>2. \A x \in 0..(Extent - 1) : want = x => failed' \/ cursor' = x
    BY <2>1, ClampIs, SizeAssumption
  <2>3. QED BY <2>1, <2>2, AimedStays DEF InLine, Idle
<1>10. ASSUME Type \/ CloseController \/ BuildController PROVE Aimed'
  <2>1. Pending' = Pending /\ UNCHANGED <<hand, lost>>
    BY <1>10, PerformsIs
  <2>2. CASE Type
    <3>1. pc = "type"
      BY <2>2 DEF Type
    <3>2. QED BY <2>1, <3>1, AimedStays DEF InLine, Idle
  <2>3. CASE CloseController \/ BuildController
    <3>1. pc \in {"start", "get"} /\ pc' \in {"closed", "get", "failed"} /\ UNCHANGED <<failed, cursor>>
      BY <2>3 DEF CloseController, BuildController
    <3>2. QED BY <2>1, <3>1, AimedStays DEF InLine, Idle
  <2>4. QED BY <1>10, <2>2, <2>3
<1>11. ASSUME Ends PROVE Aimed'
  <2>1. Pending' = Pending /\ UNCHANGED <<hand, lost, pc, want, failed, cursor>>
    BY <1>11, EndsIs DEF Pending, threadVars
  <2>2. QED BY <2>1, AimedStays DEF InLine, Idle
<1>12. QED
  BY <1>1, <1>2, <1>3, <1>4, <1>5, <1>6, <1>7, <1>8, <1>9, <1>10, <1>11, NextIs, AimedPress DEF InputStep
-----------------------------------------------------------------------------
(* Buttons.                                                                *)

\* The last event about b, or else the compositor, leaves b as the client has it.
Settled(b) ==
  /\ About(b) = {} => (b \in down <=> b \in Wanted)
  /\ \A e \in About(b) : (\A f \in About(b) : f.no <= e.no) => (e.kind = "pressed" <=> b \in Wanted)

Well ==
  setup.backend = "sway" /\ bridge = "up" /\ (pointer # "gone" \/ pc = "start") /\ ~lost /\ ~failed

LEMMA SettlesIs == Settles <=> (Well => pressed = down /\ \A b \in Buttons : Settled(b))
  BY DEF Settles, Well, Settled

\* Nothing is done about b.
LEMMA SettledStays ==
  ASSUME NEW b \in Buttons, Settled(b), About(b)' = About(b), b \in down' <=> b \in down,
         b \in Wanted' <=> b \in Wanted
  PROVE  Settled(b)'
  BY DEF Settled

\* The client says what it wants of b.
LEMMA SettledSays ==
  ASSUME Line, Numbers, TypeOK, NEW b \in Buttons, NEW e, e.no \in Nat, sent < e.no,
         About(b)' = About(b) \cup {e},
         e.kind = "pressed" <=> b \in Wanted'
  PROVE  Settled(b)'
<1>1. \A f \in About(b) : f.no < e.no /\ f.no \in Nat
  BY PendingAreEvents, EventsNumbered DEF About, Numbers, TypeOK
<1>2. \A f \in About(b)' : (\A g \in About(b)' : g.no <= f.no) => f = e
  BY <1>1
<1>3. About(b)' # {}
  OBVIOUS
<1>4. QED BY <1>2, <1>3 DEF Settled

\* The input thread does what the first event says of b.
LEMMA SettledDoes ==
  ASSUME InLine, NEW b \in Buttons, Settled(b), NEW e \in About(b), Takes(e), About(b)' = About(b) \ {e},
         b \in Wanted' <=> b \in Wanted, b \in down' <=> e.kind = "pressed"
  PROVE  Settled(b)'
<1>1. \A f \in About(b) : f # e => e.no < f.no
  BY DEF Takes, Before, About
<1>2. \A f \in About(b) : f.no \in Nat
  BY PendingAreEvents, EventsNumbered DEF About, InLine
<1>3. CASE About(b)' = {}
  <2>1. \A f \in About(b) : f.no <= e.no
    BY <1>2, <1>3
  <2>2. QED BY <1>3, <2>1 DEF Settled
<1>4. CASE About(b)' # {}
  <2>1. \A f \in About(b)' : (\A g \in About(b)' : g.no <= f.no) => (\A g \in About(b) : g.no <= f.no)
    BY <1>1, <1>2
  <2>2. QED BY <1>4, <2>1 DEF Settled
<1>5. QED BY <1>3, <1>4

\* Steps that touch no event about a button.
LEMMA SettlesStays ==
  ASSUME Settles, Well' => Well /\ UNCHANGED <<pressed, down, closed, held>>,
         Well' => \A e : e.kind \in {"pressed", "released", "release_control"} =>
                           (e \in Pending' <=> e \in Pending)
  PROVE  Settles'
<1> SUFFICES ASSUME Well' PROVE pressed' = down' /\ \A b \in Buttons : Settled(b)'
  BY SettlesIs DEF Settles, Settled, Well
<1>1. Well /\ UNCHANGED <<pressed, down>> /\ Wanted' = Wanted
  BY DEF Wanted
<1>2. \A b : About(b)' = About(b)
  BY DEF About
<1>3. \A b \in Buttons : Settled(b)'
  BY <1>1, <1>2, SettledStays DEF Settles, Well, Settled
<1>4. QED BY <1>1, <1>3 DEF Settles, Well
\* The event e says how the client has the buttons it is about, and no other.
Says(e) ==
  \A b \in Buttons :
    IF e.kind = "release_control" \/ (e.kind \in {"pressed", "released"} /\ e.arg = b)
      THEN e.kind = "pressed" <=> b \in Wanted' ELSE b \in Wanted' <=> b \in Wanted

\* Of the events about buttons, e and no other is added.
Adds(e) ==
  \A f : f.kind \in {"pressed", "released", "release_control"} =>
           (f \in Pending' <=> f \in Pending \cup {e})

\* The client, or the closing channel, says something of some buttons.
LEMMA SettlesSays ==
  ASSUME TypeOK, InLine, Settles, NEW e, e.no \in Nat, sent < e.no, Adds(e),
         UNCHANGED <<setup, bridge, pointer, pc, lost, failed, pressed, down>>, Says(e)
  PROVE  Settles'
<1> SUFFICES ASSUME Well' PROVE pressed' = down' /\ \A b \in Buttons : Settled(b)'
  BY DEF Settles, Settled, Well
<1>1. Well /\ pressed = down /\ \A b \in Buttons : Settled(b)
  BY SettlesIs DEF Well
<1>2. ASSUME NEW b \in Buttons PROVE Settled(b)'
  <2>1. CASE e.kind = "release_control" \/ (e.kind \in {"pressed", "released"} /\ e.arg = b)
    <3>1. About(b)' = About(b) \cup {e}
      BY <2>1 DEF About, Adds
    <3>2. e.kind = "pressed" <=> b \in Wanted'
      BY <2>1 DEF Says
    <3>3. QED BY <3>1, <3>2, SettledSays DEF InLine
  <2>2. CASE ~(e.kind = "release_control" \/ (e.kind \in {"pressed", "released"} /\ e.arg = b))
    <3>1. About(b)' = About(b)
      BY <2>2 DEF About, Adds
    <3>2. b \in Wanted' <=> b \in Wanted
      BY <2>2 DEF Says
    <3>3. b \in down' <=> b \in down
      OBVIOUS
    <3>4. QED BY <1>1, <3>1, <3>2, <3>3, SettledStays
  <2>3. QED BY <2>1, <2>2
<1>3. QED BY <1>1, <1>2

LEMMA SettlesClient ==
  ASSUME TypeOK, InLine, Settles, SendsOne \/ \E b \in Buttons : PressButton(b)
  PROVE  Settles'
<1>1. ASSUME NEW es, Sends(es)
      PROVE  ~closed /\ UNCHANGED <<setup, bridge, pointer, pc, lost, failed, pressed, down, closed>>
  BY <1>1 DEF Sends, threadVars, worldVars
<1>2. CASE MovePointer \/ TypeText
  <2>1. PICK e \in Events : e.kind \in Moves \cup {"text"} /\ e.no = sent + 1 /\ Sends(<<e>>)
    BY <1>2, MovePointerIs, TypeTextIs
  <2>2. Pending' = Pending \cup {e} /\ held' = held
    BY <1>2, <2>1, SendsOneIs, MovePointerIs, TypeTextIs DEF InLine
  <2>3. \A f : f.kind \in {"pressed", "released", "release_control"} => (f \in Pending' <=> f \in Pending)
    BY <2>1, <2>2 DEF Moves
  <2>4. Well' => Well /\ UNCHANGED <<pressed, down, closed, held>>
    BY <1>1, <2>1, <2>2 DEF Well
  <2>5. QED BY <2>3, <2>4, SettlesStays
<1>3. CASE ReleaseControl
  <2>1. PICK e \in Events : e.kind = "release_control" /\ e.no = sent + 1 /\ Sends(<<e>>)
    BY <1>3, ReleaseControlIs
  <2>2. Pending' = Pending \cup {e} /\ held' = {}
    BY <1>3, <2>1, SendsOneIs, ReleaseControlIs DEF InLine
  <2>3. Wanted' = {} /\ e.no \in Nat /\ sent < e.no
    BY <2>1, <2>2, EventsNumbered DEF Wanted, TypeOK
  <2>4. UNCHANGED <<setup, bridge, pointer, pc, lost, failed, pressed, down>>
    BY <1>1, <2>1
  <2>5. Says(e)
    BY <2>1, <2>3 DEF Says
  <2>6. Adds(e)
    BY <2>2 DEF Adds
  <2>7. QED BY <2>3, <2>4, <2>5, <2>6, SettlesSays
<1>4. CASE \E b \in Buttons : ReleaseButton(b)
  <2>1. PICK b \in Buttons : ReleaseButton(b)
    BY <1>4
  <2>2. PICK e \in Events : e.kind = "released" /\ e.arg = b /\ e.no = sent + 1 /\ Sends(<<e>>)
    BY <2>1, ReleaseButtonIs
  <2>3. Pending' = Pending \cup {e} /\ held' = held \ {b}
    BY <2>1, <2>2, SendsOneIs, ReleaseButtonIs DEF InLine
  <2>4. ~closed /\ UNCHANGED <<setup, bridge, pointer, pc, lost, failed, pressed, down, closed>>
    BY <1>1, <2>2
  <2>5. e.no \in Nat /\ sent < e.no
    BY <2>2, EventsNumbered DEF TypeOK
  <2>6. \A c \in Buttons : IF c = b THEN c \notin Wanted' ELSE c \in Wanted' <=> c \in Wanted
    BY <2>3, <2>4 DEF Wanted
  <2>7. Says(e)
    BY <2>2, <2>6 DEF Says
  <2>8. UNCHANGED <<setup, bridge, pointer, pc, lost, failed, pressed, down>>
    BY <2>4
  <2>9. Adds(e)
    BY <2>3 DEF Adds
  <2>10. QED BY <2>5, <2>7, <2>8, <2>9, SettlesSays
<1>5. CASE \E b \in Buttons : PressButton(b)
  <2>1. PICK b \in Buttons : PressButton(b)
    BY <1>5
  <2>2. PICK e, f \in Events : /\ e.kind = "pointer_move" /\ e.no = sent + 1
                               /\ f.kind = "pressed" /\ f.arg = b /\ f.no = sent + 2
                               /\ Sends(<<e, f>>)
    BY <2>1, PressButtonIs
  <2>3. Pending' = Pending \cup {e, f} /\ held = {} /\ held' = {b}
    BY <2>1, <2>2, SendsTwoIs, PressButtonIs DEF InLine
  <2>4. ~closed /\ UNCHANGED <<setup, bridge, pointer, pc, lost, failed, pressed, down, closed>>
    BY <1>1, <2>2
  <2>5. f.no \in Nat /\ sent < f.no
    BY <2>2, EventsNumbered DEF TypeOK
  <2>6. \A c \in Buttons : IF c = b THEN c \in Wanted' ELSE c \in Wanted' <=> c \in Wanted
    BY <2>3, <2>4 DEF Wanted
  <2>7. Says(f)
    BY <2>2, <2>6 DEF Says
  <2>8. UNCHANGED <<setup, bridge, pointer, pc, lost, failed, pressed, down>>
    BY <2>4
  <2>9. Adds(f)
    BY <2>2, <2>3 DEF Adds
  <2>10. QED BY <2>5, <2>7, <2>8, <2>9, SettlesSays
<1>6. QED BY <1>2, <1>3, <1>4, <1>5 DEF SendsOne

LEMMA SettlesInject ==
  ASSUME TypeOK, InLine, Settles, Inject
  PROVE  Settles'
<1>1. PICK e \in Pending :
        /\ Takes(e) /\ e.kind \in {"pressed", "released", "release_control"}
        /\ IF setup.backend = "hyprland" THEN InjectHyprland(e) ELSE InjectSway(e)
  BY InjectIs
<1>2. /\ UNCHANGED <<closed, held, lost, setup, bridge, pointer, pc>> /\ pc = "get"
      /\ Pending' = Pending \ {e}
  BY <1>1, InjectIs DEF Takes
<1> SUFFICES ASSUME Well' PROVE pressed' = down' /\ \A b \in Buttons : Settled(b)'
  BY DEF Settles, Settled, Well
<1>3. InjectSway(e) /\ pointer # "gone" /\ ~failed' /\ ~lost /\ setup.backend = "sway" /\ bridge = "up"
  BY <1>1, <1>2 DEF Well
<1>4. ~failed
  BY <1>3 DEF InjectSway
<1>5. pressed = down /\ \A b \in Buttons : Settled(b)
  BY <1>3, <1>4, SettlesIs DEF Well
<1>6. /\ pressed' = down'
      /\ e.kind = "pressed" => down' = down \cup {e.arg}
      /\ e.kind = "released" => down' = down \ {e.arg}
      /\ e.kind = "release_control" => down' = {}
  BY <1>1, <1>3, <1>5 DEF InjectSway
<1>7. Wanted' = Wanted
  BY <1>2 DEF Wanted
<1>8. ASSUME NEW b \in Buttons PROVE Settled(b)'
  <2>1. CASE e \in About(b)
    <3>1. About(b)' = About(b) \ {e}
      BY <1>2 DEF About
    <3>2. b \in down' <=> e.kind = "pressed"
      BY <1>1, <1>6, <2>1 DEF About
    <3>3. QED BY <1>1, <1>5, <1>7, <2>1, <3>1, <3>2, SettledDoes
  <2>2. CASE e \notin About(b)
    <3>1. About(b)' = About(b)
      BY <1>2, <2>2 DEF About
    <3>2. e.kind # "release_control" /\ e.arg # b
      BY <1>1, <2>2 DEF About
    <3>3. b \in down' <=> b \in down
      BY <1>1, <1>6, <3>2
    <3>4. QED BY <1>5, <1>7, <3>1, <3>3, SettledStays
  <2>3. QED BY <2>1, <2>2
<1>9. QED BY <1>6, <1>8

LEMMA UnbuiltStep ==
  ASSUME TypeOK, InLine, Unbuilt, [Next]_vars
  PROVE  Unbuilt'
<1>1. ASSUME NEW es, Sends(es) PROVE Unbuilt'
  BY <1>1 DEF Sends, threadVars, worldVars, Unbuilt
<1>2. CASE CallbackStep
  BY <1>2 DEF CallbackStep, PutNowait, PutFull, Evict, Reput, threadVars, worldVars, Unbuilt
<1>3. CASE ChannelClosed
  BY <1>3 DEF ChannelClosed, threadVars, worldVars, Unbuilt
<1>4. CASE Ends
  BY <1>4, EndsIs DEF threadVars, Unbuilt
<1>5. CASE InputStep
  <2>1. CASE StartMoves \/ StartText \/ Inject
    BY <2>1, StartMovesIs, StartTextIs, InjectIs DEF Unbuilt
  <2>2. CASE JoinMoves \/ JoinText
    BY <2>2 DEF JoinMoves, JoinText, Unbuilt
  <2>3. CASE FlushPointer \/ Type
    BY <2>3 DEF FlushPointer, Type, Unbuilt
  <2>4. CASE CloseController \/ BuildController
    BY <2>4 DEF CloseController, BuildController, Unbuilt
  <2>5. QED BY <1>5, <2>1, <2>2, <2>3, <2>4 DEF InputStep
<1>6. CASE SendsOne \/ \E b \in Buttons : PressButton(b)
  <2>1. PICK es : Sends(es)
    BY <1>6, SendsOneEvent, PressButtonIs
  <2>2. QED BY <1>1, <2>1
<1>7. QED BY <1>2, <1>3, <1>4, <1>5, <1>6, NextIs

LEMMA SettlesStep ==
  ASSUME TypeOK, InLine, Unbuilt, Settles, [Next]_vars
  PROVE  Settles'
<1> DEFINE Same == \A e : e.kind \in {"pressed", "released", "release_control"} =>
                            (e \in Pending' <=> e \in Pending)
<1>1. ASSUME CallbackStep PROVE Settles'
  <2>1. /\ UNCHANGED <<closed, held, pressed, down, pointer, pc, failed, setup>>
        /\ bridge' = "up" => bridge = "up"
        /\ lost => lost'
        /\ ~lost' => Pending' = Pending
    BY <1>1, InLineCallback DEF clientVars, threadVars, worldVars
  <2>2. Well' => Well /\ UNCHANGED <<pressed, down, closed, held>>
    BY <2>1 DEF Well
  <2>3. Well' => Same
    BY <2>1 DEF Well
  <2>4. QED BY <2>2, <2>3, SettlesStays
<1>2. ASSUME ChannelClosed PROVE Settles'
  <2>1. UNCHANGED <<pressed, down, pointer, pc, failed, setup, bridge>> /\ closed'
    BY <1>2, ChannelClosedIs DEF InLine, threadVars, worldVars
  <2>2. CASE \E e \in Events : e.kind = "release_control" /\ e.no = sent + 1 /\ Pending' = Pending \cup {e}
             /\ UNCHANGED lost
    <3>1. PICK e \in Events : e.kind = "release_control" /\ e.no = sent + 1 /\ Pending' = Pending \cup {e}
      BY <2>2
    <3>2. e.no \in Nat /\ sent < e.no /\ Wanted' = {} /\ UNCHANGED lost
      BY <2>1, <2>2, <3>1, EventsNumbered DEF Wanted, TypeOK
    <3>3. Says(e)
      BY <3>1, <3>2 DEF Says
    <3>4. Adds(e)
      BY <3>1 DEF Adds
    <3>5. QED BY <2>1, <3>2, <3>3, <3>4, SettlesSays
  <2>3. CASE lost'
    BY <2>3 DEF Settles
  <2>4. QED BY <1>2, <2>2, <2>3, ChannelClosedIs DEF InLine
<1>3. ASSUME NEW e, Takes(e), e.kind \in Moves \cup {"text"},
             UNCHANGED <<closed, held, lost, setup, bridge, pressed, down, pointer, failed>>,
             pc # "start", pc' # "start"
      PROVE  Settles'
  <2>1. Same
    BY <1>3 DEF Takes, Moves
  <2>2. QED BY <1>3, <2>1, SettlesStays DEF Well
<1>4. ASSUME StartMoves \/ StartText PROVE Settles'
  <2>1. UNCHANGED <<closed, held, lost, setup, bridge, pressed, down, pointer, failed>>
    BY <1>4, StartMovesIs, StartTextIs DEF worldVars
  <2>0. pc # "start" /\ pc' # "start"
    BY <1>4 DEF StartMoves, StartText, Starts
  <2>2. \E e \in Pending : Takes(e) /\ e.kind \in Moves \cup {"text"}
    BY <1>4, StartMovesIs, StartTextIs
  <2>3. QED BY <1>3, <2>0, <2>1, <2>2
<1>5. ASSUME JoinMoves \/ JoinText PROVE Settles'
  <2>1. UNCHANGED <<closed, held, lost, setup, bridge, pressed, down, pointer, failed>>
    BY <1>5, JoinMovesIs, JoinTextIs DEF worldVars
  <2>0. pc # "start" /\ pc' # "start"
    BY <1>5 DEF JoinMoves, JoinText
  <2>2. (\E e \in Pending : Takes(e) /\ e.kind \in Moves \cup {"text"}) \/ Pending' = Pending
    BY <1>5, JoinMovesIs, JoinTextIs
  <2>3. Pending' = Pending => Settles'
    BY <2>0, <2>1, SettlesStays DEF Well
  <2>4. QED BY <1>3, <2>0, <2>1, <2>2, <2>3
<1>6. ASSUME FlushPointer \/ Type \/ CloseController \/ BuildController PROVE Settles'
  <2>1. Pending' = Pending /\ UNCHANGED <<closed, held, lost, setup, bridge>>
    BY <1>6, PerformsIs
  <2>2. Well' => Well /\ UNCHANGED <<pressed, down, closed, held>>
    <3>1. CASE FlushPointer \/ Type
      BY <2>1, <3>1 DEF FlushPointer, Type, Well
    <3>2. CASE CloseController \/ BuildController
      BY <2>1, <3>2 DEF CloseController, BuildController, Well, Unbuilt
    <3>3. QED BY <1>6, <3>1, <3>2
  <2>3. QED BY <2>1, <2>2, SettlesStays
<1>7. ASSUME Ends PROVE Settles'
  <2>1. Pending' = Pending
    BY <1>7, EndsIs DEF Pending, threadVars
  <2>2. Well' => Well /\ UNCHANGED <<pressed, down, closed, held>>
    BY <1>7, EndsIs DEF Well, Unbuilt, threadVars
  <2>3. QED BY <2>1, <2>2, SettlesStays
<1>8. QED
  BY <1>1, <1>2, <1>4, <1>5, <1>6, <1>7, NextIs, SettlesClient, SettlesInject DEF InputStep
-----------------------------------------------------------------------------
(* Text.                                                                   *)

\* No text event can cross the limit of a batch: an event has one character at
\* most, or no helper joins text.
NoneCrosses == TextChunk <= 1 \/ \A s \in Setups : s.bridge = "webrtc"

\* Only wss_desktop.py joins text.
TypingIs == Typing /\ (pc = "text" => setup.bridge = "wss")

LEMMA TypingStep ==
  ASSUME NoneCrosses, TypeOK, InLine, TypingIs, [Next]_vars
  PROVE  TypingIs'
<1>1. TypeOK /\ SizeAssumption /\ \A e \in Pending : e.kind = "text" => e.arg \in 1..TextChunk
  BY PendingAreEvents, SizeAssumption DEF Events, InLine
<1>2. ASSUME UNCHANGED <<pc, setup, batch, failed, drawn, typed>> PROVE TypingIs'
  BY <1>2 DEF TypingIs, Typing
<1>3. ASSUME SendsOne \/ (\E b \in Buttons : PressButton(b)) PROVE TypingIs'
  <2>1. PICK es : Sends(es)
    BY <1>3, SendsOneEvent, PressButtonIs
  <2>2. QED BY <1>2, <2>1 DEF Sends, threadVars, worldVars
<1>4. ASSUME CallbackStep \/ ChannelClosed \/ Ends PROVE TypingIs'
  <2>1. UNCHANGED <<pc, setup, batch, failed, drawn, typed>>
    BY <1>4, InLineCallback, ChannelClosedIs, EndsIs DEF InLine, threadVars, worldVars
  <2>2. QED BY <1>2, <2>1
<1>5. ASSUME StartMoves \/ JoinMoves \/ Inject \/ CloseController \/ BuildController \/ FlushPointer PROVE TypingIs'
  <2>1. /\ pc \notin {"text", "type"} /\ pc' \notin {"text", "type"}
        /\ UNCHANGED <<setup, drawn, typed>>
    <3>1. CASE StartMoves \/ JoinMoves
      <4>1. pc = "get" \/ pc = "moves"
        BY <3>1 DEF StartMoves, Starts, JoinMoves
      <4>2. QED BY <3>1, <4>1, StartMovesIs, JoinMovesIs DEF worldVars
    <3>2. CASE Inject
      BY <3>2, InjectIs
    <3>3. CASE CloseController \/ BuildController \/ FlushPointer
      BY <3>3 DEF CloseController, BuildController, FlushPointer
    <3>4. QED BY <1>5, <3>1, <3>2, <3>3
  <2>2. failed => failed'
    <3>1. CASE StartMoves \/ JoinMoves
      BY <3>1, StartMovesIs, JoinMovesIs DEF worldVars
    <3>2. CASE Inject
      BY <3>2 DEF Inject, InjectHyprland, InjectSway
    <3>3. CASE CloseController \/ BuildController \/ FlushPointer
      BY <3>3 DEF CloseController, BuildController, FlushPointer
    <3>4. QED BY <1>5, <3>1, <3>2, <3>3
  <2>3. QED BY <2>1, <2>2 DEF TypingIs, Typing
<1>6. ASSUME StartText PROVE TypingIs'
  <2>1. PICK e \in Pending : e.kind = "text" /\ drawn' = drawn + e.arg /\ batch' = e.arg
    BY <1>6, StartTextIs
  <2>2. /\ pc = "get" /\ pc' = IF setup.bridge = "wss" THEN "text" ELSE "type"
        /\ UNCHANGED <<setup, failed, typed>>
    BY <1>6, StartTextIs
  <2>3. e.arg \in Nat /\ e.arg <= TextLimit
    BY <1>1, <2>1, SizeAssumption
  <2>4. QED BY <2>1, <2>2, <2>3 DEF TypingIs, Typing, TypeOK
<1>7. ASSUME JoinText PROVE TypingIs'
  <2>1. pc = "text" /\ UNCHANGED <<setup, failed, typed>> /\ setup.bridge = "wss"
    BY <1>7, JoinTextIs DEF TypingIs
  <2>2. TextChunk <= 1
    BY <2>1 DEF NoneCrosses, TypeOK
  <2>3. CASE \E e \in Pending : /\ e.kind = "text" /\ pc' = "text" /\ ~(batch >= TextLimit)
                                /\ batch' = batch + e.arg /\ drawn' = drawn + e.arg
    <3>1. PICK e \in Pending : /\ e.kind = "text" /\ pc' = "text" /\ ~(batch >= TextLimit)
                               /\ batch' = batch + e.arg /\ drawn' = drawn + e.arg
      BY <2>3
    <3>2. e.arg = 1
      BY <1>1, <2>2, <3>1, SizeAssumption
    <3>3. batch' <= TextLimit /\ pc' = "text"
      BY <3>1, <3>2, SizeAssumption DEF TypeOK
    <3>4. ~failed => drawn' = typed + batch'
      BY <2>1, <3>1, <3>2 DEF TypingIs, Typing, TypeOK
    <3>5. QED BY <2>1, <3>3, <3>4 DEF TypingIs, Typing
  <2>4. CASE pc' = "type" /\ UNCHANGED <<batch, drawn>>
    BY <2>1, <2>4 DEF TypingIs, Typing
  <2>5. QED BY <1>7, <2>3, <2>4, JoinTextIs
<1>8. ASSUME Type PROVE TypingIs'
  <2>1. /\ pc = "type" /\ pc' = "get" /\ UNCHANGED <<drawn, setup>>
        /\ failed' \/ (typed' = typed + Lesser(batch, TextLimit) /\ UNCHANGED failed)
    BY <1>8 DEF Type
  <2>2. Lesser(batch, TextLimit) = batch
    BY <2>1, SizeAssumption DEF TypingIs, Typing, Lesser, TypeOK
  <2>3. QED BY <2>1, <2>2 DEF TypingIs, Typing, TypeOK
<1>9. QED
  BY <1>3, <1>4, <1>5, <1>6, <1>7, <1>8, NextIs DEF InputStep
-----------------------------------------------------------------------------
(* The theorems.                                                           *)

Inv == TypeOK /\ InLine /\ Aimed /\ Unbuilt /\ Settles

LEMMA InvInit == Init => Inv /\ TypingIs
<1> SUFFICES ASSUME Init PROVE Inv /\ TypingIs
  OBVIOUS
<1>1. TypeOK /\ InLine
  BY TypesInit
<1>2. /\ queue = <<>> /\ net = <<>> /\ deferred = NoEvent /\ pc = "start" /\ pointer = "gone"
      /\ held = {} /\ down = {} /\ pressed = {} /\ drawn = 0 /\ typed = 0
  BY DEF Init
<1>3. Pending = {}
  BY <1>2, EmptyHasNone DEF Pending
<1>4. Aimed
  BY <1>3 DEF Aimed
<1>5. Settles
  BY <1>2, <1>3 DEF Settles, About, Wanted
<1>6. TypingIs
  BY <1>2 DEF TypingIs, Typing
<1>7. QED BY <1>1, <1>2, <1>4, <1>5, <1>6 DEF Inv, Unbuilt

LEMMA InvStep == Inv /\ [Next]_vars => Inv'
  BY InLineStep, TypesStep, AimedStep, UnbuiltStep, SettlesStep DEF Inv

LEMMA InvHolds == Spec => []Inv
  BY InvInit, InvStep, PTL DEF Spec

\* Every variable keeps its type, and the queue of events never holds more than
\* its capacity, though the callback appends again after it made room.
THEOREM TypeCorrect == Spec => []TypeOK
<1>1. Inv => TypeOK
  BY DEF Inv
<1>2. QED BY <1>1, InvHolds, PTL

\* Events reach the compositor in the order in which the client sent them and
\* each at most once, whatever the callback dropped and whatever was joined or
\* deferred.
THEOREM InOrder == Spec => InjectsInOrder
<1>1. Inv /\ [Next]_vars => (last' # last => last' > last)
  <2> SUFFICES ASSUME Inv, [Next]_vars, last' # last PROVE last' > last
    OBVIOUS
  <2>1. TypeOK /\ InLine /\ last \in Nat /\ hand \in Nat
    BY DEF Inv, TypeOK
  <2>2. CASE SendsOne \/ (\E b \in Buttons : PressButton(b))
    <3>1. PICK es : Sends(es)
      BY <2>1, <2>2, SendsOneEvent, PressButtonIs
    <3>2. QED BY <3>1 DEF Sends, worldVars
  <2>3. CASE CallbackStep \/ ChannelClosed \/ Ends
    BY <2>1, <2>3, InLineCallback, ChannelClosedIs, EndsIs DEF InLine, worldVars
  <2>4. CASE FlushPointer \/ Type
    BY <2>1, <2>4 DEF FlushPointer, Type, InLine, Numbers
  <2>5. CASE Inject
    <3>1. PICK e \in Pending : Takes(e) /\ last' = e.no
      BY <2>1, <2>5, InjectIs
    <3>2. hand < e.no /\ last <= hand /\ e.no \in Nat
      BY <2>1, <3>1, PendingAreEvents, EventsNumbered DEF Takes, InLine, Numbers
    <3>3. QED BY <2>1, <3>1, <3>2
  <2>6. CASE StartMoves \/ StartText \/ JoinMoves \/ JoinText \/ CloseController
                \/ BuildController
    BY <2>6 DEF StartMoves, StartText, JoinMoves, JoinText, CloseController, BuildController, worldVars
  <2>7. QED BY <2>2, <2>3, <2>4, <2>5, <2>6, NextIs DEF InputStep
<1>2. QED BY <1>1, InvHolds, PTL DEF Spec, InjectsInOrder

\* Unless an event was dropped at a full queue, an injection failed or the
\* pointer was locked, a press takes effect where the client's pointer was when
\* it was sent: joining movements and deferring what stops the joining never
\* move a click.
THEOREM ClicksWhereAimed == Spec => ClickWhereAimed
<1> DEFINE Where == \A e \in Candidates : Clicks(e) /\ ~lost /\ ~failed /\ ~e.locked => cursor = e.aim
<1>1. Inv => Where
  <2> SUFFICES ASSUME Inv, NEW e \in Candidates, Clicks(e), ~lost, ~failed, ~e.locked
               PROVE  cursor = e.aim
    OBVIOUS
  <2>1. TypeOK /\ InLine /\ Aimed /\ Inject /\ e.kind = "pressed" /\ last' = e.no
    BY DEF Inv, Clicks
  <2>2. PICK d \in Pending : Takes(d) /\ last' = d.no
    BY <2>1, InjectIs
  <2>3. pc = "get"
    BY <2>1, InjectIs
  <2>4. e \in Pending
    BY <2>1 DEF Candidates, Pending, Elems, NoEvent
  <2>5. \A f \in Pending : f.no \in Nat
    BY <2>1, PendingAreEvents, EventsNumbered DEF InLine
  <2>6. \A f \in Pending : ~(f.no = e.no - 1)
    BY <2>1, <2>2, <2>5 DEF Takes, Before
  <2>7. QED BY <2>1, <2>3, <2>4, <2>6 DEF Aimed
<1>2. QED BY <1>1, InvHolds, PTL DEF Spec, ClickWhereAimed

\* On Sway, once everything the client sent is injected, euthergate-pointer and
\* the compositor have the buttons down that the client holds, and none when
\* its channel is closed, unless an event was dropped or an injection failed.
THEOREM ButtonsAreReleased == Spec => []ButtonsFollow
<1>1. Inv => ButtonsFollow
  <2> SUFFICES ASSUME Inv, Drained, setup.backend = "sway", ~lost, ~failed
               PROVE  down = Wanted /\ pressed = down
    BY DEF ButtonsFollow, Wanted
  <2>1. Pending = {} /\ bridge = "up" /\ pointer = "up"
    BY EmptyHasNone DEF Drained, Pending
  <2>2. pressed = down /\ \A b \in Buttons : b \in down <=> b \in Wanted
    BY <2>1 DEF Inv, Settles, About
  <2>3. down \subseteq Buttons /\ Wanted \subseteq Buttons
    BY DEF Inv, TypeOK, Wanted
  <2>4. QED BY <2>2, <2>3
<1>2. QED BY <1>1, InvHolds, PTL

\* If no text event can cross the limit of a batch, all the text taken from the
\* queue is typed, unless typing failed.
THEOREM NothingLeftOut == ASSUME NoneCrosses PROVE Spec => []TextComplete
<1>1. Inv /\ TypingIs /\ [Next]_vars => TypingIs'
  BY TypingStep DEF Inv
<1>2. Inv /\ TypingIs => TextComplete
  BY DEF TypingIs, Typing, TextComplete, TypeOK, Inv
<1>3. QED BY <1>1, <1>2, InvInit, InvHolds, PTL DEF Spec
==============================================================================
