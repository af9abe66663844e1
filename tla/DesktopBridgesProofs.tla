------------------------ MODULE DesktopBridgesProofs ------------------------
(***************************************************************************)
(* Proofs about DesktopBridges for any number of requests, viewers and     *)
(* outputs: what a bridge task leaves behind, and that the bridges step by *)
(* step implement DesktopLease.                                            *)
(***************************************************************************)
EXTENDS DesktopBridges, TLAPS

Outs == Outputs \cup {NoOutput}

\* What the requests must keep for the snapshot a bridge takes to be an output.
OutTypes ==
  /\ present \in SUBSET Outputs
  /\ want \in [Requests -> L!Wants]
  /\ target \in [Requests -> Outs]
  /\ selection \in Outs

BridgeInv == TypeOK /\ FilesRemoved /\ HeldWhileCaptured

\* The steps of one bridge task and its surroundings.
BridgeStep(v) ==
  \/ Admit(v) \/ Acquire(v) \/ Start(v) \/ Wake(v) \/ Connect(v) \/ ConnectFails(v)
  \/ Output(v) \/ Sent(v) \/ Message(v) \/ Written(v)
  \/ ClientGone(v) \/ HelperGone(v) \/ ReadError(v)
  \/ Stop(v) \/ KillWaiting(v) \/ Drained(v)
  \/ DropChild(v) \/ DropFiles(v) \/ Release(v)
  \/ MakeSocket(v) \/ HelperHangs(v) \/ HelperExit(v)
  \/ ClientStalls(v) \/ ClientLeaves(v) \/ TcpGivesUp(v)

\* Next, sorted by who moves.
LEMMA NextSides ==
  ASSUME Next
  PROVE  \/ Elsewhere
         \/ \E r \in Requests : RequestStep(r)
         \/ Restart
         \/ \E v \in Viewers : BridgeStep(v)
<1>1. ASSUME NEW v \in Viewers, TaskStep(v) PROVE BridgeStep(v)
  BY <1>1 DEF TaskStep, BridgeStep
<1>2. QED BY <1>1 DEF Next, BridgeStep

\* What TypeOK, FilesRemoved and HeldWhileCaptured say of one record.
Good(b) ==
  /\ b.at \in {"idle", "admitted", "upgrading"} => b.out = NoOutput
  /\ Alive(b) => b.at \in (Running \cup Draining) \ {"waking"}
  /\ b.at \notin Running \cup Draining \cup {"dropFiles"} => ~b.files
  /\ b.transport = "vnc" /\ Captures(b) => b.hold = "taken"

LEMMA GoodIs ==
  BridgeInv <=> bridge \in [Viewers -> Bridge] /\ \A v \in Viewers : Good(bridge[v])
BY DEF BridgeInv, TypeOK, FilesRemoved, HeldWhileCaptured, Good

\* Replacing one good record by another keeps the invariant and changes one
\* place of the mapped state.
LEMMA Replace ==
  ASSUME BridgeInv, NEW v \in Viewers, NEW b \in Bridge, Good(b), Becomes(v, b)
  PROVE  /\ BridgeInv'
         /\ AbstractPcs' = [AbstractPcs EXCEPT ![v] = AbstractPc(b)]
         /\ Captured' = [Captured EXCEPT ![v] = b.out]
         /\ Helpers' = [Helpers EXCEPT ![v] = Captures(b)]
<1>1. bridge \in [Viewers -> Bridge] /\ \A w \in Viewers : Good(bridge[w])
  BY GoodIs
<1>2. bridge' = [bridge EXCEPT ![v] = b]
  BY DEF Becomes
<1>3. bridge' \in [Viewers -> Bridge] /\ \A w \in Viewers : Good(bridge'[w])
  BY <1>1, <1>2
<1>4. BridgeInv'
  BY <1>3 DEF BridgeInv, TypeOK, FilesRemoved, HeldWhileCaptured, Good
<1>5. AbstractPcs' = [w \in Viewers |-> AbstractPc(bridge'[w])]
      /\ Captured' = [w \in Viewers |-> bridge'[w].out]
      /\ Helpers' = [w \in Viewers |-> Captures(bridge'[w])]
  BY DEF AbstractPcs, Captured, Helpers, AbstractPc, Captures, Alive
<1>6. QED
  BY <1>1, <1>2, <1>4, <1>5 DEF AbstractPcs, Captured, Helpers

\* At and Leave change what they name.
LEMMA AtIs ==
  ASSUME bridge \in [Viewers -> Bridge], NEW v \in Viewers, NEW pc \in Pcs,
         NEW b \in {At(v, pc), Leave(v, pc)}
  PROVE  /\ b \in Bridge
         /\ b.at = pc
         /\ b.transport = bridge[v].transport /\ b.out = bridge[v].out
         /\ b.child = bridge[v].child /\ b.files = bridge[v].files /\ b.hold = bridge[v].hold
<1>1. bridge[v] \in Bridge
  OBVIOUS
<1>2. CASE b = At(v, pc)
  BY <1>1, <1>2 DEF At, Bridge
<1>3. CASE b = Leave(v, pc)
  BY <1>1, <1>3 DEF Leave, At, Bridge
<1>4. QED BY <1>2, <1>3
-----------------------------------------------------------------------------
(* Each step of a task keeps BridgeInv and is a step of DesktopLease.      *)

LStep == BridgeInv' /\ (L!Next \/ UNCHANGED L!vars)

LFrame == UNCHANGED leaseVars

\* A replaced record that maps to the same place is a stutter.
LEMMA Stutter ==
  ASSUME BridgeInv, NEW v \in Viewers, NEW b \in Bridge, Good(b), Becomes(v, b), LFrame,
         AbstractPc(b) = AbstractPc(bridge[v]), b.out = bridge[v].out,
         Captures(b) <=> Captures(bridge[v])
  PROVE  LStep
<1>0. /\ bridge \in [Viewers -> Bridge]
      /\ AbstractPcs' = [AbstractPcs EXCEPT ![v] = AbstractPc(b)]
      /\ Captured' = [Captured EXCEPT ![v] = b.out]
  BY Replace, GoodIs
<1>1. AbstractPcs' = AbstractPcs /\ Captured' = Captured
  <2>1. AbstractPcs' = AbstractPcs
    <3> DEFINE old == AbstractPc(bridge[v])
    <3>1. AbstractPcs' = [AbstractPcs EXCEPT ![v] = old] /\ AbstractPcs[v] = old
      BY <1>0 DEF AbstractPcs
    <3> HIDE DEF old
    <3>2. QED BY <3>1 DEF AbstractPcs
  <2>2. Captured' = Captured
    BY <1>0 DEF Captured
  <2>3. QED BY <2>1, <2>2
<1>2. Captures(b) = Captures(bridge[v])
  BY DEF Captures, Alive
<1>3. Helpers' = Helpers
  BY <1>2, Replace, Zenon DEF Helpers
<1>4. QED
  BY <1>1, <1>3, Replace
     DEF LStep, LFrame, leaseVars, L!vars, L!managerVars, L!requestVars, L!viewerVars, L!compositorVars

\* A viewer's step of DesktopLease is one of its Next.
LEMMA ViewerStep ==
  ASSUME NEW v \in Viewers,
         \/ L!WsCheck(v) \/ L!BridgeBreak(v) \/ L!BridgeError(v) \/ L!HelperExit(v)
         \/ L!WsAcquire(v) \/ L!BridgeStart(v) \/ L!HelperGone(v) \/ L!BridgeDrain(v)
         \/ L!Release(v)
  PROVE  L!Next
  BY DEF L!Next, L!TeardownStep

\* The four ways in which a task changes its mapped place without the lease.
LEMMA Moves ==
  ASSUME BridgeInv, NEW v \in Viewers, NEW b \in Bridge, Good(b), Becomes(v, b), LFrame,
         \/ /\ AbstractPc(bridge[v]) = "bridging" /\ AbstractPc(b) = "draining"
            /\ b.out = bridge[v].out /\ (Captures(b) <=> Captures(bridge[v]))
         \/ /\ AbstractPc(bridge[v]) = "bridging" /\ AbstractPc(b) = "ending"
            /\ b.out = bridge[v].out /\ ~Captures(b)
         \/ /\ AbstractPc(bridge[v]) = "draining" /\ AbstractPc(b) = "ending"
            /\ b.out = bridge[v].out /\ ~Captures(b)
         \/ /\ AbstractPc(bridge[v]) = AbstractPc(b)
            /\ b.out = bridge[v].out /\ ~Captures(b) /\ Captures(bridge[v])
  PROVE  LStep
<1> USE DEF LFrame, leaseVars, L!managerVars, L!requestVars, L!compositorVars
<1>1. /\ AbstractPcs' = [AbstractPcs EXCEPT ![v] = AbstractPc(b)]
      /\ Captured' = Captured
      /\ BridgeInv'
  BY ZenonT(40), Replace DEF Captured
<1>2. /\ AbstractPcs[v] = AbstractPc(bridge[v])
      /\ Helpers[v] = Captures(bridge[v])
      /\ AbstractPc(b) = AbstractPc(bridge[v]) => AbstractPcs' = AbstractPcs
  BY <1>1 DEF AbstractPcs, Helpers
<1>3. /\ ~Captures(b) => Helpers' = [Helpers EXCEPT ![v] = FALSE]
      /\ (Captures(b) <=> Captures(bridge[v])) => Helpers' = Helpers
  <2>1. Captures(b) \in BOOLEAN /\ Captures(bridge[v]) \in BOOLEAN
    BY DEF Captures, Alive
  <2>2. Helpers' = [Helpers EXCEPT ![v] = Captures(b)]
    BY Replace
  <2>3. Captures(b) = FALSE => Helpers' = [Helpers EXCEPT ![v] = FALSE]
    BY <2>2, Zenon
  <2>4. Captures(b) = Captures(bridge[v]) => Helpers' = Helpers
    BY <2>2, Zenon DEF Helpers
  <2>5. QED BY <2>1, <2>3, <2>4, Zenon
<1>4. CASE AbstractPc(bridge[v]) = "bridging" /\ AbstractPc(b) = "draining"
  <2>1. L!BridgeBreak(v)
    BY <1>1, <1>2, <1>3, <1>4 DEF L!BridgeBreak, L!GotoV
  <2>2. QED BY <1>1, <2>1, ViewerStep DEF LStep
<1>5. CASE AbstractPc(bridge[v]) = "bridging" /\ AbstractPc(b) = "ending"
  <2>1. L!BridgeError(v)
    BY <1>1, <1>2, <1>3, <1>5 DEF L!BridgeError, L!GotoV
  <2>2. QED BY <1>1, <2>1, ViewerStep DEF LStep
<1>6. CASE AbstractPc(bridge[v]) = "draining" /\ AbstractPc(b) = "ending"
  <2>1. L!BridgeDrain(v)
    BY <1>1, <1>2, <1>3, <1>6 DEF L!BridgeDrain, L!GotoV
  <2>2. QED BY <1>1, <2>1, ViewerStep DEF LStep
<1>7. CASE AbstractPc(bridge[v]) = AbstractPc(b)
  <2>1. L!HelperExit(v)
    BY <1>1, <1>2, <1>3, <1>7 DEF L!HelperExit
  <2>2. QED BY <1>1, <2>1, ViewerStep DEF LStep
<1>8. QED BY <1>4, <1>5, <1>6, <1>7

\* A task goes from one await to another with its helper as it is.
Go(v, pc) == LFrame /\ (Becomes(v, At(v, pc)) \/ Becomes(v, Leave(v, pc)))

Awaits == Running \ {"waking"}

LEMMA Walk ==
  ASSUME BridgeInv, NEW v \in Viewers, NEW pc \in Pcs, Go(v, pc),
         \/ {bridge[v].at, pc} \subseteq Awaits \/ {bridge[v].at, pc} \subseteq Draining
         \/ bridge[v].at \in Awaits /\ pc \in Draining
         \/ bridge[v].at \in Draining /\ pc = "dropFiles" /\ ~Alive(bridge[v])
  PROVE  LStep
<1> USE DEF Awaits, Running, Draining, Ending
<1>1. bridge \in [Viewers -> Bridge] /\ Good(bridge[v])
  BY GoodIs
<1>2. PICK b \in {At(v, pc), Leave(v, pc)} : Becomes(v, b) /\ LFrame
  BY DEF Go
<1>3. /\ b \in Bridge /\ b.at = pc /\ b.transport = bridge[v].transport
      /\ b.out = bridge[v].out /\ b.child = bridge[v].child
      /\ b.files = bridge[v].files /\ b.hold = bridge[v].hold
  BY <1>1, <1>2, AtIs
<1>4. Good(b)
  BY <1>1, <1>3 DEF Good, Alive, Captures
<1>5. Captures(b) <=> Captures(bridge[v])
  BY <1>3 DEF Captures, Alive
<1>6. CASE AbstractPc(b) = AbstractPc(bridge[v])
  BY <1>2, <1>3, <1>4, <1>5, <1>6, Stutter
<1>7. CASE AbstractPc(bridge[v]) = "bridging" /\ AbstractPc(b) = "draining"
  BY <1>2, <1>3, <1>4, <1>5, <1>7, Moves
<1>8. CASE AbstractPc(bridge[v]) = "draining" /\ AbstractPc(b) = "ending" /\ ~Captures(b)
  BY <1>2, <1>3, <1>4, <1>8, Moves
<1>9. QED
  BY <1>3, <1>6, <1>7, <1>8 DEF AbstractPc, Captures, Alive

LEMMA WalkSteps ==
  ASSUME BridgeInv, NEW v \in Viewers,
         \/ Connect(v) \/ Sent(v) \/ Message(v) \/ Written(v)
         \/ ClientGone(v) \/ HelperGone(v) \/ ReadError(v) \/ Stop(v) \/ Drained(v)
  PROVE  LStep
<1> USE DEF Go, LFrame, Pcs, Awaits, Running, Draining, Ending
<1>1. CASE Connect(v)
  BY <1>1, Walk DEF Connect
<1>2. CASE Sent(v)
  BY <1>2, Walk DEF Sent
<1>3. CASE Message(v)
  BY <1>3, Walk DEF Message
<1>4. CASE Written(v)
  BY <1>4, Walk DEF Written
<1>5. CASE ClientGone(v)
  BY <1>5, Walk DEF ClientGone
<1>6. CASE HelperGone(v)
  BY <1>6, Walk DEF HelperGone
<1>7. CASE ReadError(v)
  BY <1>7, Walk DEF ReadError
<1>8. CASE Stop(v)
  BY <1>8, Walk DEF Stop
<1>9. CASE Drained(v)
  BY <1>9, Walk DEF Drained
<1>10. QED BY <1>1, <1>2, <1>3, <1>4, <1>5, <1>6, <1>7, <1>8, <1>9

\* The steps of the surroundings, and Output, leave a task where it maps to.
LEMMA SurroundingSteps ==
  ASSUME BridgeInv, NEW v \in Viewers,
         \/ Output(v) \/ MakeSocket(v) \/ HelperHangs(v) \/ HelperExit(v) \/ KillWaiting(v)
         \/ ClientStalls(v) \/ ClientLeaves(v) \/ TcpGivesUp(v)
  PROVE  LStep
<1> USE DEF Pcs, Running, Draining, Ending, LFrame, Bridge
<1>1. bridge \in [Viewers -> Bridge] /\ Good(bridge[v]) /\ bridge[v] \in Bridge
  BY GoodIs
<1>2. CASE Output(v)
  <2> DEFINE b == [At(v, "sending") EXCEPT !.client = IF @ = "silent" THEN "failing" ELSE @]
  <2>1. Becomes(v, b) /\ LFrame /\ bridge[v].at = "relay"
    BY <1>2 DEF Output
  <2>2. b \in Bridge /\ b = [bridge[v] EXCEPT !.at = "sending", !.client = b.client]
    BY ZenonT(40), <1>1 DEF At
  <2>3. Good(b) /\ AbstractPc(b) = AbstractPc(bridge[v]) /\ b.out = bridge[v].out
        /\ (Captures(b) <=> Captures(bridge[v]))
    BY <1>1, <2>1 DEF At, Good, Alive, Captures, AbstractPc
  <2>4. QED BY <2>1, <2>2, <2>3, Stutter
<1>3. CASE MakeSocket(v)
  <2> DEFINE b == [bridge[v] EXCEPT !.files = TRUE]
  <2>1. Becomes(v, b) /\ LFrame /\ Alive(bridge[v])
    BY <1>3 DEF MakeSocket, Alive
  <2>2. b \in Bridge
    BY <1>1
  <2>3. Good(b) /\ AbstractPc(b) = AbstractPc(bridge[v]) /\ b.out = bridge[v].out
        /\ (Captures(b) <=> Captures(bridge[v]))
    BY <1>1, <2>1 DEF Good, Alive, Captures, AbstractPc
  <2>4. QED BY <2>1, <2>2, <2>3, Stutter
<1>4. CASE HelperHangs(v)
  <2> DEFINE b == [bridge[v] EXCEPT !.child = IF @ = "up" THEN "hung" ELSE "up"]
  <2>1. Becomes(v, b) /\ LFrame /\ Alive(bridge[v])
    BY <1>4 DEF HelperHangs
  <2>2. b \in Bridge
    BY SMTT(30), <1>1
  <2>3. Good(b) /\ AbstractPc(b) = AbstractPc(bridge[v]) /\ b.out = bridge[v].out
        /\ (Captures(b) <=> Captures(bridge[v]))
    BY <1>1, <2>1 DEF Good, Alive, Captures, AbstractPc
  <2>4. QED BY <2>1, <2>2, <2>3, Stutter
<1>5. CASE HelperExit(v)
  <2>1. PICK f \in BOOLEAN :
          Becomes(v, [bridge[v] EXCEPT !.child = "gone", !.files = f]) /\ (f => bridge[v].files)
    BY <1>1, <1>5 DEF HelperExit
  <2> DEFINE b == [bridge[v] EXCEPT !.child = "gone", !.files = f]
  <2>2. LFrame /\ Alive(bridge[v])
    BY <1>5 DEF HelperExit
  <2>3. b \in Bridge
    BY <1>1
  <2>4. /\ Good(b) /\ AbstractPc(b) = AbstractPc(bridge[v]) /\ b.out = bridge[v].out
        /\ ~Captures(b) /\ Captures(bridge[v])
    BY <1>1, <2>1, <2>2 DEF Good, Alive, Captures, AbstractPc
  <2>5. QED BY <2>1, <2>2, <2>3, <2>4, Moves
<1>6. CASE KillWaiting(v)
  <2> DEFINE b == [bridge[v] EXCEPT !.child = "gone"]
  <2>1. Becomes(v, b) /\ LFrame /\ Alive(bridge[v]) /\ bridge[v].at = "waiting"
    BY <1>6 DEF KillWaiting
  <2>2. b \in Bridge
    BY <1>1
  <2>3. /\ Good(b) /\ AbstractPc(b) = AbstractPc(bridge[v]) /\ b.out = bridge[v].out
        /\ ~Captures(b) /\ Captures(bridge[v])
    BY <1>1, <2>1 DEF Good, Alive, Captures, AbstractPc
  <2>4. QED BY <2>1, <2>2, <2>3, Moves
<1>7. CASE ClientStalls(v) \/ ClientLeaves(v) \/ TcpGivesUp(v)
  <2>1. PICK c \in {"here", "stalled", "silent", "failing", "left"} :
          Becomes(v, [bridge[v] EXCEPT !.client = c]) /\ LFrame
    BY <1>1, <1>7 DEF ClientStalls, ClientLeaves, TcpGivesUp
  <2> DEFINE b == [bridge[v] EXCEPT !.client = c]
  <2>2. b \in Bridge
    BY <1>1
  <2>3. Good(b) /\ AbstractPc(b) = AbstractPc(bridge[v]) /\ b.out = bridge[v].out
        /\ (Captures(b) <=> Captures(bridge[v]))
    BY <1>1 DEF Good, Alive, Captures, AbstractPc
  <2>4. QED BY <2>1, <2>2, <2>3, Stutter
<1>8. QED BY <1>2, <1>3, <1>4, <1>5, <1>6, <1>7

\* The ways from a wake, a failed connection or an error to the drops.
LEMMA DropSteps ==
  ASSUME BridgeInv, NEW v \in Viewers,
         \/ Wake(v) \/ ConnectFails(v) \/ DropChild(v) \/ DropFiles(v)
  PROVE  LStep
<1> USE DEF Pcs, Running, Draining, Ending, LFrame, Bridge
<1>1. bridge \in [Viewers -> Bridge] /\ Good(bridge[v]) /\ bridge[v] \in Bridge
  BY GoodIs
<1>2. CASE Wake(v) /\ Becomes(v, Leave(v, "dropFiles"))
  <2> DEFINE b == Leave(v, "dropFiles")
  <2>1. /\ b \in Bridge /\ b.at = "dropFiles" /\ b.out = bridge[v].out
        /\ b.child = bridge[v].child
    BY <1>1, AtIs
  <2>2. LFrame /\ bridge[v].at = "waking" /\ ~Alive(b)
    BY <1>1, <1>2, <2>1 DEF Wake, Good, Alive
  <2>3. /\ Good(b) /\ AbstractPc(bridge[v]) = "bridging" /\ AbstractPc(b) = "ending"
        /\ ~Captures(b)
    BY <1>1, <2>1, <2>2 DEF Good, Captures, AbstractPc
  <2>4. QED BY <1>2, <2>1, <2>2, <2>3, Moves
<1>3. CASE Wake(v) /\ ~Becomes(v, Leave(v, "dropFiles"))
  <2> DEFINE b == [At(v, "connecting") EXCEPT !.child = "up"]
  <2>1. Becomes(v, b) /\ LFrame /\ bridge[v].at = "waking"
    BY <1>3 DEF Wake
  <2>2. b = [bridge[v] EXCEPT !.at = "connecting", !.child = "up"] /\ b \in Bridge
    BY <1>1 DEF At
  <2>3. /\ Good(b) /\ AbstractPc(b) = AbstractPc(bridge[v]) /\ b.out = bridge[v].out
        /\ (Captures(b) <=> Captures(bridge[v]))
    BY ZenonT(40), <1>1, <2>1, <2>2 DEF Good, Alive, Captures, AbstractPc
  <2>4. QED BY <2>1, <2>2, <2>3, Stutter
<1>4. CASE ConnectFails(v)
  <2> DEFINE b == [Leave(v, "dropFiles") EXCEPT !.child = "gone", !.files = FALSE]
  <2>1. Becomes(v, b) /\ LFrame /\ bridge[v].at = "connecting"
    BY <1>4 DEF ConnectFails
  <2>2. /\ Leave(v, "dropFiles") \in Bridge /\ Leave(v, "dropFiles").at = "dropFiles"
        /\ Leave(v, "dropFiles").out = bridge[v].out
    BY <1>1, AtIs
  <2>3. b \in Bridge /\ b.at = "dropFiles" /\ b.child = "gone" /\ b.out = bridge[v].out
    BY <2>2
  <2>4. /\ Good(b) /\ AbstractPc(bridge[v]) = "bridging" /\ AbstractPc(b) = "ending"
        /\ ~Captures(b)
    BY <2>1, <2>3 DEF Good, Alive, Captures, AbstractPc
  <2>5. QED BY <2>1, <2>3, <2>4, Moves
<1>5. CASE DropChild(v)
  <2> DEFINE b == [At(v, "dropFiles") EXCEPT !.child = "gone"]
  <2>1. Becomes(v, b) /\ LFrame /\ bridge[v].at = "dropChild"
    BY <1>5 DEF DropChild
  <2>2. /\ At(v, "dropFiles") \in Bridge /\ At(v, "dropFiles").at = "dropFiles"
        /\ At(v, "dropFiles").out = bridge[v].out
    BY <1>1, AtIs
  <2>3. b \in Bridge /\ b.at = "dropFiles" /\ b.child = "gone" /\ b.out = bridge[v].out
    BY <2>2
  <2>4. /\ Good(b) /\ AbstractPc(bridge[v]) = "bridging" /\ AbstractPc(b) = "ending"
        /\ ~Captures(b)
    BY <2>1, <2>3 DEF Good, Alive, Captures, AbstractPc
  <2>5. QED BY <2>1, <2>3, <2>4, Moves
<1>6. CASE DropFiles(v)
  <2> DEFINE b == [At(v, "ending") EXCEPT !.files = FALSE,
                     !.hold = IF @ = "taken" THEN "dropped" ELSE @]
  <2>1. Becomes(v, b) /\ LFrame /\ bridge[v].at = "dropFiles"
    BY <1>6 DEF DropFiles
  <2>2. /\ At(v, "ending") \in Bridge /\ At(v, "ending").at = "ending"
        /\ At(v, "ending").out = bridge[v].out /\ At(v, "ending").child = bridge[v].child
    BY <1>1, AtIs
  <2>3. /\ b \in Bridge /\ b.at = "ending" /\ b.child = bridge[v].child
        /\ b.out = bridge[v].out /\ b.files = FALSE
    BY ZenonT(40), <2>2
  <2>4. /\ ~Alive(bridge[v]) /\ ~Alive(b)
    BY <1>1, <2>1, <2>3 DEF Good, Alive
  <2>5. /\ Good(b) /\ AbstractPc(b) = AbstractPc(bridge[v])
        /\ (Captures(b) <=> Captures(bridge[v]))
    BY <2>1, <2>3, <2>4 DEF Good, Captures, AbstractPc
  <2>6. QED BY <2>1, <2>3, <2>5, Stutter
<1>7. QED BY <1>2, <1>3, <1>4, <1>5, <1>6

\* The requests' part of the lease variables, which no bridge changes.
OthersFrame == UNCHANGED <<active, selection, transition, present, late, rpc, want, target>>

\* The ways in which a task that captures nothing changes its mapped place.
LEMMA LeaseMoves ==
  ASSUME BridgeInv, NEW v \in Viewers, NEW b \in Bridge, Good(b), Becomes(v, b),
         OthersFrame, ~Captures(bridge[v]),
         \/ /\ AbstractPc(bridge[v]) = "idle" /\ AbstractPc(b) = "admitted" /\ active
            /\ b.out = bridge[v].out /\ ~Captures(b) /\ UNCHANGED <<viewer_connected, switches>>
         \/ /\ AbstractPc(bridge[v]) = "admitted" /\ AbstractPc(b) = "idle"
            /\ b.out = bridge[v].out /\ ~Captures(b) /\ UNCHANGED <<viewer_connected, switches>>
         \/ /\ AbstractPc(bridge[v]) = "admitted" /\ AbstractPc(b) = "upgrading"
            /\ b.out = bridge[v].out /\ ~Captures(b)
            /\ ~viewer_connected /\ viewer_connected' = TRUE /\ switches' = 0
         \/ /\ AbstractPc(bridge[v]) = "upgrading" /\ AbstractPc(b) = "ending"
            /\ b.out = bridge[v].out /\ ~Captures(b) /\ UNCHANGED <<viewer_connected, switches>>
         \/ /\ AbstractPc(bridge[v]) = "upgrading" /\ AbstractPc(b) = "bridging"
            /\ selection # NoOutput /\ b.out = selection /\ Captures(b)
            /\ UNCHANGED <<viewer_connected, switches>>
         \/ /\ AbstractPc(bridge[v]) = "ending" /\ AbstractPc(b) = "idle"
            /\ b.out = NoOutput /\ ~Captures(b)
            /\ viewer_connected' = FALSE /\ UNCHANGED switches
  PROVE  LStep
<1> USE DEF OthersFrame, L!managerVars, L!requestVars, L!compositorVars, L!GotoV
<1>1. /\ AbstractPcs' = [AbstractPcs EXCEPT ![v] = AbstractPc(b)]
      /\ Captured' = [Captured EXCEPT ![v] = b.out]
      /\ AbstractPcs[v] = AbstractPc(bridge[v])
      /\ b.out = bridge[v].out => Captured' = Captured
      /\ BridgeInv'
  BY Replace DEF AbstractPcs, Captured
<1>2. /\ Captures(b) => Helpers' = [Helpers EXCEPT ![v] = TRUE]
      /\ ~Captures(b) => Helpers' = Helpers
  <2>1. Captures(b) \in BOOLEAN /\ Captures(bridge[v]) \in BOOLEAN
    BY DEF Captures, Alive
  <2>2. Helpers' = [Helpers EXCEPT ![v] = Captures(b)]
    BY Replace
  <2>3. Captures(b) = TRUE => Helpers' = [Helpers EXCEPT ![v] = TRUE]
    BY <2>2, Zenon
  <2>4. Captures(b) = Captures(bridge[v]) => Helpers' = Helpers
    BY <2>2, Zenon DEF Helpers
  <2>5. QED BY <2>1, <2>3, <2>4, Zenon
<1>3. CASE AbstractPc(bridge[v]) = "idle"
  <2>1. L!WsCheck(v)
    BY <1>1, <1>2, <1>3 DEF L!WsCheck
  <2>2. QED BY <1>1, <2>1, ViewerStep DEF LStep
<1>4. CASE AbstractPc(bridge[v]) = "admitted"
  <2>1. L!WsAcquire(v)
    BY <1>1, <1>2, <1>4 DEF L!WsAcquire
  <2>2. QED BY <1>1, <2>1, ViewerStep DEF LStep
<1>5. CASE AbstractPc(bridge[v]) = "upgrading"
  <2>1. L!BridgeStart(v)
    BY <1>1, <1>2, <1>5 DEF L!BridgeStart
  <2>2. QED BY <1>1, <2>1, ViewerStep DEF LStep
<1>6. CASE AbstractPc(bridge[v]) = "ending"
  <2>1. L!Release(v)
    BY <1>1, <1>2, <1>6 DEF L!Release
  <2>2. QED BY <1>1, <2>1, ViewerStep DEF LStep
<1>7. QED BY <1>3, <1>4, <1>5, <1>6

\* The steps that take or give back the lease, and the snapshot.
LEMMA LeaseSteps ==
  ASSUME BridgeInv, NEW v \in Viewers, selection \in Outs,
         \/ Admit(v) \/ Acquire(v) \/ Start(v) \/ Release(v)
  PROVE  LStep
<1> USE DEF Pcs, Running, Draining, Ending, leaseVars, OthersFrame
<1>1. bridge \in [Viewers -> Bridge] /\ Good(bridge[v]) /\ bridge[v] \in Bridge
  BY GoodIs
<1>2. /\ NoBridge \in Bridge /\ Good(NoBridge) /\ NoBridge.out = NoOutput
      /\ AbstractPc(NoBridge) = "idle" /\ ~Captures(NoBridge)
  BY DEF Bridge, NoBridge, Good, Alive, Captures, AbstractPc
<1>3. CASE Admit(v)
  <2>1. PICK t \in {"webrtc", "vnc"} :
          Becomes(v, [At(v, "admitted") EXCEPT !.transport = t, !.client = "here"])
    BY <1>3 DEF Admit
  <2> DEFINE b == [At(v, "admitted") EXCEPT !.transport = t, !.client = "here"]
  <2>2. bridge[v].at = "idle" /\ ~Captures(bridge[v]) /\ AbstractPc(bridge[v]) = "idle"
    BY <1>1, <1>3 DEF Admit, Good, Captures, AbstractPc
  <2>3. b = [bridge[v] EXCEPT !.at = "admitted", !.transport = t, !.client = "here"] /\ b \in Bridge
    BY ZenonT(40), <1>1 DEF At, Bridge
  <2>4. /\ b.at = "admitted" /\ b.out = bridge[v].out /\ b.child = bridge[v].child
        /\ b.files = bridge[v].files
    <3> HIDE DEF b
    <3>1. \A r \in Bridge : LET c == [r EXCEPT !.at = "admitted", !.transport = t, !.client = "here"]
            IN c.at = "admitted" /\ c.out = r.out /\ c.child = r.child /\ c.files = r.files
      BY DEF Bridge
    <3>2. QED BY <1>1, <2>3, <3>1
  <2>5. Good(b) /\ AbstractPc(b) = "admitted" /\ ~Captures(b)
    <3> HIDE DEF b
    <3>1. QED BY <1>1, <2>2, <2>4 DEF Good, Captures, Alive, AbstractPc
  <2>6. OthersFrame /\ active /\ UNCHANGED <<viewer_connected, switches>>
    BY <1>3 DEF Admit
  <2>7. QED BY <2>1, <2>2, <2>3, <2>4, <2>5, <2>6, LeaseMoves
<1>4. CASE Acquire(v)
  <2>1. /\ bridge[v].at = "admitted" /\ ~Captures(bridge[v]) /\ bridge[v].out = NoOutput
        /\ AbstractPc(bridge[v]) = "admitted" /\ OthersFrame
    BY <1>1, <1>4 DEF Acquire, Good, Captures, AbstractPc
  <2>2. CASE Becomes(v, NoBridge) /\ UNCHANGED <<viewer_connected, switches>>
    BY <1>2, <2>1, <2>2, LeaseMoves
  <2>3. CASE /\ ~viewer_connected /\ viewer_connected' = TRUE /\ switches' = 0
             /\ Becomes(v, At(v, "upgrading"))
    <3> DEFINE b == At(v, "upgrading")
    <3>1. /\ b \in Bridge /\ b.at = "upgrading" /\ b.out = bridge[v].out
          /\ b.child = bridge[v].child /\ b.files = bridge[v].files
      BY <1>1, AtIs
    <3>2. Good(b) /\ AbstractPc(b) = "upgrading" /\ ~Captures(b)
      BY <1>1, <2>1, <3>1 DEF Good, Captures, Alive, AbstractPc
    <3>3. QED BY <2>1, <2>3, <3>1, <3>2, LeaseMoves
  <2>4. QED BY <1>4, <2>2, <2>3 DEF Acquire
<1>5. CASE Start(v)
  <2>1. /\ bridge[v].at = "upgrading" /\ ~Captures(bridge[v]) /\ ~bridge[v].files
        /\ AbstractPc(bridge[v]) = "upgrading"
        /\ OthersFrame /\ UNCHANGED <<viewer_connected, switches>>
    BY <1>1, <1>5 DEF Start, Good, Captures, AbstractPc
  <2>2. CASE Becomes(v, Leave(v, "ending"))
    <3> DEFINE b == Leave(v, "ending")
    <3>1. /\ b \in Bridge /\ b.at = "ending" /\ b.out = bridge[v].out
          /\ b.child = bridge[v].child /\ b.files = bridge[v].files
      BY <1>1, AtIs
    <3>2. Good(b) /\ AbstractPc(b) = "ending" /\ ~Captures(b)
      BY <1>1, <2>1, <3>1 DEF Good, Captures, Alive, AbstractPc
    <3>3. QED BY <2>1, <2>2, <3>1, <3>2, LeaseMoves
  <2>3. CASE selection # NoOutput /\ bridge[v].transport # "vnc" /\ Becomes(v, Spawned(v))
    <3> DEFINE b == Spawned(v)
    <3>1. b = [bridge[v] EXCEPT !.at = "relay", !.out = selection, !.child = "up"] /\ b \in Bridge
      BY ZenonT(40), <1>1 DEF Spawned, At, Outs, Bridge
    <3>2. b.at = "relay" /\ b.out = selection /\ b.child = "up" /\ b.transport # "vnc"
      BY <1>1, <2>3, <3>1 DEF Bridge
    <3>3. Good(b) /\ AbstractPc(b) = "bridging" /\ Captures(b)
      BY <3>2 DEF Good, Captures, Alive, AbstractPc
    <3>4. QED BY <2>1, <2>3, <3>1, <3>2, <3>3, LeaseMoves
  <2>4. CASE selection # NoOutput /\ Becomes(v, Woken(v))
    <3> DEFINE b == Woken(v)
    <3>1. b = [bridge[v] EXCEPT !.at = "waking", !.out = selection, !.hold = "taken"] /\ b \in Bridge
      BY ZenonT(40), <1>1 DEF Woken, At, Outs, Bridge
    <3>2. b.at = "waking" /\ b.out = selection /\ b.child = bridge[v].child /\ b.hold = "taken"
      BY <1>1, <3>1 DEF Bridge
    <3>3. Good(b) /\ AbstractPc(b) = "bridging" /\ Captures(b)
      BY <1>1, <2>1, <3>2 DEF Good, Captures, Alive, AbstractPc
    <3>4. QED BY <2>1, <2>4, <3>1, <3>2, <3>3, LeaseMoves
  <2>5. QED BY <1>5, <2>2, <2>3, <2>4 DEF Start
<1>6. CASE Release(v)
  <2>1. /\ bridge[v].at = "ending" /\ ~Captures(bridge[v]) /\ AbstractPc(bridge[v]) = "ending"
        /\ OthersFrame /\ Becomes(v, NoBridge) /\ viewer_connected' = FALSE /\ UNCHANGED switches
    BY <1>1, <1>6 DEF Release, Good, Captures, AbstractPc
  <2>2. QED BY <1>2, <2>1, LeaseMoves
<1>7. QED BY <1>3, <1>4, <1>5, <1>6
-----------------------------------------------------------------------------
(* The requests.                                                           *)

\* The outputs the requests handle are outputs.
LEMMA OutTypesStep ==
  ASSUME OutTypes, L!Next \/ UNCHANGED L!vars
  PROVE  OutTypes'
<1> USE BridgeAssumption DEF OutTypes, Outs, L!Goto, L!Forget, L!Return,
        L!managerVars, L!requestVars, L!compositorVars
<1>1. L!NoWant \in L!Wants
  BY DEF L!NoWant, L!Wants
<1>2. ASSUME NEW r \in Requests, L!StartRequest(r) PROVE OutTypes'
  BY <1>2 DEF L!StartRequest
<1>3. ASSUME NEW r \in Requests, L!StopRequest(r) \/ L!StartLock(r) \/ L!StartConfigure(r) \/ L!StopLock(r)
      PROVE OutTypes'
  BY <1>3 DEF L!StopRequest, L!StartLock, L!StartConfigure, L!StopLock
<1>4. ASSUME NEW r \in Requests, L!StartChoose(r) PROVE OutTypes'
  <2>1. \A w \in L!Wants : \A o \in L!Candidates(w) : o \in Outputs
    BY DEF L!Candidates, L!Wants
  <2>2. CASE L!Return(r)
    BY <1>1, <1>4, <2>2 DEF L!StartChoose
  <2>3. ASSUME NEW w \in L!Wants, NEW o \in L!Candidates(w), L!Chosen(r, w, o)
        PROVE  OutTypes'
    BY <1>4, <2>1, <2>3 DEF L!StartChoose, L!Chosen
  <2>4. QED BY <1>4, <2>2, <2>3 DEF L!StartChoose
<1>5. ASSUME NEW r \in Requests, L!StartCreate(r) PROVE OutTypes'
  BY <1>1, <1>5 DEF L!StartCreate
<1>6. ASSUME NEW r \in Requests, L!StartUndo(r) \/ L!StopRemove(r) PROVE OutTypes'
  BY <1>1, <1>6 DEF L!StartUndo, L!StopRemove
<1>7. ASSUME NEW r \in Requests, L!StartRelist(r) \/ L!StopList(r) PROVE OutTypes'
  BY <1>1, <1>7 DEF L!StartRelist, L!StopList
<1>8. ASSUME NEW r \in Requests, L!StartStore(r) PROVE OutTypes'
  BY <1>1, <1>8 DEF L!StartStore
<1>9. ASSUME NEW r \in Requests, L!Cancel(r) PROVE OutTypes'
  BY <1>1, <1>9 DEF L!Cancel
<1>10. ASSUME NEW o \in Outputs, L!Hotplug(o) PROVE OutTypes'
  BY <1>10 DEF L!Hotplug
<1>11. CASE L!LateCommand
  BY <1>11 DEF L!LateCommand
<1>12. CASE L!Restart
  BY <1>1, <1>12 DEF L!Restart
<1>13. ASSUME NEW v \in Viewers,
              \/ L!WsCheck(v) \/ L!BridgeBreak(v) \/ L!BridgeError(v) \/ L!HelperExit(v)
              \/ L!TeardownStep(v)
       PROVE OutTypes'
  BY <1>13 DEF L!WsCheck, L!BridgeBreak, L!BridgeError, L!HelperExit, L!TeardownStep,
               L!WsAcquire, L!BridgeStart, L!HelperGone, L!BridgeDrain, L!Release
<1>14. CASE UNCHANGED L!vars
  BY <1>14 DEF L!vars
<1>15. QED
  BY <1>2, <1>3, <1>4, <1>5, <1>6, <1>7, <1>8, <1>9, <1>10, <1>11, <1>12, <1>13, <1>14
     DEF L!Next, L!RequestStep
-----------------------------------------------------------------------------
(* The theorems.                                                           *)

\* A task step, a request step or a restart keeps BridgeInv and is a step of
\* DesktopLease.
LEMMA NextStep ==
  ASSUME BridgeInv, OutTypes, [Next]_vars
  PROVE  BridgeInv' /\ (L!Next \/ UNCHANGED L!vars)
<1>1. selection \in Outs
  BY DEF OutTypes
<1>2. CASE UNCHANGED bridge
  <2>1. BridgeInv' /\ UNCHANGED <<AbstractPcs, Captured, Helpers>>
    BY <1>2 DEF BridgeInv, TypeOK, FilesRemoved, HeldWhileCaptured, Alive, Captures,
       AbstractPcs, AbstractPc, Captured, Helpers
  <2>2. CASE Elsewhere
    BY <2>1, <2>2 DEF Elsewhere, L!Next
  <2>3. ASSUME NEW r \in Requests, RequestStep(r) PROVE L!Next
    BY <2>3 DEF RequestStep, L!Next
  <2>4. CASE UNCHANGED vars
    BY <2>1, <2>4 DEF vars, leaseVars, L!vars, L!managerVars, L!requestVars, L!viewerVars,
       L!compositorVars
  <2>5. CASE Restart
    BY <2>1, <2>5 DEF Restart, L!Next
  <2>6. ASSUME NEW v \in Viewers, BridgeStep(v) PROVE LStep
    BY <1>1, <2>6, WalkSteps, SurroundingSteps, DropSteps, LeaseSteps DEF BridgeStep
  <2>7. QED BY <2>1, <2>2, <2>3, <2>4, <2>5, <2>6, NextSides DEF LStep
<1>3. CASE Restart
  <2>1. NoBridge \in Bridge /\ Good(NoBridge)
    BY DEF Bridge, Pcs, NoBridge, Good, Alive, Captures, Running, Draining
  <2>2. bridge' = [v \in Viewers |-> NoBridge]
    BY <1>3 DEF Restart
  <2>3. bridge' \in [Viewers -> Bridge] /\ \A v \in Viewers : Good(bridge'[v])
    BY <2>1, <2>2
  <2>4. BridgeInv'
    BY <2>3 DEF BridgeInv, TypeOK, FilesRemoved, HeldWhileCaptured, Good
  <2>5. QED BY <1>3, <2>4 DEF Restart, L!Next
<1>4. ASSUME NEW v \in Viewers, BridgeStep(v) PROVE LStep
  BY <1>1, <1>4, WalkSteps, SurroundingSteps, DropSteps, LeaseSteps DEF BridgeStep
<1>5. QED
  BY <1>2, <1>3, <1>4, NextSides DEF LStep, Elsewhere, RequestStep, vars

LEMMA InitStep == Init => BridgeInv /\ OutTypes /\ L!Init
<1> SUFFICES ASSUME Init PROVE BridgeInv /\ OutTypes /\ L!Init
  OBVIOUS
<1>1. NoBridge \in Bridge /\ Good(NoBridge)
  BY DEF Bridge, Pcs, NoBridge, Good, Alive, Captures, Running, Draining
<1>2. BridgeInv
  BY <1>1, GoodIs DEF Init
<1>3. OutTypes
  BY BridgeAssumption DEF Init, L!Init, OutTypes, Outs, L!NoWant, L!Wants
<1>4. QED BY <1>2, <1>3 DEF Init

\* The types, the files and the hold, and that requests keep to the outputs.
LEMMA Invariance == Spec => [](BridgeInv /\ OutTypes)
<1>1. BridgeInv /\ OutTypes /\ [Next]_vars => (BridgeInv /\ OutTypes)'
  BY NextStep, OutTypesStep
<1>2. QED BY InitStep, <1>1, PTL DEF Spec

\* The types of the bridge tasks hold in every reachable state.
THEOREM TypeCorrect == Spec => []TypeOK
<1>1. BridgeInv => TypeOK
  BY DEF BridgeInv
<1>2. QED BY Invariance, <1>1, PTL

\* A bridge that is over has left no socket file, whichever way it went.
THEOREM NoFilesLeft == Spec => []FilesRemoved
<1>1. BridgeInv => FilesRemoved
  BY DEF BridgeInv
<1>2. QED BY Invariance, <1>1, PTL

\* Display idle is inhibited from before the wake until WayVNC is gone.
THEOREM IdleHeld == Spec => []HeldWhileCaptured
<1>1. BridgeInv => HeldWhileCaptured
  BY DEF BridgeInv
<1>2. QED BY Invariance, <1>1, PTL

\* The WebRTC and VNC bridges with all their awaits implement DesktopLease.
THEOREM Implementation == Spec => ImplementsLease
<1>1. Init => L!Init
  BY InitStep
<1>2. BridgeInv /\ OutTypes /\ [Next]_vars => [L!Next]_(L!vars)
  BY NextStep
<1>3. QED BY Invariance, <1>1, <1>2, PTL DEF Spec, ImplementsLease, L!Spec
-----------------------------------------------------------------------------
(* What is proved of DesktopLease holds of the bridges, through the        *)
(* refinement: LP is DesktopLease with its theorems, and its actions are   *)
(* those of L.                                                             *)

LP == INSTANCE DesktopLeaseProofs WITH vpc <- AbstractPcs, cap <- Captured, helper <- Helpers

LEMMA SameStart == L!Init => LP!Init
  BY DEF L!Init, LP!Init, L!NoWant, LP!NoWant

LEMMA SameStep == L!Next \/ UNCHANGED L!vars => LP!Next \/ UNCHANGED LP!vars
<1> USE DEF L!Goto, LP!Goto, L!GotoV, LP!GotoV, L!Return, LP!Return, L!Forget, LP!Forget,
            L!ReturnLocked, LP!ReturnLocked, L!NoWant, LP!NoWant, L!Wants, LP!Wants,
            L!managerVars, LP!managerVars, L!requestVars, LP!requestVars,
            L!viewerVars, LP!viewerVars, L!compositorVars, LP!compositorVars
<1>1. ASSUME NEW r \in Requests PROVE L!RequestStep(r) => LP!RequestStep(r)
  <2>1. L!StartLock(r) => LP!StartLock(r)
    BY DEF L!StartLock, LP!StartLock
  <2>2. L!StartChoose(r) => LP!StartChoose(r)
    BY DEF L!StartChoose, LP!StartChoose, L!Chosen, LP!Chosen, L!Candidates, LP!Candidates,
           L!ById, LP!ById
  <2>3. L!StartCreate(r) => LP!StartCreate(r)
    BY DEF L!StartCreate, LP!StartCreate
  <2>4. L!StartConfigure(r) => LP!StartConfigure(r)
    BY DEF L!StartConfigure, LP!StartConfigure
  <2>5. L!StartUndo(r) => LP!StartUndo(r)
    BY DEF L!StartUndo, LP!StartUndo
  <2>6. L!StartRelist(r) => LP!StartRelist(r)
    BY DEF L!StartRelist, LP!StartRelist, L!ById, LP!ById
  <2>7. L!StartStore(r) => LP!StartStore(r)
    BY DEF L!StartStore, LP!StartStore
  <2>8. L!StopLock(r) => LP!StopLock(r)
    BY DEF L!StopLock, LP!StopLock
  <2>9. L!StopList(r) => LP!StopList(r)
    BY DEF L!StopList, LP!StopList
  <2>10. L!StopRemove(r) => LP!StopRemove(r)
    BY DEF L!StopRemove, LP!StopRemove
  <2>11. QED
    BY <2>1, <2>2, <2>3, <2>4, <2>5, <2>6, <2>7, <2>8, <2>9, <2>10, Zenon
       DEF L!RequestStep, LP!RequestStep
<1>2. ASSUME NEW r \in Requests PROVE L!StartRequest(r) => LP!StartRequest(r)
  BY DEF L!StartRequest, LP!StartRequest
<1>3. ASSUME NEW r \in Requests PROVE L!StopRequest(r) => LP!StopRequest(r)
  BY DEF L!StopRequest, LP!StopRequest
<1>4. ASSUME NEW r \in Requests PROVE L!Cancel(r) => LP!Cancel(r)
  BY DEF L!Cancel, LP!Cancel, L!InTransition, LP!InTransition, L!StartPcs, LP!StartPcs,
         L!StopPcs, LP!StopPcs
<1>5. ASSUME NEW v \in Viewers PROVE L!TeardownStep(v) => LP!TeardownStep(v)
  <2>1. L!WsAcquire(v) => LP!WsAcquire(v)
    BY DEF L!WsAcquire, LP!WsAcquire
  <2>2. L!BridgeStart(v) => LP!BridgeStart(v)
    BY DEF L!BridgeStart, LP!BridgeStart
  <2>3. L!HelperGone(v) => LP!HelperGone(v)
    BY DEF L!HelperGone, LP!HelperGone
  <2>4. L!BridgeDrain(v) => LP!BridgeDrain(v)
    BY DEF L!BridgeDrain, LP!BridgeDrain
  <2>5. L!Release(v) => LP!Release(v)
    BY DEF L!Release, LP!Release
  <2>6. QED BY <2>1, <2>2, <2>3, <2>4, <2>5, Zenon DEF L!TeardownStep, LP!TeardownStep
<1>6. ASSUME NEW v \in Viewers PROVE L!WsCheck(v) => LP!WsCheck(v)
  BY DEF L!WsCheck, LP!WsCheck
<1>7. ASSUME NEW v \in Viewers PROVE L!BridgeBreak(v) => LP!BridgeBreak(v)
  BY DEF L!BridgeBreak, LP!BridgeBreak
<1>8. ASSUME NEW v \in Viewers PROVE L!BridgeError(v) => LP!BridgeError(v)
  BY DEF L!BridgeError, LP!BridgeError
<1>9. ASSUME NEW v \in Viewers PROVE L!HelperExit(v) => LP!HelperExit(v)
  BY DEF L!HelperExit, LP!HelperExit
<1>10. ASSUME NEW o \in Outputs PROVE L!Hotplug(o) => LP!Hotplug(o)
  BY DEF L!Hotplug, LP!Hotplug
<1>11. (L!LateCommand => LP!LateCommand) /\ (L!Restart => LP!Restart)
  BY DEF L!LateCommand, LP!LateCommand, L!Restart, LP!Restart
<1>12. UNCHANGED L!vars => UNCHANGED LP!vars
  BY DEF L!vars, LP!vars
<1> HIDE DEF L!Wants, LP!Wants
<1>13. QED
  BY <1>1, <1>2, <1>3, <1>4, <1>5, <1>6, <1>7, <1>8, <1>9, <1>10, <1>11, <1>12, Zenon
     DEF L!Next, LP!Next

LEMMA LeaseSpec == Spec => LP!Spec
<1>1. Init => LP!Init
  BY InitStep, SameStart
<1>2. BridgeInv /\ OutTypes /\ [Next]_vars => [LP!Next]_(LP!vars)
  BY NextStep, SameStep
<1>3. QED BY Invariance, <1>1, <1>2, PTL DEF Spec, LP!Spec

\* While clients wait for their answers, an active selection of the headless
\* output is backed by the compositor, whatever a bridge is doing.
THEOREM Backed == ASSUME ~Cancels PROVE Spec => []HeadlessBacked
<1>1. LP!Spec => []LP!HeadlessBacked
  BY LP!Backed, BridgeAssumption
<1>2. LP!HeadlessBacked => HeadlessBacked
  BY DEF LP!HeadlessBacked, HeadlessBacked, L!HeadlessBacked
<1>3. QED BY <1>1, <1>2, LeaseSpec, PTL

\* One WebRTC or VNC bridge at a time has the lease, and only that one has a
\* helper that captures; the selected output changes under it at most once, and
\* only then does it capture another one.
THEOREM OneCapture == Spec => [](L!LeaseExclusive /\ L!HelperUnderLease /\ L!BoundedSwitch)
<1>1. LP!Spec => [](LP!LeaseExclusive /\ LP!HelperUnderLease)
  BY LP!OneViewer, BridgeAssumption
<1>2. LP!Spec => []LP!BoundedSwitch
  BY LP!BoundedDrift, BridgeAssumption
<1>3. LP!LeaseExclusive => L!LeaseExclusive
  BY DEF LP!LeaseExclusive, L!LeaseExclusive, LP!Holds, L!Holds
<1>4. LP!HelperUnderLease => L!HelperUnderLease
  BY DEF LP!HelperUnderLease, L!HelperUnderLease, LP!Holds, L!Holds
<1>5. LP!BoundedSwitch => L!BoundedSwitch
  BY DEF LP!BoundedSwitch, L!BoundedSwitch, LP!AtMostOneSwitch, L!AtMostOneSwitch,
         LP!CaptureFollowsSelection, L!CaptureFollowsSelection, LP!Holds, L!Holds
<1>6. QED BY <1>1, <1>2, <1>3, <1>4, <1>5, LeaseSpec, PTL
=============================================================================
