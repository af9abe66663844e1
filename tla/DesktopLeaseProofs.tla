------------------------- MODULE DesktopLeaseProofs -------------------------
(***************************************************************************)
(* Proofs about DesktopLease for any number of requests, viewers and       *)
(* outputs: its types, and that LeaseInv, which joins the lease, the       *)
(* helper, the mutex and the switch invariants, is inductive.              *)
(***************************************************************************)
EXTENDS DesktopLease, TLAPS

USE DEF managerVars, requestVars, viewerVars, compositorVars

\* Types hold in every reachable state.
THEOREM TypeCorrect == Spec => []TypeOK
<1> USE OutputsAssumption, RequestsAssumption DEF TypeOK
<1>1. Init => TypeOK
  <2>1. NoWant \in Wants
    BY DEF Wants
  <2>2. Init => helper \in [Viewers -> BOOLEAN] /\ cap \in [Viewers -> Outputs \cup {NoOutput}]
    BY DEF Init
  <2>3. Init => want \in [Requests -> Wants] /\ target \in [Requests -> Outputs \cup {NoOutput}]
    BY <2>1, Zenon DEF Init
  <2>4. Init => rpc \in [Requests -> Rpcs] /\ vpc \in [Viewers -> Vpcs]
    BY DEF Init, Rpcs, Vpcs
  <2>5. Init => active \in BOOLEAN /\ viewer_connected \in BOOLEAN
    BY Zenon DEF Init
  <2>6. Init => /\ selection \in Outputs \cup {NoOutput}
                /\ transition \in Requests \cup {Free}
                /\ present \in SUBSET Outputs
    BY Zenon DEF Init
  <2>7. Init => late \in SUBSET {"create", "remove"} /\ switches \in Nat
    BY SMT DEF Init
  <2>8. QED BY <2>2, <2>3, <2>4, <2>5, <2>6, <2>7
<1>2. TypeOK /\ [Next]_vars => TypeOK'
  <2> SUFFICES ASSUME TypeOK, [Next]_vars PROVE TypeOK'
    OBVIOUS
  <2> USE DEF Rpcs, StartPcs, StopPcs, Vpcs, Goto, GotoV, Forget, Return
  <2>0. NoWant \in Wants
    BY DEF Wants
  <2>1. ASSUME NEW r \in Requests, StartRequest(r) PROVE TypeOK'
    BY <2>1 DEF StartRequest
  <2>2. ASSUME NEW r \in Requests, StopRequest(r) PROVE TypeOK'
    BY <2>2 DEF StopRequest
  <2>3. ASSUME NEW r \in Requests, StartLock(r) PROVE TypeOK'
    BY <2>3 DEF StartLock
  <2>4. ASSUME NEW r \in Requests, StartChoose(r) PROVE TypeOK'
    <3>1. \A w \in Wants : \A o \in Candidates(w) : o \in Outputs
      BY DEF Candidates, Wants
    <3>2. CASE Return(r)
      BY <2>0, <2>4, <3>2 DEF StartChoose
    <3>3. ASSUME NEW w \in Wants, NEW o \in Candidates(w), Chosen(r, w, o), UNCHANGED transition
          PROVE  TypeOK'
      BY <2>4, <3>1, <3>3 DEF StartChoose, Chosen
    <3>4. QED BY <2>4, <3>2, <3>3 DEF StartChoose
  <2>5. ASSUME NEW r \in Requests, StartCreate(r) PROVE TypeOK'
    BY <2>0, <2>5 DEF StartCreate
  <2>6. ASSUME NEW r \in Requests, StartConfigure(r) PROVE TypeOK'
    BY <2>6 DEF StartConfigure
  <2>7. ASSUME NEW r \in Requests, StartUndo(r) PROVE TypeOK'
    BY <2>0, <2>7 DEF StartUndo
  <2>8. ASSUME NEW r \in Requests, StartRelist(r) PROVE TypeOK'
    BY <2>0, <2>8 DEF StartRelist
  <2>9. ASSUME NEW r \in Requests, StartStore(r) PROVE TypeOK'
    BY <2>0, <2>9 DEF StartStore
  <2>10. ASSUME NEW r \in Requests, StopLock(r) PROVE TypeOK'
    BY <2>10 DEF StopLock
  <2>11. ASSUME NEW r \in Requests, StopList(r) PROVE TypeOK'
    BY <2>0, <2>11 DEF StopList
  <2>12. ASSUME NEW r \in Requests, StopRemove(r) PROVE TypeOK'
    BY <2>0, <2>12 DEF StopRemove
  <2>13. ASSUME NEW r \in Requests, Cancel(r) PROVE TypeOK'
    <3>1. rpc' \in [Requests -> Rpcs] /\ want' \in [Requests -> Wants]
          /\ target' \in [Requests -> Outputs \cup {NoOutput}]
      BY <2>0, <2>13 DEF Cancel
    <3>2. late' \in SUBSET {"create", "remove"}
      BY <2>13 DEF Cancel
    <3>3. transition' \in Requests \cup {Free}
      BY <2>13 DEF Cancel
    <3>4. QED BY <2>13, <3>1, <3>2, <3>3 DEF Cancel
  <2>14. ASSUME NEW v \in Viewers, WsCheck(v) PROVE TypeOK'
    BY <2>14 DEF WsCheck
  <2>15. ASSUME NEW v \in Viewers, WsAcquire(v) PROVE TypeOK'
    <3>1. CASE GotoV(v, "idle") /\ UNCHANGED <<viewer_connected, switches>>
      BY <2>15, <3>1 DEF WsAcquire
    <3>2. CASE GotoV(v, "upgrading") /\ viewer_connected' = TRUE /\ switches' = 0
      BY <2>15, <3>2 DEF WsAcquire
    <3>3. QED BY <2>15, <3>1, <3>2 DEF WsAcquire
  <2>16. ASSUME NEW v \in Viewers, BridgeStart(v) PROVE TypeOK'
    <3>1. helper' \in [Viewers -> BOOLEAN]
      BY <2>16, Zenon DEF BridgeStart
    <3>2. cap' \in [Viewers -> Outputs \cup {NoOutput}]
      BY <2>16, Zenon DEF BridgeStart
    <3>3. vpc' \in [Viewers -> Vpcs]
      BY <2>16 DEF BridgeStart
    <3>4. QED BY <2>16, <3>1, <3>2, <3>3 DEF BridgeStart
  <2>17. ASSUME NEW v \in Viewers, BridgeBreak(v) \/ HelperGone(v) PROVE TypeOK'
    BY <2>17 DEF BridgeBreak, HelperGone
  <2>18. ASSUME NEW v \in Viewers, BridgeError(v) \/ BridgeDrain(v) \/ HelperExit(v) PROVE TypeOK'
    BY <2>18 DEF BridgeError, BridgeDrain, HelperExit
  <2>19. ASSUME NEW v \in Viewers, Release(v) PROVE TypeOK'
    BY <2>19 DEF Release
  <2>20. ASSUME NEW o \in Outputs, Hotplug(o) PROVE TypeOK'
    BY <2>20 DEF Hotplug
  <2>21. CASE LateCommand
    BY <2>21 DEF LateCommand
  <2>22. CASE Restart
    BY <2>0, <2>22 DEF Restart
  <2>23. CASE UNCHANGED vars
    BY <2>23 DEF vars
  <2>24. QED
    BY <2>1, <2>2, <2>3, <2>4, <2>5, <2>6, <2>7, <2>8, <2>9, <2>10, <2>11, <2>12, <2>13,
       <2>14, <2>15, <2>16, <2>17, <2>18, <2>19, <2>20, <2>21, <2>22, <2>23
       DEF Next, RequestStep, TeardownStep
<1>3. QED
  BY <1>1, <1>2, PTL DEF Spec
-----------------------------------------------------------------------------
(* The steps, sorted by the half of the state they touch.                  *)

RequestSide ==
  \/ \E r \in Requests :
       StartRequest(r) \/ StopRequest(r) \/ RequestStep(r) \/ Cancel(r)
  \/ \E o \in Outputs : Hotplug(o)
  \/ LateCommand

ViewerSide ==
  \E v \in Viewers :
    WsCheck(v) \/ BridgeBreak(v) \/ BridgeError(v) \/ HelperExit(v) \/ TeardownStep(v)

\* Next is the steps of the two sides and Restart.
LEMMA NextSides == Next => RequestSide \/ ViewerSide \/ Restart
  BY DEF Next, RequestSide, ViewerSide

\* The transactions of start and stop leave the lease and the bridges alone.
LEMMA RequestFrame == RequestSide => UNCHANGED <<viewer_connected, vpc, cap, helper>>
  BY DEF RequestSide, RequestStep, StartRequest, StopRequest, StartLock, StartChoose, StartCreate,
         StartConfigure, StartUndo, StartRelist, StartStore, StopLock, StopList, StopRemove,
         Cancel, Hotplug, LateCommand

\* The lease and the bridges leave the transactions and what they decide alone.
LEMMA ViewerFrame == ViewerSide => UNCHANGED <<active, selection, transition, rpc, want, target>>
  BY DEF ViewerSide, TeardownStep, WsCheck, WsAcquire, BridgeStart, BridgeBreak, HelperGone,
         BridgeError, BridgeDrain, Release, HelperExit

LeaseInv == LeaseExclusive /\ HelperUnderLease

\* The lease flag, its one holder and the helper change together.
LEMMA LeaseStep == TypeOK /\ LeaseInv /\ [Next]_vars => LeaseInv'
<1> SUFFICES ASSUME TypeOK, LeaseInv, [Next]_vars PROVE LeaseInv'
  OBVIOUS
<1> USE DEF LeaseInv, LeaseExclusive, HelperUnderLease, Holds
<1>1. CASE RequestSide \/ UNCHANGED vars
  BY <1>1, RequestFrame DEF vars
<1>2. CASE ViewerSide
  <2> USE DEF TypeOK, GotoV
  <2>1. ASSUME NEW v \in Viewers, WsCheck(v) PROVE LeaseInv'
    BY <2>1 DEF WsCheck
  <2>2. ASSUME NEW v \in Viewers, WsAcquire(v) PROVE LeaseInv'
    BY <2>2 DEF WsAcquire
  <2>3. ASSUME NEW v \in Viewers, BridgeStart(v) PROVE LeaseInv'
    BY <2>3 DEF BridgeStart
  <2>4. ASSUME NEW v \in Viewers, BridgeBreak(v) \/ HelperGone(v) PROVE LeaseInv'
    BY <2>4 DEF BridgeBreak, HelperGone
  <2>5. ASSUME NEW v \in Viewers, BridgeError(v) \/ BridgeDrain(v) PROVE LeaseInv'
    BY <2>5 DEF BridgeError, BridgeDrain
  <2>6. ASSUME NEW v \in Viewers, HelperExit(v) PROVE LeaseInv'
    BY <2>6 DEF HelperExit
  <2>7. ASSUME NEW v \in Viewers, Release(v) PROVE LeaseInv'
    BY <2>7 DEF Release
  <2>8. QED
    BY <1>2, <2>1, <2>2, <2>3, <2>4, <2>5, <2>6, <2>7 DEF ViewerSide, TeardownStep
<1>3. CASE Restart
  BY <1>3 DEF Restart
<1>4. QED
  BY <1>1, <1>2, <1>3, NextSides

\* One viewer at a time: the flag is set exactly while one viewer holds the
\* guard, and a capture helper runs only under it.
THEOREM OneViewer == Spec => [](LeaseExclusive /\ HelperUnderLease)
<1>1. Init => LeaseInv
  BY DEF Init, LeaseInv, LeaseExclusive, HelperUnderLease, Holds
<1>2. QED
  BY <1>1, LeaseStep, TypeCorrect, PTL DEF Spec, LeaseInv

\* At most one start or stop is between its lock and its return.
THEOREM OneTransition == Spec => []TransitionExclusive
<1> USE DEF TransitionExclusive, InTransition, StartPcs, StopPcs
<1>1. Init => TransitionExclusive
  BY RequestsAssumption DEF Init
<1>2. TypeOK /\ TransitionExclusive /\ [Next]_vars => TransitionExclusive'
  <2> SUFFICES ASSUME TypeOK, TransitionExclusive, [Next]_vars PROVE TransitionExclusive'
    OBVIOUS
  <2>1. CASE RequestSide
    <3> USE RequestsAssumption DEF TypeOK, Goto, Forget, Return
    <3>1. ASSUME NEW r \in Requests, StartRequest(r) PROVE TransitionExclusive'
      BY <3>1 DEF StartRequest
    <3>2. ASSUME NEW r \in Requests, StopRequest(r) PROVE TransitionExclusive'
      BY <3>2 DEF StopRequest
    <3>3. ASSUME NEW r \in Requests, StartLock(r) \/ StopLock(r) PROVE TransitionExclusive'
      BY <3>3 DEF StartLock, StopLock
    <3>4. ASSUME NEW r \in Requests, StartChoose(r) \/ StartCreate(r) PROVE TransitionExclusive'
      BY <3>4 DEF StartChoose, Chosen, StartCreate
    <3>5. ASSUME NEW r \in Requests, StartConfigure(r) \/ StartUndo(r) PROVE TransitionExclusive'
      BY <3>5 DEF StartConfigure, StartUndo
    <3>6. ASSUME NEW r \in Requests, StartRelist(r) \/ StartStore(r) PROVE TransitionExclusive'
      BY <3>6 DEF StartRelist, StartStore
    <3>7. ASSUME NEW r \in Requests, StopList(r) \/ StopRemove(r) PROVE TransitionExclusive'
      BY <3>7 DEF StopList, StopRemove
    <3>8. ASSUME NEW r \in Requests, Cancel(r) PROVE TransitionExclusive'
      BY <3>8 DEF Cancel
    <3>9. CASE LateCommand \/ \E o \in Outputs : Hotplug(o)
      BY <3>9 DEF LateCommand, Hotplug
    <3>10. QED
      BY <2>1, <3>1, <3>2, <3>3, <3>4, <3>5, <3>6, <3>7, <3>8, <3>9 DEF RequestSide, RequestStep
  <2>2. CASE ViewerSide \/ UNCHANGED vars
    BY <2>2, ViewerFrame DEF vars
  <2>3. CASE Restart
    BY <2>3, RequestsAssumption DEF Restart
  <2>4. QED
    BY <2>1, <2>2, <2>3, NextSides
<1>3. QED
  BY <1>1, <1>2, TypeCorrect, PTL DEF Spec
-----------------------------------------------------------------------------
(* How far the selection can drift from what a viewer captures.            *)

\* The request has passed the viewer check of start.
Cleared(r) == rpc[r] \in {"create", "configure", "undo", "relist", "store"}

\* Once a switch has slipped in under a viewer, whatever start is under way has
\* checked again and may only store the selection there already is.
SwitchInv ==
  /\ AtMostOneSwitch
  /\ viewer_connected /\ switches = 1 =>
       \A r \in Requests : Cleared(r) => target[r] = selection

DriftInv == SwitchInv /\ CaptureFollowsSelection

LEMMA DriftStep ==
  TypeOK /\ TransitionExclusive /\ LeaseInv /\ DriftInv /\ [Next]_vars => DriftInv'
<1> SUFFICES ASSUME TypeOK, TransitionExclusive, LeaseInv, DriftInv, [Next]_vars
             PROVE  DriftInv'
  OBVIOUS
<1> USE DEF DriftInv, SwitchInv, AtMostOneSwitch, CaptureFollowsSelection, Cleared
<1>1. CASE RequestSide
  <2> USE DEF TypeOK, Goto, Forget, Return
  <2>1. ASSUME NEW r \in Requests, StartRequest(r) PROVE DriftInv'
    BY <2>1 DEF StartRequest
  <2>2. ASSUME NEW r \in Requests, StopRequest(r) PROVE DriftInv'
    BY <2>2 DEF StopRequest
  <2>3. ASSUME NEW r \in Requests, StartLock(r) \/ StopLock(r) PROVE DriftInv'
    BY <2>3 DEF StartLock, StopLock
  <2>4. ASSUME NEW r \in Requests, StartChoose(r) PROVE DriftInv'
    BY <2>4 DEF StartChoose, Chosen
  <2>5. ASSUME NEW r \in Requests, StartCreate(r) \/ StartConfigure(r) PROVE DriftInv'
    BY <2>5 DEF StartCreate, StartConfigure
  <2>6. ASSUME NEW r \in Requests, StartUndo(r) \/ StartRelist(r) PROVE DriftInv'
    BY <2>6 DEF StartUndo, StartRelist
  <2>7. ASSUME NEW r \in Requests, StartStore(r) PROVE DriftInv'
    <3>1. \A q \in Requests : Cleared(q) => q = r
      BY <2>7 DEF StartStore, TransitionExclusive, InTransition, StartPcs, StopPcs
    <3>2. \A q \in Requests : ~Cleared(q)'
      BY <2>7, <3>1 DEF StartStore
    <3>3. AtMostOneSwitch'
      BY <2>7 DEF StartStore
    <3>4. CaptureFollowsSelection'
      BY <2>7 DEF StartStore, LeaseInv, LeaseExclusive, Holds
    <3>5. QED BY <3>2, <3>3, <3>4
  <2>8. ASSUME NEW r \in Requests, StopList(r) \/ StopRemove(r) PROVE DriftInv'
    BY <2>8 DEF StopList, StopRemove
  <2>9. ASSUME NEW r \in Requests, Cancel(r) PROVE DriftInv'
    BY <2>9 DEF Cancel
  <2>10. CASE LateCommand \/ \E o \in Outputs : Hotplug(o)
    BY <2>10 DEF LateCommand, Hotplug
  <2>11. QED
    BY <1>1, <2>1, <2>2, <2>3, <2>4, <2>5, <2>6, <2>7, <2>8, <2>9, <2>10
       DEF RequestSide, RequestStep
<1>2. CASE ViewerSide
  <2> USE ViewerFrame DEF TypeOK, GotoV
  <2>1. ASSUME NEW v \in Viewers, WsAcquire(v) PROVE DriftInv'
    BY <1>2, <2>1 DEF WsAcquire, LeaseInv, LeaseExclusive, Holds
  <2>2. ASSUME NEW v \in Viewers, BridgeStart(v) PROVE DriftInv'
    BY <1>2, <2>2 DEF BridgeStart
  <2>3. ASSUME NEW v \in Viewers, WsCheck(v) \/ HelperExit(v) PROVE DriftInv'
    BY <1>2, <2>3 DEF WsCheck, HelperExit
  <2>4. ASSUME NEW v \in Viewers, BridgeBreak(v) \/ HelperGone(v) PROVE DriftInv'
    BY <1>2, <2>4 DEF BridgeBreak, HelperGone
  <2>5. ASSUME NEW v \in Viewers, BridgeError(v) \/ BridgeDrain(v) PROVE DriftInv'
    BY <1>2, <2>5 DEF BridgeError, BridgeDrain
  <2>6. ASSUME NEW v \in Viewers, Release(v) PROVE DriftInv'
    BY <1>2, <2>6 DEF Release
  <2>7. QED
    BY <1>2, <2>1, <2>2, <2>3, <2>4, <2>5, <2>6 DEF ViewerSide, TeardownStep
<1>3. CASE Restart \/ UNCHANGED vars
  BY <1>3 DEF Restart, vars
<1>4. QED
  BY <1>1, <1>2, <1>3, NextSides

\* At most one output switch slips in under a connected viewer, and a viewer
\* captures another output than the selected one only after it.
THEOREM BoundedDrift == Spec => []BoundedSwitch
<1>1. Init => DriftInv
  BY DEF Init, DriftInv, SwitchInv, AtMostOneSwitch, CaptureFollowsSelection, Cleared
<1>2. Init => LeaseInv
  BY DEF Init, LeaseInv, LeaseExclusive, HelperUnderLease, Holds
<1>3. DriftInv => BoundedSwitch
  BY DEF DriftInv, SwitchInv, BoundedSwitch
<1>4. QED
  BY <1>1, <1>2, <1>3, LeaseStep, DriftStep, TypeCorrect, OneTransition, PTL DEF Spec
-----------------------------------------------------------------------------
(* The headless output, when no request is abandoned.                      *)

\* What each place of a transaction knows of the headless output: while it is
\* made, undone or removed it is not the active selection, and a start that is
\* about to select it has seen it.
BackedInv ==
  /\ HeadlessBacked
  /\ late = {}
  /\ \A r \in Requests :
       /\ rpc[r] \in StopPcs => ~active
       /\ rpc[r] \in {"create", "configure", "undo", "relist"} => ~(active /\ selection = Headless)
       /\ rpc[r] = "store" /\ target[r] = Headless => Headless \in present

\* No transaction takes the output from under another, because they exclude each
\* other and no command outlives the one that started it.
LEMMA BackedStep ==
  ASSUME ~Cancels, TypeOK, TransitionExclusive, BackedInv, [Next]_vars
  PROVE  BackedInv'
<1> USE DEF BackedInv, HeadlessBacked, StopPcs
<1>1. CASE RequestSide
  <2> USE DEF TypeOK, Goto, Forget, Return
  <2>1. ASSUME NEW r \in Requests, StartRequest(r) PROVE BackedInv'
    BY <2>1 DEF StartRequest
  <2>2. ASSUME NEW r \in Requests, StopRequest(r) \/ StartLock(r) PROVE BackedInv'
    BY <2>2 DEF StopRequest, StartLock
  <2>3. ASSUME NEW r \in Requests, StartChoose(r) PROVE BackedInv'
    <3>1. \A w \in Wants : \A o \in Candidates(w) : o \in present \/ o = Headless
      BY DEF Candidates
    <3>2. QED BY <2>3, <3>1 DEF StartChoose, Chosen
  <2>4. ASSUME NEW r \in Requests,
               \/ StartCreate(r) \/ StartConfigure(r) \/ StartUndo(r) \/ StartRelist(r)
               \/ StartStore(r) \/ StopList(r) \/ StopRemove(r)
        PROVE  BackedInv'
    <3>1. \A q \in Requests : q # r => ~InTransition(q)
      BY <2>4 DEF TransitionExclusive, InTransition, StartPcs,
                  StartCreate, StartConfigure, StartUndo, StartRelist, StartStore, StopList, StopRemove
    <3> USE <3>1 DEF InTransition, StartPcs
    <3>2. CASE StartCreate(r) \/ StartConfigure(r)
      BY <3>2 DEF StartCreate, StartConfigure
    <3>3. CASE StartUndo(r) \/ StartRelist(r)
      BY <3>3 DEF StartUndo, StartRelist
    <3>4. CASE StartStore(r)
      BY <3>4 DEF StartStore
    <3>5. CASE StopList(r) \/ StopRemove(r)
      BY <3>5 DEF StopList, StopRemove
    <3>6. QED BY <2>4, <3>2, <3>3, <3>4, <3>5
  <2>5. ASSUME NEW r \in Requests, StopLock(r) PROVE BackedInv'
    BY <2>5 DEF StopLock
  <2>6. CASE LateCommand \/ \E o \in Outputs : Hotplug(o)
    BY <2>6 DEF LateCommand, Hotplug
  <2>7. ASSUME NEW r \in Requests PROVE ~Cancel(r)
    BY DEF Cancel
  <2>8. QED
    BY <1>1, <2>1, <2>2, <2>3, <2>4, <2>5, <2>6, <2>7 DEF RequestSide, RequestStep
<1>2. CASE ViewerSide
  <2>1. UNCHANGED <<present, late>>
    BY <1>2 DEF ViewerSide, TeardownStep, WsCheck, WsAcquire, BridgeStart, BridgeBreak, HelperGone,
                BridgeError, BridgeDrain, Release, HelperExit
  <2>2. QED BY <1>2, <2>1, ViewerFrame
<1>3. CASE Restart \/ UNCHANGED vars
  BY <1>3 DEF Restart, vars
<1>4. QED
  BY <1>1, <1>2, <1>3, NextSides

\* As long as clients wait for their answers, no interleaving of any number of
\* starts and stops, with failing commands, leaves the headless output selected,
\* active and removed.
THEOREM Backed == ASSUME ~Cancels PROVE Spec => []HeadlessBacked
<1>1. Init => BackedInv
  BY OutputsAssumption DEF Init, BackedInv, HeadlessBacked, StopPcs
<1>2. TypeOK /\ TransitionExclusive /\ BackedInv /\ [Next]_vars => BackedInv'
  BY BackedStep
<1>3. BackedInv => HeadlessBacked
  BY DEF BackedInv
<1>4. QED
  BY <1>1, <1>2, <1>3, TypeCorrect, OneTransition, PTL DEF Spec
-----------------------------------------------------------------------------
(* DesktopLease implements SingleViewer.                                   *)

\* While the lease invariant holds, the one holder is the abstract holder.
LEMMA HolderIs ==
  ASSUME LeaseExclusive, NEW v \in Viewers, Holds(v)
  PROVE  LeaseHolder = v
BY DEF LeaseExclusive, LeaseHolder

\* The phase, case by case.
PhaseLaw ==
  /\ ~viewer_connected => LeasePhase = "free"
  /\ viewer_connected /\ (\E v \in Viewers : helper[v]) => LeasePhase = "capturing"
  /\ viewer_connected /\ (\A v \in Viewers : ~helper[v]) /\ (\E v \in Viewers : vpc[v] = "upgrading")
       => LeasePhase = "held"
  /\ viewer_connected /\ (\A v \in Viewers : ~helper[v] /\ vpc[v] # "upgrading")
       => LeasePhase = "done"

\* The case analysis holds of the current state and of the next.
LEMMA PhaseIs == PhaseLaw /\ PhaseLaw'
BY DEF PhaseLaw, LeasePhase

LEMMA LeaseRefinementStep ==
  TypeOK /\ LeaseInv /\ LeaseInv' /\ [Next]_vars => [Lease!Next]_(Lease!vars)
<1> SUFFICES ASSUME TypeOK, LeaseInv, LeaseInv', [Next]_vars
             PROVE  [Lease!Next]_(Lease!vars)
  OBVIOUS
<1> USE DEF LeaseInv
<1>1. CASE RequestSide \/ UNCHANGED vars
  <2>1. UNCHANGED <<viewer_connected, vpc, helper>>
    BY <1>1, RequestFrame DEF vars
  <2>2. UNCHANGED LeaseHolder /\ UNCHANGED LeasePhase
    BY <2>1 DEF LeaseHolder, LeasePhase, Holds
  <2>3. QED BY <2>2 DEF Lease!vars
<1>2. CASE ViewerSide
  <2> USE DEF TypeOK, GotoV, Holds, HelperUnderLease, LeaseExclusive
  <2>1. PICK v \in Viewers :
          \/ WsCheck(v) \/ WsAcquire(v) \/ BridgeStart(v) \/ BridgeBreak(v) \/ HelperGone(v)
          \/ BridgeError(v) \/ BridgeDrain(v) \/ HelperExit(v) \/ Release(v)
    BY <1>2 DEF ViewerSide, TeardownStep
  <2>2. CASE WsCheck(v) \/ (WsAcquire(v) /\ vpc'[v] = "idle")
    <3>1. /\ UNCHANGED <<viewer_connected, helper>>
          /\ \A w \in Viewers : Holds(w)' <=> Holds(w)
          /\ \A w \in Viewers : vpc'[w] = "upgrading" <=> vpc[w] = "upgrading"
      BY <2>2 DEF WsCheck, WsAcquire
    <3>2. UNCHANGED LeaseHolder /\ UNCHANGED LeasePhase
      BY <3>1 DEF LeaseHolder, LeasePhase
    <3>3. QED BY <3>2 DEF Lease!vars
  <2>3. CASE WsAcquire(v) /\ vpc'[v] # "idle"
    <3>1. LeasePhase = "free" /\ LeasePhase' = "held"
      BY <2>3, PhaseIs DEF PhaseLaw, WsAcquire
    <3>2. LeaseHolder' = v
      BY <2>3, HolderIs DEF WsAcquire, LeaseHolder
    <3>3. QED BY <3>1, <3>2 DEF Lease!Next, Lease!Acquire
  <2>4. CASE BridgeStart(v) \/ BridgeBreak(v) \/ HelperGone(v) \/ BridgeError(v)
             \/ BridgeDrain(v) \/ HelperExit(v)
    <3>1. Holds(v) /\ Holds(v)' /\ viewer_connected /\ viewer_connected'
      BY <2>4 DEF BridgeStart, BridgeBreak, HelperGone, BridgeError, BridgeDrain, HelperExit
    <3>2. LeaseHolder = v /\ LeaseHolder' = v
      BY <3>1 DEF LeaseHolder
    <3>3. CASE BridgeStart(v)
      <4>1. LeasePhase = "held" /\ LeasePhase' \in {"capturing", "done"}
        BY <2>4, <3>1, <3>3, PhaseIs DEF PhaseLaw, BridgeStart
      <4>2. QED BY <3>2, <4>1 DEF Lease!Next, Lease!Spawn, Lease!Finish
    <3>4. CASE ~BridgeStart(v)
      <4>1. \A w \in Viewers : vpc[w] # "upgrading" /\ vpc'[w] # "upgrading"
        BY <2>4, <3>1, <3>4 DEF BridgeBreak, HelperGone, BridgeError, BridgeDrain, HelperExit
      <4>2. \A w \in Viewers : helper'[w] => helper[w]
        BY <2>4, <3>4 DEF BridgeBreak, HelperGone, BridgeError, BridgeDrain, HelperExit
      <4>3. \/ LeasePhase = "capturing" /\ LeasePhase' \in {"capturing", "done"}
            \/ LeasePhase = "done" /\ LeasePhase' = "done"
        BY <3>1, <4>1, <4>2, PhaseIs DEF PhaseLaw
      <4>4. QED BY <3>2, <4>3 DEF Lease!Next, Lease!Finish, Lease!vars
    <3>5. QED BY <3>3, <3>4
  <2>5. CASE Release(v)
    <3>1. LeasePhase = "done" /\ LeasePhase' = "free"
      BY <2>5, PhaseIs DEF PhaseLaw, Release
    <3>2. LeaseHolder' = Free
      BY <2>5 DEF Release, LeaseHolder
    <3>3. QED BY <3>1, <3>2 DEF Lease!Next, Lease!Release
  <2>6. QED BY <2>1, <2>2, <2>3, <2>4, <2>5
<1>3. CASE Restart
  <2>1. LeasePhase' = "free" /\ LeaseHolder' = Free
    BY <1>3, PhaseIs DEF PhaseLaw, Restart, LeaseHolder, Holds
  <2>2. QED BY <2>1 DEF Lease!Next, Lease!Crash
<1>4. QED
  BY <1>1, <1>2, <1>3, NextSides

\* The handlers, guard and bridge tasks together implement the abstract lease.
THEOREM Refinement == Spec => ImplementsSingleViewer
<1>1. Init => Lease!Init
  BY PhaseIs DEF PhaseLaw, Init, Lease!Init, LeaseHolder, Holds
<1>2. Init => LeaseInv
  BY DEF Init, LeaseInv, LeaseExclusive, HelperUnderLease, Holds
<1>3. QED
  BY <1>1, <1>2, LeaseStep, LeaseRefinementStep, TypeCorrect, PTL
     DEF Spec, Lease!Spec, ImplementsSingleViewer
=============================================================================
