------------------------- MODULE BrowserWindowsProofs -------------------------
(***************************************************************************)
(* Proofs about BrowserWindows, for any number of requests and windows and *)
(* any limit.                                                              *)
(***************************************************************************)
EXTENDS BrowserWindows, FiniteSetTheorems, TLAPS

-----------------------------------------------------------------------------
(* Least elements of finite sets, for FreeWorkspace and First.             *)

\* A strict inclusion of finite sets has no infinite descent.
LEMMA LeastSubset ==
  ASSUME NEW S, IsFiniteSet(S), NEW T \in SUBSET (SUBSET S), T # {}
  PROVE  \E x \in T : \A y \in T : ~(y \subseteq x /\ y # x)
<1> DEFINE R == StrictSubsetOrdering(S)
<1>1. IsWellFoundedOn(R, SUBSET S)
  BY FS_StrictSubsetOrderingWellFounded, FS_FiniteSubsetsOfFinite
<1>2. PICK x \in T : \A y \in T : <<y, x>> \notin R
  <2> HIDE DEF R
  <2> QED BY <1>1, WFMin
<1>3. \A y \in T : y \in SUBSET S /\ x \in SUBSET S
  OBVIOUS
<1>4. QED BY <1>2, <1>3 DEF StrictSubsetOrdering

\* A finite set of integers that is not empty has a maximum.
LEMMA MaxIs ==
  ASSUME NEW A, IsFiniteSet(A), A \subseteq Int, A # {}
  PROVE  Max(A) \in A /\ \A x \in A : x <= Max(A)
<1> DEFINE Above(x) == {y \in A : y > x}
           T == {Above(x) : x \in A}
<1>1. PICK t \in T : \A u \in T : ~(u \subseteq t /\ u # t)
  <2>1. T \in SUBSET (SUBSET A)
    OBVIOUS
  <2>2. T # {}
    OBVIOUS
  <2>3. IsFiniteSet(A)
    OBVIOUS
  <2> HIDE DEF T
  <2>4. \E t \in T : \A u \in T : ~(u \subseteq t /\ u # t)
    BY ONLY <2>1, <2>2, <2>3, LeastSubset
  <2> QED BY <2>4
<1>2. PICK x \in A : t = Above(x)
  OBVIOUS
<1>3. ASSUME NEW y \in A, y > x PROVE FALSE
  <2>0. \A z \in A : z \in Int
    OBVIOUS
  <2>1. Above(y) \subseteq Above(x)
    <3>1. ASSUME NEW z \in A, z > y PROVE z > x
      BY <1>3, <2>0, <3>1
    <3>2. QED BY <3>1
  <2>2. y \in Above(x) /\ y \notin Above(y)
    BY <1>3, <2>0
  <2>3. Above(y) \in T
    OBVIOUS
  <2>4. QED BY <1>1, <1>2, <2>1, <2>2, <2>3
<1>4. \A y \in A : x >= y
  BY <1>3
<1>5. QED BY <1>4 DEF Max

LEMMA WindowsFinite == \A ws \in SUBSET Windows : IsFiniteSet(ws)
<1>1. IsFiniteSet(Windows)
  BY NumberAssumption, FS_Interval DEF Windows
<1>2. QED BY <1>1, FS_Subset

\* The order of parse_browser_sessions: by workspace, then by id.
Precedes(v, w) == place[v] < place[w] \/ (place[v] = place[w] /\ v < w)

LEMMA FirstIs ==
  ASSUME NEW ws \in SUBSET Windows, ws # {}, place \in [Windows -> Nat]
  PROVE  First(ws) \in ws
<1> DEFINE Before(w) == {v \in ws : Precedes(v, w)}
           T == {Before(w) : w \in ws}
<1>1. PICK t \in T : \A u \in T : ~(u \subseteq t /\ u # t)
  <2>1. IsFiniteSet(ws)
    BY NumberAssumption, WindowsFinite
  <2>2. T \in SUBSET (SUBSET ws) /\ T # {}
    OBVIOUS
  <2> HIDE DEF T
  <2> QED BY <2>1, <2>2, LeastSubset
<1>2. PICK w \in ws : t = Before(w)
  OBVIOUS
<1>3. \A v \in ws : ~Precedes(v, w)
  <2> SUFFICES ASSUME NEW v \in ws, Precedes(v, w) PROVE FALSE
    OBVIOUS
  <2>0. \A u \in ws : u \in Int /\ place[u] \in Int
    BY DEF Windows
  <2>1. Before(v) \subseteq Before(w)
    BY <2>0 DEF Precedes
  <2>2. v \in Before(w) /\ v \notin Before(v)
    BY DEF Precedes, Windows
  <2>3. Before(v) \in T
    OBVIOUS
  <2>4. QED BY <1>1, <1>2, <2>1, <2>2, <2>3
<1>4. \A v \in ws : place[w] < place[v] \/ (place[w] = place[v] /\ w <= v)
  BY <1>3 DEF Precedes, Windows
<1>5. QED BY <1>4 DEF First

\* A new launch gets a workspace of its own, beyond those of the open windows.
LEMMA FreeWorkspaceIs ==
  ASSUME open \in SUBSET Windows, place \in [Windows -> Nat]
  PROVE  /\ FreeWorkspace \in Nat /\ FreeWorkspace >= Start
         /\ \A w \in open : place[w] < FreeWorkspace
<1> USE NumberAssumption
<1> DEFINE used == {place[w] + 1 : w \in open}
           f == [w \in open |-> place[w] + 1]
<1>1. IsFiniteSet(open)
  BY WindowsFinite
<1>2. IsFiniteSet(used)
  <2>1. f \in Surjection(open, used)
    BY DEF Surjection
  <2> HIDE DEF f, used
  <2> QED BY <1>1, <2>1, FS_Surjection
<1>3. IsFiniteSet({Start} \cup used)
  <2> HIDE DEF used
  <2>1. {Start} \cup used = used \cup {Start}
    OBVIOUS
  <2>2. QED BY <1>2, <2>1, FS_AddElement
<1>4. used \subseteq Nat
  OBVIOUS
<1>5. /\ FreeWorkspace \in {Start} \cup used
      /\ \A x \in {Start} \cup used : x <= FreeWorkspace
  <2>1. {Start} \cup used \subseteq Int /\ {Start} \cup used # {}
    BY <1>4
  <2> HIDE DEF used
  <2>2. FreeWorkspace = Max({Start} \cup used)
    BY DEF FreeWorkspace, used
  <2>3. QED BY <1>3, <2>1, <2>2, MaxIs
<1>6. \A w \in open : place[w] + 1 \in used /\ place[w] \in Nat
  OBVIOUS
<1>7. FreeWorkspace \in Nat
  BY <1>4, <1>5
<1> HIDE DEF used
<1>8. QED BY <1>5, <1>6, <1>7
-----------------------------------------------------------------------------
(* The invariant.                                                          *)

\* Commands of dropped launches that will still ask Firefox for a window.
LeftLaunches == {c \in left : c.at = "exec"}

\* Windows that have been asked for and may yet come.
Coming == Cardinality(opening) + Cardinality(LeftLaunches)

\* What each bound has room for: every window and every command still to run
\* has an id left.
Room ==
  /\ IsFiniteSet(opening) /\ IsFiniteSet(left)
  /\ opened + Cardinality(opening) + Cardinality(left) <= MaxWindows

\* What a request is at tells its kind, and who has the mutex is a launch or a
\* close, and the only one.
Phases ==
  \A r \in Requests :
    /\ req[r].at = "idle" <=> req[r].kind = "none"
    /\ req[r].at \in {"list", "workspace", "exec", "poll", "type", "enter"} => req[r].kind = "launch"
    /\ req[r].at \in {"exists", "kill", "gone"} <=> req[r].kind = "close"
    /\ req[r].kind \in {"launch", "close"} <=> holder = r

\* Ids and numbers are of the past, and a number is of one launch.
Numbers ==
  /\ open \subseteq 1..opened /\ given \subseteq 1..opened
  /\ \A o \in opening : o.no \in 1..launched
  /\ \A o, p \in opening : o.no = p.no => o = p
  /\ \A r \in Requests :
       /\ req[r].at \in {"list", "workspace", "exec"} => req[r].no = 0
       /\ req[r].at \in {"check", "focus", "fullscreen", "type", "enter"} => req[r].window \in 1..opened

\* The window of a launch has not been given to another: those that have been
\* and are still open were there when it looked at the windows first.
Ungiven ==
  \A r \in Requests :
    req[r].kind = "launch" =>
      /\ req[r].at \in {"workspace", "exec", "poll"} => given \cap open \subseteq req[r].known
      /\ req[r].at \in {"check", "focus", "fullscreen", "type", "enter"} => req[r].window \notin given

\* The launch r has asked for its window and no window has come since it looked.
Waits(r) ==
  /\ req[r].at = "poll" /\ open \subseteq req[r].known
  /\ \E o \in opening : o.no = req[r].no

\* Windows that are to come are strays, but for the one of the launch under way;
\* one that this launch may take for its own makes up for it.
ComingAreStrays ==
  /\ Coming <= strays + 1
  /\ Coming <= strays \/ \E r \in Requests : Waits(r)
  /\ \A r \in Requests :
       req[r].at \in {"workspace", "exec"} => open \subseteq req[r].known \/ Coming + 1 <= strays

\* There is room for the window a launch is going to ask for.
LimitKept ==
  /\ Cardinality(open) + Coming <= Limit + strays
  /\ \A r \in Requests :
       req[r].at \in {"workspace", "exec"} => Cardinality(open) + Coming + 1 <= Limit + strays

\* What a launch knows of the windows as long as nothing comes between.
Alone(r) ==
  LET q == req[r]
  IN /\ q.at \in {"workspace", "exec", "poll"} => \A w \in q.known : place[w] < q.workspace
     /\ q.at \in {"workspace", "exec"} => open = q.known
     /\ q.at \in {"exec", "poll"} => current = q.workspace
     /\ q.at = "poll" =>
          \/ open = q.known /\ \A o \in opening : o.no = q.no => o.workspace = q.workspace
          \/ /\ \A o \in opening : o.no # q.no
             /\ \E w \in open \ q.known :
                  open = q.known \cup {w} /\ place[w] = q.workspace /\ opener[w] = q.no
     /\ q.at \in {"check", "focus", "fullscreen", "type", "enter"} =>
          /\ q.window \in open /\ opener[q.window] = q.no
          /\ \A o \in opening : o.no # q.no
          /\ \A w \in open : place[w] = place[q.window] => w = q.window
     /\ q.at \in {"fullscreen", "type", "enter"} => focused = q.window

Undisturbed == \A r \in Requests : holder = r /\ req[r].kind = "launch" /\ ~disturbed => Alone(r)
-----------------------------------------------------------------------------
(* Types.                                                                  *)

LEMMA IdleTyped == Idle \in RequestSet
  BY NumberAssumption DEF Idle, RequestSet, Ats, Windows

LEMMA LeavesTyped ==
  ASSUME TypeOK, NEW r \in Requests, Leaves(r)
  PROVE  /\ req' \in [Requests -> RequestSet] /\ holder' \in Requests \cup {Nobody}
         /\ disturbed' \in BOOLEAN
  BY IdleTyped DEF TypeOK, Leaves

LEMMA GotoTyped ==
  ASSUME TypeOK, NEW r \in Requests, NEW at \in Ats, Goto(r, at)
  PROVE  req' \in [Requests -> RequestSet]
<1>1. req[r] \in RequestSet
  BY DEF TypeOK
<1>2. [req[r] EXCEPT !.at = at] \in RequestSet
  BY <1>1 DEF RequestSet
<1>3. QED BY <1>2 DEF TypeOK, Goto

LEMMA DisturbsTyped ==
  ASSUME TypeOK, Disturbs
  PROVE  disturbed' \in BOOLEAN
  BY DEF TypeOK, Disturbs, Launching

\* The windows of one launch that are to come.
Own(n) == {o \in opening : o.no = n}

LEMMA OwnCounts ==
  ASSUME IsFiniteSet(opening), NEW n
  PROVE  /\ Cardinality(Own(n)) \in Nat
         /\ Own(n) # {} => Cardinality(Own(n)) >= 1
<1>1. Own(n) \in SUBSET opening
  BY DEF Own
<1>2. IsFiniteSet(Own(n))
  BY <1>1, FS_Subset
<1>3. Cardinality(Own(n)) \in Nat
  BY <1>2, FS_CardinalityType
<1>4. Own(n) # {} => Cardinality(Own(n)) # 0
  BY <1>2, FS_EmptySet
<1>5. QED BY <1>3, <1>4

\* A command to Sway changes what it is about, within the types, and asks for
\* one window at most.
LEMMA RunsTyped ==
  ASSUME TypeOK, IsFiniteSet(opening), NEW c \in RequestSet, Runs(c)
  PROVE  /\ current' \in Nat /\ focused' \in 0..MaxWindows
         /\ opening' \subseteq [no : Nat, workspace : Nat] /\ launched' \in Nat
         /\ IsFiniteSet(opening')
         /\ Cardinality(opening') <= Cardinality(opening) + 1
         /\ c.at # "exec" => UNCHANGED opening
         /\ UNCHANGED <<open, place, opened, opener>>
<1> USE NumberAssumption DEF TypeOK, RequestSet, Windows
<1>1. Cardinality(opening) \in Nat
  BY FS_CardinalityType
<1>2. CASE c.at = "workspace" /\ SwitchWorkspace(c)
  <2>1. focused' \in {0} \cup open
    BY <1>2 DEF SwitchWorkspace, Shown
  <2>2. current' \in Nat
    BY <1>2 DEF SwitchWorkspace
  <2>3. UNCHANGED <<opening, launched, open, place, opened, opener>>
    BY <1>2 DEF SwitchWorkspace, Runs
  <2>4. QED BY <1>1, <2>1, <2>2, <2>3
<1>3. CASE c.at = "exec" /\ ExecFirefox(c)
  <2>1. launched' = launched + 1 /\ UNCHANGED <<current, focused, open, place, opened, opener>>
    BY <1>3 DEF ExecFirefox, Runs
  <2>2. opening' = opening \cup {[no |-> launched', workspace |-> current]}
    BY <1>3 DEF ExecFirefox
  <2>3. /\ IsFiniteSet(opening')
        /\ Cardinality(opening') = Cardinality(opening)
             \/ Cardinality(opening') = Cardinality(opening) + 1
    BY <2>2, FS_AddElement
  <2>4. QED BY <1>1, <1>3, <2>1, <2>2, <2>3
<1>4. CASE c.at = "focus" /\ FocusWindow(c)
  <2>1. UNCHANGED <<opening, launched, open, place, opened, opener>>
    BY <1>4 DEF FocusWindow, Runs
  <2>2. c.window \in open /\ current' = place[c.window] /\ focused' = c.window
    BY <1>4 DEF FocusWindow
  <2>3. QED BY <1>1, <2>1, <2>2
<1>5. QED
  BY <1>2, <1>3, <1>4 DEF Runs

\* Every action keeps the types: an id is there for each window that comes.
LEMMA TypesStep ==
  ASSUME TypeOK, Room, [Next]_vars
  PROVE  TypeOK' /\ Room'
<1> USE NobodyAssumption, NumberAssumption DEF Windows
<1>0. /\ Cardinality(opening) \in Nat /\ Cardinality(left) \in Nat
      /\ opened \in Nat
  BY FS_CardinalityType DEF Room, TypeOK
<1>1. ASSUME NEW r \in Requests, Request(r) PROVE TypeOK' /\ Room'
  <2>1. req' \in [Requests -> RequestSet] /\ holder' \in Requests \cup {Nobody}
    <3>1. [Idle EXCEPT !.kind = "launch", !.at = "list"] \in RequestSet
      BY IdleTyped DEF Idle, RequestSet, Ats
    <3>2. ASSUME NEW w \in 1..opened
          PROVE  /\ [Idle EXCEPT !.kind = "close", !.at = "exists", !.window = w] \in RequestSet
                 /\ [Idle EXCEPT !.kind = "focus", !.at = "check", !.window = w] \in RequestSet
      <4>1. w \in 0..MaxWindows
        BY DEF TypeOK
      <4>2. QED BY ONLY <4>1, NumberAssumption DEF Idle, RequestSet, Ats
    <3>3. QED BY ZenonT(40), <1>1, <3>1, <3>2 DEF Request, Lock, TypeOK
  <2>2. QED BY <1>1, <2>1 DEF Request, TypeOK, Room, swayVars, firefoxVars, historyVars
<1>2. ASSUME NEW r \in Requests, LaunchList(r) PROVE TypeOK' /\ Room'
  <2>1. CASE Cardinality(open) >= Limit
    BY <1>2, <2>1, LeavesTyped DEF LaunchList, TypeOK, Room, swayVars, firefoxVars
  <2>2. CASE ~(Cardinality(open) >= Limit)
    <3>1. req[r] \in RequestSet /\ open \in SUBSET Windows
          /\ FreeWorkspace \in {0} \cup {n \in Nat : n >= Start}
      BY FreeWorkspaceIs DEF TypeOK
    <3>2. [req[r] EXCEPT !.at = "workspace", !.known = open, !.workspace = FreeWorkspace] \in RequestSet
      BY <3>1 DEF RequestSet, Ats
    <3>3. req' \in [Requests -> RequestSet]
      BY <1>2, <2>2, <3>2 DEF LaunchList, TypeOK
    <3>4. QED BY <1>2, <2>2, <3>3 DEF LaunchList, TypeOK, Room, swayVars, firefoxVars
  <2>3. QED BY <2>1, <2>2
<1>3. ASSUME NEW r \in Requests, LaunchWorkspace(r) PROVE TypeOK' /\ Room'
  <2>1. req[r] \in RequestSet /\ Runs(req[r]) /\ req[r].at = "workspace" /\ Goto(r, "exec")
    BY <1>3 DEF LaunchWorkspace, TypeOK, At
  <2>2. req' \in [Requests -> RequestSet]
    BY <2>1, GotoTyped DEF Ats
  <2>3. QED BY <1>3, <2>1, <2>2, RunsTyped DEF LaunchWorkspace, TypeOK, Room, historyVars
<1>4. ASSUME NEW r \in Requests, LaunchExec(r) PROVE TypeOK' /\ Room'
  <2>1. req[r] \in RequestSet /\ Runs(req[r])
    BY <1>4 DEF LaunchExec, TypeOK
  <2>2. /\ current' \in Nat /\ focused' \in 0..MaxWindows
        /\ opening' \subseteq [no : Nat, workspace : Nat] /\ launched' \in Nat
        /\ IsFiniteSet(opening') /\ Cardinality(opening') <= Cardinality(opening) + 1
        /\ UNCHANGED <<open, place, opened, opener>>
    BY <2>1, RunsTyped DEF Room
  <2>3. [req[r] EXCEPT !.at = "poll", !.no = launched'] \in RequestSet
    BY <2>1, <2>2 DEF RequestSet, Ats
  <2>4. req' \in [Requests -> RequestSet]
    BY <1>4, <2>3 DEF LaunchExec, TypeOK
  <2>5. TypeOK'
    BY <1>4, <2>2, <2>4 DEF LaunchExec, TypeOK, historyVars
  <2>6. Cardinality(opening') \in Nat
    BY <2>2, FS_CardinalityType
  <2>7. QED BY <1>0, <1>4, <2>2, <2>5, <2>6 DEF LaunchExec, Room
<1>5. ASSUME NEW r \in Requests, LaunchPoll(r) PROVE TypeOK' /\ Room'
  <2>1. req[r] \in RequestSet /\ Fresh(r) \in SUBSET Windows /\ Fresh(r) # {}
    BY <1>5 DEF LaunchPoll, Fresh, TypeOK
  <2>2. First(Fresh(r)) \in Windows
    BY <2>1, FirstIs DEF TypeOK
  <2>3. [req[r] EXCEPT !.at = "check", !.window = First(Fresh(r)), !.known = {}, !.workspace = 0]
          \in RequestSet
    <3>1. First(Fresh(r)) \in 0..MaxWindows
      BY <2>2
    <3> DEFINE w == First(Fresh(r))
    <3> HIDE DEF w
    <3>2. [req[r] EXCEPT !.at = "check", !.window = w, !.known = {}, !.workspace = 0] \in RequestSet
      BY <2>1, <3>1 DEF RequestSet, Ats, w
    <3>3. QED BY <3>2 DEF w
  <2>4. req' \in [Requests -> RequestSet]
    BY <1>5, <2>3 DEF LaunchPoll, TypeOK
  <2>5. QED BY <1>5, <2>4 DEF LaunchPoll, TypeOK, Room, swayVars, firefoxVars, historyVars
<1>6. ASSUME NEW r \in Requests, LaunchTimeout(r) \/ Fails(r) PROVE TypeOK' /\ Room'
  <2>1. /\ Leaves(r) /\ strays' = strays + Cardinality(Own(req[r].no))
        /\ UNCHANGED <<swayVars, firefoxVars, left, given>>
    BY <1>6 DEF LaunchTimeout, Fails, Own
  <2>2. strays' \in Nat
    BY <2>1, OwnCounts DEF TypeOK, Room
  <2>3. QED BY <2>1, <2>2, LeavesTyped DEF TypeOK, Room, swayVars, firefoxVars
<1>7. ASSUME NEW r \in Requests, FocusCheck(r) \/ CloseCheck(r) \/ Fullscreen(r) \/ CloseAnswers(r)
      PROVE TypeOK' /\ Room'
  <2>1. /\ Leaves(r) \/ (UNCHANGED <<holder, disturbed>> /\ \E at \in Ats : Goto(r, at))
        /\ UNCHANGED <<swayVars, firefoxVars, left, given, strays>>
    BY <1>7 DEF FocusCheck, CloseCheck, Fullscreen, CloseAnswers, Ats
  <2>2. QED BY <2>1, LeavesTyped, GotoTyped DEF TypeOK, Room, swayVars, firefoxVars
<1>8. ASSUME NEW r \in Requests, FocusCommand(r) PROVE TypeOK' /\ Room'
  <2>1. req[r] \in RequestSet /\ Runs(req[r]) /\ req[r].at = "focus" /\ Goto(r, "fullscreen")
    BY <1>8 DEF FocusCommand, TypeOK, At
  <2>2. req' \in [Requests -> RequestSet]
    BY <2>1, GotoTyped DEF Ats
  <2>3. disturbed' \in BOOLEAN
    BY <1>8, DisturbsTyped DEF FocusCommand, TypeOK
  <2>4. QED BY <1>8, <2>1, <2>2, <2>3, RunsTyped DEF FocusCommand, TypeOK, Room
<1>9. ASSUME NEW r \in Requests, TypeUrl(r) \/ Kill(r) PROVE TypeOK' /\ Room'
  <2>1. /\ UNCHANGED <<holder, swayVars, firefoxVars, left, historyVars>>
        /\ \E at \in Ats : Goto(r, at)
    BY <1>9 DEF TypeUrl, Kill, Ats
  <2>2. QED BY <2>1, GotoTyped DEF TypeOK, Room, swayVars, firefoxVars, historyVars
<1>10. ASSUME NEW r \in Requests, LaunchAnswers(r) PROVE TypeOK' /\ Room'
  <2>1. req[r].window \in 0..MaxWindows
    BY DEF TypeOK, RequestSet
  <2>2. QED BY <1>10, <2>1, LeavesTyped DEF LaunchAnswers, TypeOK, Room, swayVars, firefoxVars
<1>11. ASSUME NEW r \in Requests, Cancel(r) PROVE TypeOK' /\ Room'
  <2> DEFINE new == {c \in left' \ left : c.at = "exec"}
             x == [Idle EXCEPT !.at = req[r].at, !.window = req[r].window, !.workspace = req[r].workspace]
  <2>1. x \in RequestSet
    BY IdleTyped DEF TypeOK, RequestSet, Idle
  <2>2. \/ UNCHANGED left
        \/ /\ opened + Cardinality(opening) + Cardinality(left) < MaxWindows
           /\ left' = left \cup {x}
    BY <1>11 DEF Cancel
  <2>3. /\ IsFiniteSet(left') /\ left' \subseteq RequestSet
        /\ opened + Cardinality(opening) + Cardinality(left') <= MaxWindows
    <3>1. CASE UNCHANGED left
      BY <3>1 DEF Room, TypeOK
    <3>2. CASE ~UNCHANGED left
      <4> HIDE DEF x
      <4>1. /\ IsFiniteSet(left')
            /\ Cardinality(left') \in {Cardinality(left), Cardinality(left) + 1}
        BY <2>2, <3>2, FS_AddElement DEF Room
      <4>2. QED BY <1>0, <2>1, <2>2, <3>2, <4>1 DEF TypeOK
    <3>3. QED BY <3>1, <3>2
  <2>4. Cardinality(new) \in Nat
    <3>1. new \in SUBSET left'
      OBVIOUS
    <3> HIDE DEF new
    <3>2. IsFiniteSet(new)
      BY <2>3, <3>1, FS_Subset
    <3>3. QED BY <3>2, FS_CardinalityType
  <2>5. strays' = strays + Cardinality(Own(req[r].no)) + Cardinality(new)
    BY <1>11 DEF Cancel, Own
  <2> HIDE DEF new
  <2>6. strays' \in Nat
    BY <2>4, <2>5, OwnCounts DEF TypeOK, Room
  <2>7. QED BY <1>11, <2>3, <2>6, LeavesTyped DEF Cancel, TypeOK, Room, swayVars, firefoxVars
<1>12. CASE FirefoxOpens
  <2>1. PICK o \in opening :
          /\ opening' = opening \ {o}
          /\ opened' = opened + 1
          /\ opener' = [opener EXCEPT ![opened'] = o.no]
          /\ open' = open \cup {opened'}
          /\ \E ws \in {o.workspace, current} : place' = [place EXCEPT ![opened'] = ws]
          /\ focused' \in {opened', focused}
          /\ disturbed' = disturbed \/ Disturbs
          /\ UNCHANGED <<holder, req, current, launched, left, given, strays>>
    BY <1>12 DEF FirefoxOpens
  <2>2. IsFiniteSet(opening') /\ Cardinality(opening') = Cardinality(opening) - 1
    BY <2>1, FS_RemoveElement DEF Room
  <2>3. Cardinality(opening') \in Nat
    BY <2>2, FS_CardinalityType
  <2>4. opened' \in 1..MaxWindows /\ opened' + Cardinality(opening') + Cardinality(left) <= MaxWindows
    BY <1>0, <2>1, <2>2, <2>3 DEF Room
  <2>5. disturbed' \in BOOLEAN
    BY <2>1, DisturbsTyped DEF TypeOK
  <2>6. o.no \in Nat /\ o.workspace \in Nat /\ current \in Nat
    BY <2>1 DEF TypeOK
  <2>7. TypeOK'
    BY SMTT(30), <2>1, <2>4, <2>5, <2>6 DEF TypeOK
  <2>8. QED BY <2>1, <2>2, <2>4, <2>7 DEF Room
<1>13. CASE SomebodyOpens
  <2>1. opened' \in 1..MaxWindows /\ opened' + Cardinality(opening) + Cardinality(left) <= MaxWindows
    BY <1>0, <1>13 DEF SomebodyOpens
  <2>2. disturbed' \in BOOLEAN
    BY <1>13, DisturbsTyped DEF SomebodyOpens
  <2>3. QED BY <1>13, <2>1, <2>2 DEF SomebodyOpens, TypeOK, Room
<1>14. CASE LeftRuns
  <2>1. PICK c \in left : Runs(c) /\ left' = left \ {c} /\ Disturbs
                          /\ UNCHANGED <<holder, req, given, strays>>
    BY <1>14 DEF LeftRuns
  <2>2. c \in RequestSet
    BY DEF TypeOK
  <2>3. IsFiniteSet(left') /\ Cardinality(left') = Cardinality(left) - 1 /\ left' \subseteq RequestSet
    BY <2>1, FS_RemoveElement DEF Room, TypeOK
  <2>4. /\ current' \in Nat /\ focused' \in 0..MaxWindows
        /\ opening' \subseteq [no : Nat, workspace : Nat] /\ launched' \in Nat
        /\ IsFiniteSet(opening') /\ Cardinality(opening') <= Cardinality(opening) + 1
        /\ UNCHANGED <<open, place, opened, opener>>
    BY <2>1, <2>2, RunsTyped DEF Room
  <2>5. Cardinality(opening') \in Nat /\ Cardinality(left') \in Nat
    BY <2>3, <2>4, FS_CardinalityType
  <2>6. disturbed' \in BOOLEAN
    BY <2>1, DisturbsTyped
  <2>7. TypeOK'
    BY <2>1, <2>3, <2>4, <2>6 DEF TypeOK
  <2>8. QED BY <1>0, <2>3, <2>4, <2>5, <2>7 DEF Room
<1>15. ASSUME NEW w \in Windows, WindowCloses(w) PROVE TypeOK' /\ Room'
  <2>1. focused' \in {0} \cup open \cup {focused}
    BY <1>15 DEF WindowCloses, Shown
  <2>2. disturbed' \in BOOLEAN
    BY <1>15, DisturbsTyped DEF WindowCloses
  <2>3. focused' \in 0..MaxWindows /\ open' \in SUBSET Windows
    BY <1>15, <2>1 DEF WindowCloses, TypeOK
  <2>4. /\ UNCHANGED <<holder, req, current, opening, left, opened, launched, given, strays>>
        /\ place' = [place EXCEPT ![w] = 0] /\ opener' = [opener EXCEPT ![w] = 0]
    BY <1>15 DEF WindowCloses
  <2>5. place' \in [Windows -> Nat] /\ opener' \in [Windows -> Nat]
    BY <2>4 DEF TypeOK
  <2>6. TypeOK'
    BY <2>2, <2>3, <2>4, <2>5 DEF TypeOK
  <2>7. QED BY <2>4, <2>6 DEF Room
<1>16. CASE UNCHANGED vars
  BY <1>16 DEF vars, TypeOK, Room, swayVars, firefoxVars, historyVars
<1>17. QED
  BY <1>1, <1>2, <1>3, <1>4, <1>5, <1>6, <1>7, <1>8, <1>9, <1>10, <1>11, <1>12, <1>13, <1>14, <1>15,
     <1>16 DEF Next, RequestStep
-----------------------------------------------------------------------------
(* What a step does to the requests.                                       *)

\* No request but r changes.
Only(r) == \A s \in Requests : s # r => req'[s] = req[s]

\* r is where it was but for its phase.
Keeps(r) ==
  /\ Only(r)
  /\ req'[r].kind = req[r].kind /\ req'[r].window = req[r].window /\ req'[r].no = req[r].no
  /\ req'[r].known = req[r].known /\ req'[r].workspace = req[r].workspace

LEMMA LeavesIs ==
  ASSUME TypeOK, NEW r \in Requests, Leaves(r)
  PROVE  Only(r) /\ req'[r] = Idle
  BY DEF TypeOK, Leaves, Only

LEMMA GotoIs ==
  ASSUME TypeOK, NEW r \in Requests, NEW at, Goto(r, at)
  PROVE  Keeps(r) /\ req'[r].at = at
<1>1. req[r] \in RequestSet
  BY DEF TypeOK
<1>2. Only(r) /\ req'[r] = [req[r] EXCEPT !.at = at]
  BY DEF TypeOK, Goto, Only
<1>3. QED BY <1>1, <1>2 DEF RequestSet, Keeps

LEMMA RequestIs ==
  ASSUME TypeOK, NEW r \in Requests, Request(r)
  PROVE  /\ Only(r) /\ req[r].at = "idle" /\ req'[r].no = 0
         /\ \/ req'[r].kind = "launch" /\ req'[r].at = "list" /\ Lock(r)
            \/ req'[r].kind = "close" /\ req'[r].at = "exists" /\ Lock(r)
            \/ /\ req'[r].kind = "focus" /\ req'[r].at = "check" /\ req'[r].window \in 1..opened
               /\ UNCHANGED holder
         /\ UNCHANGED <<swayVars, firefoxVars, left, historyVars>>
<1>1. CASE Lock(r) /\ req' = [req EXCEPT ![r] = [Idle EXCEPT !.kind = "launch", !.at = "list"]]
  BY <1>1 DEF Request, TypeOK, At, Only, Idle
<1>2. ASSUME NEW w \in 1..opened, Lock(r),
             req' = [req EXCEPT ![r] = [Idle EXCEPT !.kind = "close", !.at = "exists", !.window = w]]
      PROVE  Only(r) /\ req'[r].no = 0 /\ req'[r].kind = "close" /\ req'[r].at = "exists"
  BY <1>2 DEF TypeOK, Only, Idle
<1>3. ASSUME NEW w \in 1..opened,
             req' = [req EXCEPT ![r] = [Idle EXCEPT !.kind = "focus", !.at = "check", !.window = w]]
      PROVE  Only(r) /\ req'[r].no = 0 /\ req'[r].kind = "focus" /\ req'[r].at = "check"
             /\ req'[r].window \in 1..opened
  BY <1>3 DEF TypeOK, Only, Idle
<1>4. req[r].at = "idle" /\ UNCHANGED <<swayVars, firefoxVars, left, historyVars>>
  BY DEF Request, At
<1>5. QED BY <1>1, <1>2, <1>3, <1>4 DEF Request

LEMMA ListIs ==
  ASSUME TypeOK, NEW r \in Requests, LaunchList(r), ~Leaves(r)
  PROVE  /\ Only(r) /\ req[r].at = "list" /\ Cardinality(open) < Limit
         /\ req'[r].at = "workspace" /\ req'[r].kind = req[r].kind /\ req'[r].no = req[r].no
         /\ req'[r].known = open
         /\ req'[r].workspace \in Nat /\ \A w \in open : place[w] < req'[r].workspace
         /\ UNCHANGED <<holder, disturbed, swayVars, firefoxVars, left, given, strays>>
<1> DEFINE f == FreeWorkspace
<1>1. req[r] \in RequestSet
  BY DEF TypeOK
<1>2. f \in Nat /\ \A w \in open : place[w] < f
  BY FreeWorkspaceIs DEF TypeOK
<1>3. ~(Cardinality(open) >= Limit)
  BY DEF LaunchList
<1>4. /\ req' = [req EXCEPT ![r].at = "workspace", ![r].known = open, ![r].workspace = f]
      /\ UNCHANGED <<holder, disturbed, swayVars, firefoxVars, left, given, strays>>
      /\ req[r].at = "list"
  BY <1>3 DEF LaunchList, At
<1>5. Cardinality(open) < Limit
  <2>1. IsFiniteSet(open)
    BY WindowsFinite DEF TypeOK
  <2>2. Cardinality(open) \in Nat
    BY <2>1, FS_CardinalityType
  <2>3. QED BY <1>3, <2>2, NumberAssumption
<1> HIDE DEF f
<1>6. Only(r) /\ req'[r] = [req[r] EXCEPT !.at = "workspace", !.known = open, !.workspace = f]
  BY <1>4 DEF TypeOK, Only
<1>7. /\ req'[r].at = "workspace" /\ req'[r].kind = req[r].kind /\ req'[r].no = req[r].no
      /\ req'[r].known = open /\ req'[r].workspace = f
  BY ONLY <1>1, <1>6 DEF RequestSet
<1>8. QED BY <1>2, <1>4, <1>5, <1>6, <1>7

LEMMA ExecIs ==
  ASSUME TypeOK, NEW r \in Requests, LaunchExec(r)
  PROVE  /\ Only(r) /\ req[r].at = "exec" /\ ExecFirefox(req[r])
         /\ req'[r].at = "poll" /\ req'[r].kind = req[r].kind /\ req'[r].no = launched'
         /\ req'[r].known = req[r].known /\ req'[r].workspace = req[r].workspace
         /\ UNCHANGED <<holder, left, historyVars, open, place, opened, opener>>
<1>1. req[r] \in RequestSet
  BY DEF TypeOK
<1>2. Only(r) /\ req'[r] = [req[r] EXCEPT !.at = "poll", !.no = launched']
  BY DEF LaunchExec, TypeOK, Only
<1>3. /\ req'[r].at = "poll" /\ req'[r].kind = req[r].kind /\ req'[r].no = launched'
      /\ req'[r].known = req[r].known /\ req'[r].workspace = req[r].workspace
  BY ONLY <1>1, <1>2 DEF RequestSet
<1>4. QED BY <1>2, <1>3 DEF LaunchExec, Runs, At

LEMMA PollIs ==
  ASSUME TypeOK, NEW r \in Requests, LaunchPoll(r)
  PROVE  /\ Only(r) /\ req[r].at = "poll"
         /\ req'[r].at = "check" /\ req'[r].kind = req[r].kind /\ req'[r].no = req[r].no
         /\ req'[r].window \in open \ req[r].known
         /\ UNCHANGED <<holder, swayVars, firefoxVars, left, historyVars>>
<1> DEFINE w == First(Fresh(r))
<1>1. req[r] \in RequestSet
  BY DEF TypeOK
<1>2. w \in open \ req[r].known
  <2>1. Fresh(r) \in SUBSET Windows /\ Fresh(r) # {}
    BY DEF LaunchPoll, Fresh, TypeOK
  <2>2. w \in Fresh(r)
    BY <2>1, FirstIs DEF TypeOK
  <2>3. QED BY <2>2 DEF Fresh
<1>3. /\ req' = [req EXCEPT ![r].at = "check", ![r].window = w, ![r].known = {}, ![r].workspace = 0]
      /\ req[r].at = "poll"
      /\ UNCHANGED <<holder, swayVars, firefoxVars, left, historyVars>>
  BY DEF LaunchPoll, At
<1> HIDE DEF w
<1>4. Only(r) /\ req'[r] = [req[r] EXCEPT !.at = "check", !.window = w, !.known = {}, !.workspace = 0]
  BY <1>3 DEF TypeOK, Only
<1>5. /\ req'[r].at = "check" /\ req'[r].kind = req[r].kind /\ req'[r].no = req[r].no
      /\ req'[r].window = w
  BY ONLY <1>1, <1>4 DEF RequestSet
<1>6. QED BY <1>2, <1>3, <1>4, <1>5

\* The steps that end a request, and those that only move it on.
LEMMA EndsIs ==
  ASSUME NEW r \in Requests, \/ LaunchTimeout(r) \/ CloseAnswers(r) \/ Fails(r) \/ Cancel(r)
  PROVE  Leaves(r) /\ UNCHANGED <<swayVars, firefoxVars, given>>
  BY DEF LaunchTimeout, CloseAnswers, Fails, Cancel

LEMMA MovesIs ==
  ASSUME TypeOK, NEW r \in Requests,
         FocusCheck(r) \/ Fullscreen(r) \/ TypeUrl(r) \/ CloseCheck(r) \/ Kill(r)
  PROVE  /\ \/ Leaves(r)
            \/ /\ Keeps(r) /\ UNCHANGED <<holder, disturbed>>
               /\ \/ req[r].at = "check" /\ req'[r].at = "focus" /\ req[r].window \in open
                  \/ req[r].at = "fullscreen" /\ req'[r].at = "type" /\ req[r].kind = "launch"
                  \/ req[r].at = "type" /\ req'[r].at = "enter"
                  \/ req[r].at = "exists" /\ req'[r].at = "kill"
                  \/ req[r].at = "kill" /\ req'[r].at = "gone"
         /\ UNCHANGED <<swayVars, firefoxVars, left, given, strays>>
<1>1. CASE Leaves(r)
  BY <1>1 DEF FocusCheck, Fullscreen, TypeUrl, CloseCheck, Kill, historyVars
<1>2. CASE ~Leaves(r)
  <2>1. /\ UNCHANGED <<holder, disturbed, swayVars, firefoxVars, left, given, strays>>
        /\ \/ req[r].at = "check" /\ Goto(r, "focus") /\ req[r].window \in open
           \/ req[r].at = "fullscreen" /\ Goto(r, "type") /\ req[r].kind = "launch"
           \/ req[r].at = "type" /\ Goto(r, "enter")
           \/ req[r].at = "exists" /\ Goto(r, "kill")
           \/ req[r].at = "kill" /\ Goto(r, "gone")
    BY <1>2 DEF FocusCheck, Fullscreen, TypeUrl, CloseCheck, Kill, At, historyVars
  <2>2. QED BY <2>1, GotoIs
<1>3. QED BY <1>1, <1>2

LEMMA AnswersIs ==
  ASSUME NEW r \in Requests, LaunchAnswers(r)
  PROVE  /\ req[r].at = "enter" /\ given' = given \cup {req[r].window} /\ Leaves(r)
         /\ UNCHANGED <<swayVars, firefoxVars, left, strays>>
  BY DEF LaunchAnswers, At

LEMMA WorkspaceIs ==
  ASSUME TypeOK, NEW r \in Requests, LaunchWorkspace(r)
  PROVE  /\ Keeps(r) /\ req[r].at = "workspace" /\ req'[r].at = "exec"
         /\ current' = req[r].workspace
         /\ UNCHANGED <<holder, left, historyVars, open, place, opened, opener, opening, launched>>
  BY GotoIs DEF LaunchWorkspace, Runs, SwitchWorkspace, At

LEMMA CommandIs ==
  ASSUME TypeOK, NEW r \in Requests, FocusCommand(r)
  PROVE  /\ Keeps(r) /\ req[r].at = "focus" /\ req'[r].at = "fullscreen" /\ req[r].window \in open
         /\ focused' = req[r].window
         /\ holder # r => Disturbs
         /\ holder = r => UNCHANGED disturbed
         /\ UNCHANGED <<holder, left, given, strays, open, place, opened, opener, opening, launched>>
  BY GotoIs DEF FocusCommand, Runs, FocusWindow, At
-----------------------------------------------------------------------------
(* Phases, numbers and the windows that have been given.                   *)

\* Whoever has the mutex keeps it until it leaves.
LEMMA PhasesStep ==
  ASSUME TypeOK, Phases, [Next]_vars
  PROVE  Phases'
<1> USE NobodyAssumption
<1>1. ASSUME NEW r \in Requests, Request(r) PROVE Phases'
  <2>1. /\ Only(r) /\ req[r].at = "idle"
        /\ \/ req'[r].kind = "launch" /\ req'[r].at = "list" /\ Lock(r)
           \/ req'[r].kind = "close" /\ req'[r].at = "exists" /\ Lock(r)
           \/ req'[r].kind = "focus" /\ req'[r].at = "check" /\ UNCHANGED holder
    BY <1>1, RequestIs
  <2>2. QED BY <2>1 DEF Phases, Only, Lock
<1>2. ASSUME NEW r \in Requests, Leaves(r) PROVE Phases'
  <2>1. Only(r) /\ req'[r] = Idle
    BY <1>2, LeavesIs
  <2>2. QED BY <1>2, <2>1 DEF Phases, Leaves, Only, Idle
<1>3. ASSUME NEW r \in Requests, LaunchList(r) PROVE Phases'
  <2>1. CASE Leaves(r)
    BY <1>2, <2>1
  <2>2. CASE ~Leaves(r)
    BY <1>3, <2>2, ListIs DEF Phases, Only
  <2>3. QED BY <2>1, <2>2
<1>4. ASSUME NEW r \in Requests, LaunchWorkspace(r) \/ FocusCommand(r) PROVE Phases'
  BY <1>4, WorkspaceIs, CommandIs DEF Phases, Only, Keeps
<1>5. ASSUME NEW r \in Requests, LaunchExec(r) \/ LaunchPoll(r) PROVE Phases'
  BY <1>5, ExecIs, PollIs DEF Phases, Only
<1>6. ASSUME NEW r \in Requests,
             \/ LaunchTimeout(r) \/ LaunchAnswers(r) \/ CloseAnswers(r) \/ Fails(r) \/ Cancel(r)
      PROVE  Phases'
  BY <1>2, <1>6, EndsIs, AnswersIs
<1>7. ASSUME NEW r \in Requests,
             FocusCheck(r) \/ Fullscreen(r) \/ TypeUrl(r) \/ CloseCheck(r) \/ Kill(r)
      PROVE  Phases'
  BY <1>2, <1>7, MovesIs DEF Phases, Only, Keeps
<1>8. CASE \/ FirefoxOpens \/ SomebodyOpens \/ LeftRuns \/ (\E w \in Windows : WindowCloses(w))
           \/ UNCHANGED vars
  <2>1. UNCHANGED <<req, holder>>
    BY <1>8 DEF FirefoxOpens, SomebodyOpens, LeftRuns, WindowCloses, vars
  <2>2. QED BY <2>1 DEF Phases
<1>9. QED
  BY <1>1, <1>3, <1>4, <1>5, <1>6, <1>7, <1>8 DEF Next, RequestStep

\* A command asks for a window under a number that is new.
LEMMA RunsNumbers ==
  ASSUME TypeOK, Numbers, NEW c, Runs(c)
  PROVE  /\ launched' \in {launched, launched + 1}
         /\ \A o \in opening' : o.no \in 1..launched'
         /\ \A o, p \in opening' : o.no = p.no => o = p
         /\ UNCHANGED <<open, opened>>
<1>1. CASE c.at = "exec" /\ ExecFirefox(c)
  <2>1. launched' = launched + 1 /\ UNCHANGED <<open, opened>>
    BY <1>1 DEF ExecFirefox, Runs
  <2>2. opening' = opening \cup {[no |-> launched', workspace |-> current]}
    BY <1>1 DEF ExecFirefox
  <2>3. \A o \in opening : o.no # launched' /\ o.no \in 1..launched'
    BY <2>1 DEF Numbers, TypeOK
  <2>4. \A o \in opening' : o \in opening \/ (o = [no |-> launched', workspace |-> current])
    BY <2>2
  <2>5. launched' \in 1..launched'
    BY <2>1 DEF TypeOK
  <2>6. \A o, p \in opening' : o.no = p.no => o = p
    BY <2>3, <2>4 DEF Numbers
  <2>7. QED BY <2>1, <2>3, <2>4, <2>5, <2>6
<1>2. CASE c.at # "exec"
  BY <1>2 DEF Runs, SwitchWorkspace, FocusWindow, Numbers
<1>3. QED BY <1>1, <1>2 DEF Runs

LEMMA NumbersStep ==
  ASSUME TypeOK, Phases, Numbers, [Next]_vars
  PROVE  Numbers'
<1> USE NumberAssumption
<1>1. ASSUME NEW r \in Requests, Request(r) PROVE Numbers'
  <2>1. /\ Only(r) /\ req'[r].no = 0
        /\ \/ req'[r].at \in {"list", "exists"}
           \/ req'[r].at = "check" /\ req'[r].window \in 1..opened
        /\ UNCHANGED <<open, given, opening, opened, launched>>
    BY <1>1, RequestIs DEF swayVars, firefoxVars, historyVars
  <2>2. QED BY <2>1 DEF Numbers, Only
<1>2. ASSUME NEW r \in Requests, Leaves(r), UNCHANGED <<swayVars, firefoxVars, given>> PROVE Numbers'
  <2>1. Only(r) /\ req'[r] = Idle
    BY <1>2, LeavesIs
  <2>2. QED BY <1>2, <2>1 DEF Numbers, Only, Idle, swayVars, firefoxVars
<1>3. ASSUME NEW r \in Requests, LaunchList(r) PROVE Numbers'
  <2>1. CASE Leaves(r)
    BY <1>2, <1>3, <2>1 DEF LaunchList
  <2>2. CASE ~Leaves(r)
    BY ZenonT(40), <1>3, <2>2, ListIs DEF Numbers, Only, swayVars, firefoxVars
  <2>3. QED BY <2>1, <2>2
<1>4. ASSUME NEW r \in Requests, LaunchWorkspace(r) \/ FocusCommand(r) PROVE Numbers'
  <2>1. /\ Only(r) /\ UNCHANGED <<open, given, opening, opened, launched>>
        /\ req'[r].no = req[r].no /\ req'[r].window = req[r].window
        /\ \/ req[r].at = "workspace" /\ req'[r].at = "exec"
           \/ req[r].at = "focus" /\ req'[r].at = "fullscreen"
    BY <1>4, WorkspaceIs, CommandIs DEF Keeps, historyVars
  <2>2. QED BY <2>1 DEF Numbers, Only
<1>5. ASSUME NEW r \in Requests, LaunchExec(r) PROVE Numbers'
  <2>1. Runs(req[r])
    BY <1>5 DEF LaunchExec
  <2>2. QED BY ZenonT(40), <1>5, <2>1, RunsNumbers, ExecIs DEF Numbers, Only, historyVars
<1>6. ASSUME NEW r \in Requests, LaunchPoll(r) PROVE Numbers'
  <2>1. req'[r].window \in 1..opened
    BY <1>6, PollIs DEF Numbers
  <2>2. QED BY <1>6, <2>1, PollIs DEF Numbers, Only, swayVars, firefoxVars, historyVars
<1>7. ASSUME NEW r \in Requests, LaunchTimeout(r) \/ CloseAnswers(r) \/ Fails(r) \/ Cancel(r)
      PROVE  Numbers'
  BY <1>2, <1>7, EndsIs
<1>8. ASSUME NEW r \in Requests,
             FocusCheck(r) \/ Fullscreen(r) \/ TypeUrl(r) \/ CloseCheck(r) \/ Kill(r)
      PROVE  Numbers'
  <2>1. CASE Leaves(r)
    BY <1>2, <1>8, <2>1, MovesIs
  <2>2. CASE ~Leaves(r)
    <3>1. /\ Only(r) /\ UNCHANGED <<open, given, opening, opened, launched>>
          /\ req'[r].no = req[r].no /\ req'[r].window = req[r].window
          /\ \/ /\ req[r].at \in {"check", "fullscreen", "type"}
                /\ req'[r].at \in {"focus", "type", "enter"}
             \/ req'[r].at \in {"kill", "gone"}
      BY <1>8, <2>2, MovesIs DEF Keeps, swayVars, firefoxVars
    <3>2. QED BY <3>1 DEF Numbers, Only
  <2>3. QED BY <2>1, <2>2
<1>9. ASSUME NEW r \in Requests, LaunchAnswers(r) PROVE Numbers'
  <2>1. /\ req[r].window \in 1..opened /\ given' = given \cup {req[r].window}
        /\ Only(r) /\ req'[r] = Idle /\ UNCHANGED <<swayVars, firefoxVars>>
    BY <1>9, AnswersIs, LeavesIs DEF Numbers
  <2>2. \A s \in Requests :
          /\ req'[s].at \in {"list", "workspace", "exec"} => req'[s].no = 0
          /\ req'[s].at \in {"check", "focus", "fullscreen", "type", "enter"} =>
               req'[s].window \in 1..opened
    BY <2>1 DEF Numbers, Only, Idle
  <2>3. QED BY <2>1, <2>2 DEF Numbers, swayVars, firefoxVars
<1>10. CASE FirefoxOpens \/ SomebodyOpens
  <2>1. /\ opened' = opened + 1 /\ open' = open \cup {opened'} /\ opening' \subseteq opening
        /\ UNCHANGED <<req, launched, given>>
    BY <1>10 DEF FirefoxOpens, SomebodyOpens
  <2>2. \A n \in 1..opened : n \in 1..opened'
    BY <2>1 DEF TypeOK
  <2>3. opened' \in 1..opened'
    BY <2>1 DEF TypeOK
  <2>4. QED BY <2>1, <2>2, <2>3 DEF Numbers
<1>11. CASE LeftRuns
  <2>1. PICK c \in left : Runs(c) /\ UNCHANGED <<holder, req, given, strays>>
    BY <1>11 DEF LeftRuns
  <2>2. QED BY <2>1, RunsNumbers DEF Numbers
<1>12. ASSUME NEW w \in Windows, WindowCloses(w) PROVE Numbers'
  BY <1>12 DEF WindowCloses, Numbers
<1>13. CASE UNCHANGED vars
  BY <1>13 DEF vars, Numbers, swayVars, firefoxVars, historyVars
<1>14. QED
  BY <1>1, <1>3, <1>4, <1>5, <1>6, <1>7, <1>8, <1>9, <1>10, <1>11, <1>12, <1>13
     DEF Next, RequestStep

\* A launch takes a window that came after it looked, when nobody else launched.
LEMMA UngivenStep ==
  ASSUME TypeOK, Phases, Numbers, Ungiven, [Next]_vars
  PROVE  Ungiven'
<1>1. ASSUME NEW r \in Requests, Request(r) PROVE Ungiven'
  <2>1. /\ Only(r) /\ UNCHANGED <<open, given>>
        /\ req'[r].at = "list" \/ req'[r].kind # "launch"
    BY <1>1, RequestIs DEF swayVars, historyVars
  <2>2. QED BY <2>1 DEF Ungiven, Only
<1>2. ASSUME NEW r \in Requests, Leaves(r), UNCHANGED <<open, given>> PROVE Ungiven'
  <2>1. Only(r) /\ req'[r] = Idle
    BY <1>2, LeavesIs
  <2>2. QED BY <1>2, <2>1 DEF Ungiven, Only, Idle
<1>3. ASSUME NEW r \in Requests, LaunchList(r) PROVE Ungiven'
  <2>1. CASE Leaves(r)
    BY <1>2, <1>3, <2>1 DEF LaunchList, swayVars
  <2>2. CASE ~Leaves(r)
    BY <1>3, <2>2, ListIs DEF Ungiven, Only, swayVars
  <2>3. QED BY <2>1, <2>2
<1>4. ASSUME NEW r \in Requests, LaunchWorkspace(r) \/ LaunchExec(r) PROVE Ungiven'
  BY <1>4, WorkspaceIs, ExecIs DEF Ungiven, Only, Keeps, historyVars
<1>5. ASSUME NEW r \in Requests, FocusCommand(r) PROVE Ungiven'
  BY <1>5, CommandIs DEF Ungiven, Only, Keeps
<1>6. ASSUME NEW r \in Requests, LaunchPoll(r) PROVE Ungiven'
  <2>1. req'[r].kind = "launch" => req'[r].window \notin given
    BY <1>6, PollIs DEF Ungiven
  <2>2. QED BY <1>6, <2>1, PollIs DEF Ungiven, Only, swayVars, historyVars
<1>7. ASSUME NEW r \in Requests, LaunchTimeout(r) \/ CloseAnswers(r) \/ Fails(r) \/ Cancel(r)
      PROVE  Ungiven'
  BY <1>2, <1>7, EndsIs DEF swayVars
<1>8. ASSUME NEW r \in Requests,
             FocusCheck(r) \/ Fullscreen(r) \/ TypeUrl(r) \/ CloseCheck(r) \/ Kill(r)
      PROVE  Ungiven'
  BY <1>2, <1>8, MovesIs DEF Ungiven, Only, Keeps, swayVars
<1>9. ASSUME NEW r \in Requests, LaunchAnswers(r) PROVE Ungiven'
  <2>1. \A s \in Requests : req'[s].kind # "launch"
    BY <1>9, AnswersIs, LeavesIs DEF Only, Phases, Idle
  <2>2. QED BY <2>1 DEF Ungiven
<1>10. CASE FirefoxOpens \/ SomebodyOpens
  <2>1. /\ open' = open \cup {opened + 1} /\ UNCHANGED <<req, given>>
    BY <1>10 DEF FirefoxOpens, SomebodyOpens
  <2>2. opened + 1 \notin given
    BY DEF Numbers, TypeOK
  <2>3. QED BY <2>1, <2>2 DEF Ungiven
<1>11. CASE LeftRuns \/ (\E w \in Windows : WindowCloses(w)) \/ UNCHANGED vars
  <2>1. open' \subseteq open /\ UNCHANGED <<req, given>>
    BY <1>11 DEF LeftRuns, Runs, WindowCloses, vars, swayVars, historyVars
  <2>2. QED BY <2>1 DEF Ungiven
<1>12. QED
  BY <1>1, <1>3, <1>4, <1>5, <1>6, <1>7, <1>8, <1>9, <1>10, <1>11 DEF Next, RequestStep
-----------------------------------------------------------------------------
(* The limit.                                                              *)

Counted == ComingAreStrays /\ LimitKept

LEMMA Counts ==
  ASSUME TypeOK, Room
  PROVE  /\ Cardinality(open) \in Nat /\ Cardinality(opening) \in Nat
         /\ IsFiniteSet(LeftLaunches) /\ Cardinality(LeftLaunches) \in Nat
         /\ Coming \in Nat /\ Limit \in Nat /\ strays \in Nat /\ IsFiniteSet(open)
<1>1. IsFiniteSet(open) /\ IsFiniteSet(opening)
  BY WindowsFinite DEF TypeOK, Room
<1>2. LeftLaunches \in SUBSET left /\ IsFiniteSet(left)
  BY DEF LeftLaunches, Room
<1>3. IsFiniteSet(LeftLaunches)
  BY <1>2, FS_Subset
<1>4. /\ Cardinality(open) \in Nat /\ Cardinality(opening) \in Nat
      /\ Cardinality(LeftLaunches) \in Nat
  BY <1>1, <1>3, FS_CardinalityType
<1>5. QED BY <1>1, <1>3, <1>4, NumberAssumption DEF Coming, TypeOK

\* Nothing is waited for while the launch that has the mutex has not asked.
LEMMA NobodyWaits ==
  ASSUME Phases, NEW r \in Requests, req[r].at \in {"list", "workspace", "exec"}
  PROVE  \A q \in Requests : ~Waits(q) /\ (q # r => req[q].at \notin {"workspace", "exec"})
  BY DEF Phases, Waits

\* A request that asks for nothing and gives nothing up counts for nothing.
LEMMA CountedKept ==
  ASSUME Counted, NEW r \in Requests, Only(r), UNCHANGED <<open, opening, left, strays>>,
         req[r].at # "poll", req'[r].at \notin {"workspace", "exec"}
  PROVE  Counted'
<1>1. Coming' = Coming
  BY DEF Coming, LeftLaunches
<1>2. \A q \in Requests : Waits(q) => Waits(q)'
  BY DEF Waits, Only
<1> HIDE DEF Coming
<1>3. QED BY <1>1, <1>2 DEF Counted, ComingAreStrays, LimitKept, Only

\* A request that is given up: what was to come for it are strays from now on,
\* and so is what its command may still ask for.
LEMMA CountedGivesUp ==
  ASSUME TypeOK, Room, Counted, NEW r \in Requests, Leaves(r),
         NEW n \in Nat, Cardinality(LeftLaunches') = Cardinality(LeftLaunches) + n,
         strays' = strays + Cardinality(Own(req[r].no)) + n, UNCHANGED <<open, opening>>
  PROVE  Counted'
<1> DEFINE own == Cardinality(Own(req[r].no))
<1>1. own \in Nat /\ (Own(req[r].no) # {} => own >= 1)
  BY OwnCounts DEF Room
<1>2. Only(r) /\ req'[r].at = "idle"
  BY LeavesIs DEF Idle
<1>3. Coming' = Coming + n
  BY Counts DEF Coming
<1>4. \A q \in Requests : q # r /\ Waits(q) => Waits(q)'
  BY <1>2 DEF Waits, Only
<1>5. Waits(r) => own >= 1
  BY <1>1 DEF Waits, Own
<1>6. Coming \in Nat /\ Cardinality(open) \in Nat /\ strays \in Nat /\ Limit \in Nat
  BY Counts
<1>7. strays' = strays + own + n
  OBVIOUS
<1> HIDE DEF own
<1>8. ComingAreStrays'
  <2>1. Coming' <= strays' + 1
    BY <1>1, <1>3, <1>6, <1>7 DEF Counted, ComingAreStrays
  <2>2. Coming' <= strays' \/ \E q \in Requests : Waits(q)'
    BY <1>1, <1>3, <1>4, <1>5, <1>6, <1>7 DEF Counted, ComingAreStrays
  <2>3. ASSUME NEW s \in Requests, req'[s].at \in {"workspace", "exec"}
        PROVE  open' \subseteq req'[s].known \/ Coming' + 1 <= strays'
    <3>1. s # r /\ req'[s] = req[s]
      BY <1>2, <2>3 DEF Only
    <3>2. QED BY <1>1, <1>3, <1>6, <1>7, <2>3, <3>1 DEF Counted, ComingAreStrays
  <2>4. QED BY <2>1, <2>2, <2>3 DEF ComingAreStrays
<1>9. LimitKept'
  <2>1. Cardinality(open') + Coming' <= Limit + strays'
    BY <1>1, <1>3, <1>6, <1>7 DEF Counted, LimitKept
  <2>2. ASSUME NEW s \in Requests, req'[s].at \in {"workspace", "exec"}
        PROVE  Cardinality(open') + Coming' + 1 <= Limit + strays'
    <3>1. s # r /\ req'[s] = req[s]
      BY <1>2, <2>2 DEF Only
    <3>2. QED BY <1>1, <1>3, <1>6, <1>7, <2>2, <3>1 DEF Counted, LimitKept
  <2>3. QED BY <2>1, <2>2 DEF LimitKept
<1>10. QED BY <1>8, <1>9 DEF Counted

LEMMA CountedList ==
  ASSUME TypeOK, Room, Phases, Counted, NEW r \in Requests, LaunchList(r), ~Leaves(r)
  PROVE  Counted'
<1>1. /\ Only(r) /\ req[r].at = "list" /\ Cardinality(open) < Limit
      /\ req'[r].at = "workspace" /\ req'[r].known = open /\ UNCHANGED <<open, opening, left, strays>>
  BY ListIs DEF swayVars, firefoxVars
<1>2. Coming' = Coming
  BY <1>1 DEF Coming, LeftLaunches
<1>3. \A q \in Requests : ~Waits(q) /\ (q # r => req[q].at \notin {"workspace", "exec"})
  BY <1>1, NobodyWaits
<1>4. Coming \in Nat /\ Cardinality(open) \in Nat /\ strays \in Nat /\ Limit \in Nat
  BY Counts
<1>5. Coming <= strays
  BY <1>3 DEF Counted, ComingAreStrays
<1>6. \A s \in Requests : req'[s].at \in {"workspace", "exec"} => s = r
  BY <1>1, <1>3 DEF Only
<1> HIDE DEF Coming
<1>7. ComingAreStrays'
  BY <1>1, <1>2, <1>4, <1>5, <1>6 DEF ComingAreStrays
<1>8. LimitKept'
  BY <1>1, <1>2, <1>4, <1>5, <1>6 DEF LimitKept
<1>9. QED BY <1>7, <1>8 DEF Counted

\* Sway runs exec: a window more is to come.
LEMMA ExecCounts ==
  ASSUME TypeOK, Room, Numbers, NEW c, ExecFirefox(c)
  PROVE  /\ launched' = launched + 1
         /\ opening' = opening \cup {[no |-> launched', workspace |-> current]}
         /\ Cardinality(opening') = Cardinality(opening) + 1
<1>1. launched' = launched + 1
      /\ opening' = opening \cup {[no |-> launched', workspace |-> current]}
  BY DEF ExecFirefox
<1>2. [no |-> launched', workspace |-> current] \notin opening
  BY <1>1 DEF Numbers, TypeOK
<1>3. Cardinality(opening') = Cardinality(opening) + 1
  BY <1>1, <1>2, FS_AddElement DEF Room
<1>4. QED BY <1>1, <1>3

LEMMA CountedExec ==
  ASSUME TypeOK, Room, Phases, Numbers, Counted, NEW r \in Requests, LaunchExec(r)
  PROVE  Counted'
<1>1. /\ Only(r) /\ req[r].at = "exec" /\ ExecFirefox(req[r])
      /\ req'[r].at = "poll" /\ req'[r].no = launched' /\ req'[r].known = req[r].known
      /\ UNCHANGED <<open, left, strays>>
  BY ExecIs DEF historyVars
<1>2. /\ opening' = opening \cup {[no |-> launched', workspace |-> current]}
      /\ Cardinality(opening') = Cardinality(opening) + 1
  BY <1>1, ExecCounts
<1>3. Coming' = Coming + 1
  BY <1>1, <1>2, Counts DEF Coming, LeftLaunches
<1>4. \A q \in Requests : ~Waits(q) /\ (q # r => req[q].at \notin {"workspace", "exec"})
  BY <1>1, NobodyWaits
<1>5. Coming \in Nat /\ Cardinality(open) \in Nat /\ strays \in Nat /\ Limit \in Nat
  BY Counts
<1>6. Coming <= strays
  BY <1>4 DEF Counted, ComingAreStrays
<1>7. \A s \in Requests : req'[s].at \notin {"workspace", "exec"}
  BY <1>1, <1>4 DEF Only
<1>8. Waits(r)' \/ Coming' <= strays'
  <2>1. CASE open \subseteq req[r].known
    <3>1. [no |-> launched', workspace |-> current] \in opening'
      BY <1>2
    <3>2. \E o \in opening' : o.no = launched'
      BY <3>1
    <3>3. QED BY <1>1, <2>1, <3>2 DEF Waits
  <2>2. CASE Coming + 1 <= strays
    BY <1>1, <1>3, <2>2
  <2>3. QED BY <1>1, <2>1, <2>2 DEF Counted, ComingAreStrays
<1> HIDE DEF Coming
<1>9. ComingAreStrays'
  BY <1>1, <1>3, <1>5, <1>6, <1>7, <1>8 DEF ComingAreStrays
<1>10. LimitKept'
  <2>1. Cardinality(open) + Coming + 1 <= Limit + strays
    BY <1>1 DEF Counted, LimitKept
  <2>2. QED BY <1>1, <1>3, <1>5, <1>7, <2>1 DEF LimitKept
<1>11. QED BY <1>9, <1>10 DEF Counted

\* A window comes: one less is to come, or it is a stray.
LEMMA CountedOpens ==
  ASSUME TypeOK, Room, Phases, Numbers, Counted, FirefoxOpens \/ SomebodyOpens
  PROVE  Counted'
<1>1. open' = open \cup {opened + 1} /\ opened + 1 \notin open /\ UNCHANGED <<req, left>>
  BY DEF FirefoxOpens, SomebodyOpens, Numbers, TypeOK
<1>2. Cardinality(open') = Cardinality(open) + 1
  BY <1>1, Counts, FS_AddElement
<1>3. \/ Cardinality(opening') = Cardinality(opening) - 1 /\ strays' = strays
      \/ Cardinality(opening') = Cardinality(opening) /\ strays' = strays + 1
  <2>1. ASSUME FirefoxOpens PROVE Cardinality(opening') = Cardinality(opening) - 1 /\ strays' = strays
    <3>1. PICK o \in opening : opening' = opening \ {o} /\ strays' = strays
      BY <2>1 DEF FirefoxOpens
    <3>2. QED BY <3>1, FS_RemoveElement DEF Room
  <2>2. ASSUME SomebodyOpens PROVE Cardinality(opening') = Cardinality(opening) /\ strays' = strays + 1
    BY <2>2 DEF SomebodyOpens
  <2>3. QED BY <2>1, <2>2
<1>4. \/ Coming' = Coming - 1 /\ strays' = strays
      \/ Coming' = Coming /\ strays' = strays + 1
  BY <1>1, <1>3, Counts DEF Coming, LeftLaunches
<1>5. Coming \in Nat /\ Cardinality(open) \in Nat /\ strays \in Nat /\ Limit \in Nat
  BY Counts
<1>6. \A s \in Requests : req[s].at \in {"workspace", "exec"} => Coming <= strays
  <2> SUFFICES ASSUME NEW s \in Requests, req[s].at \in {"workspace", "exec"} PROVE Coming <= strays
    OBVIOUS
  <2>1. \A q \in Requests : ~Waits(q)
    BY NobodyWaits
  <2>2. QED BY <2>1 DEF Counted, ComingAreStrays
<1> HIDE DEF Coming
<1>7. ComingAreStrays'
  <2>1. Coming' <= strays'
    BY <1>4, <1>5 DEF Counted, ComingAreStrays
  <2>2. ASSUME NEW s \in Requests, req'[s].at \in {"workspace", "exec"}
        PROVE  Coming' + 1 <= strays'
    BY <1>1, <1>4, <1>5, <1>6, <2>2
  <2>3. Coming' <= strays' + 1
    BY <1>4, <1>5, <2>1
  <2>4. QED BY <2>1, <2>2, <2>3 DEF ComingAreStrays
<1>8. LimitKept'
  <2>1. Cardinality(open') + Coming' <= Limit + strays'
    BY <1>2, <1>4, <1>5 DEF Counted, LimitKept
  <2>2. ASSUME NEW s \in Requests, req'[s].at \in {"workspace", "exec"}
        PROVE  Cardinality(open') + Coming' + 1 <= Limit + strays'
    BY <1>1, <1>2, <1>4, <1>5, <2>2 DEF Counted, LimitKept
  <2>3. QED BY <2>1, <2>2 DEF LimitKept
<1>9. QED BY <1>7, <1>8 DEF Counted

LEMMA CountedCloses ==
  ASSUME TypeOK, Room, Counted, NEW w \in Windows, WindowCloses(w)
  PROVE  Counted'
<1>1. open' = open \ {w} /\ w \in open /\ UNCHANGED <<req, opening, left, strays>>
  BY DEF WindowCloses
<1>2. Cardinality(open') = Cardinality(open) - 1
  BY <1>1, Counts, FS_RemoveElement
<1>3. Coming' = Coming
  BY <1>1 DEF Coming, LeftLaunches
<1>4. Coming \in Nat /\ Cardinality(open) \in Nat /\ strays \in Nat /\ Limit \in Nat
  BY Counts
<1>5. \A q \in Requests : Waits(q) => Waits(q)'
  BY <1>1 DEF Waits
<1> HIDE DEF Coming
<1>6. ComingAreStrays'
  <2>1. open' \subseteq open
    BY <1>1
  <2>2. QED BY <1>1, <1>3, <1>5, <2>1 DEF Counted, ComingAreStrays
<1>7. LimitKept'
  BY <1>1, <1>2, <1>3, <1>4 DEF Counted, LimitKept
<1>8. QED BY <1>6, <1>7 DEF Counted

\* The command of a dropped launch is run: what was to come is still to come.
LEMMA CountedLeft ==
  ASSUME TypeOK, Room, Numbers, Counted, LeftRuns
  PROVE  Counted'
<1>1. PICK c \in left : Runs(c) /\ left' = left \ {c} /\ UNCHANGED <<req, strays>>
  BY DEF LeftRuns
<1>2. UNCHANGED open
  BY <1>1 DEF Runs
<1>3. Coming' = Coming /\ opening \subseteq opening'
  <2>1. CASE c.at = "exec"
    <3>1. ExecFirefox(c)
      BY <1>1, <2>1 DEF Runs
    <3>2. Cardinality(opening') = Cardinality(opening) + 1 /\ opening \subseteq opening'
      BY <3>1, ExecCounts
    <3>3. LeftLaunches' = LeftLaunches \ {c} /\ c \in LeftLaunches
      BY <1>1, <2>1 DEF LeftLaunches
    <3>4. Cardinality(LeftLaunches') = Cardinality(LeftLaunches) - 1
      BY <3>3, Counts, FS_RemoveElement
    <3>5. QED BY <3>2, <3>4, Counts DEF Coming
  <2>2. CASE c.at # "exec"
    <3>1. UNCHANGED opening
      BY <1>1, <2>2 DEF Runs, SwitchWorkspace, FocusWindow
    <3>2. LeftLaunches' = LeftLaunches
      BY <1>1, <2>2 DEF LeftLaunches
    <3>3. QED BY <3>1, <3>2 DEF Coming
  <2>3. QED BY <2>1, <2>2
<1>4. \A q \in Requests : Waits(q) => Waits(q)'
  BY <1>1, <1>2, <1>3 DEF Waits
<1> HIDE DEF Coming
<1>5. QED BY <1>1, <1>2, <1>3, <1>4 DEF Counted, ComingAreStrays, LimitKept

LEMMA CountedCancel ==
  ASSUME TypeOK, Room, Counted, NEW r \in Requests, Cancel(r)
  PROVE  Counted'
<1> DEFINE x == [Idle EXCEPT !.at = req[r].at, !.window = req[r].window, !.workspace = req[r].workspace]
           new == {c \in left' \ left : c.at = "exec"}
<1>1. left' = left \/ left' = left \cup {x}
  BY DEF Cancel
<1> HIDE DEF x
<1>2. /\ Leaves(r) /\ strays' = strays + Cardinality(Own(req[r].no)) + Cardinality(new)
      /\ UNCHANGED <<open, opening>>
  BY DEF Cancel, Own, swayVars, firefoxVars
<1>3. LeftLaunches' = LeftLaunches \cup new /\ new \subseteq {x} /\ new \cap LeftLaunches = {}
  BY <1>1 DEF LeftLaunches
<1> HIDE DEF new
<1>4. Cardinality(new) \in Nat /\ Cardinality(LeftLaunches') = Cardinality(LeftLaunches) + Cardinality(new)
  <2>1. CASE new = {}
    <3>1. LeftLaunches' = LeftLaunches
      BY <1>3, <2>1
    <3>2. Cardinality(new) = 0
      BY <2>1, FS_EmptySet
    <3>3. QED BY <3>1, <3>2, Counts
  <2>2. CASE new = {x}
    <3>1. LeftLaunches' = LeftLaunches \cup {x} /\ x \notin LeftLaunches
      BY <1>3, <2>2
    <3>2. Cardinality(LeftLaunches') = Cardinality(LeftLaunches) + 1
      BY <3>1, Counts, FS_AddElement
    <3>3. Cardinality(new) = 1
      BY <2>2, FS_Singleton
    <3>4. QED BY <3>2, <3>3
  <2>3. QED BY <1>3, <2>1, <2>2
<1>5. QED BY <1>2, <1>4, CountedGivesUp

LEMMA CountedStep ==
  ASSUME TypeOK, Room, Phases, Numbers, Counted, [Next]_vars
  PROVE  Counted'
<1>1. ASSUME NEW r \in Requests, Request(r) PROVE Counted'
  <2>1. /\ Only(r) /\ req[r].at # "poll" /\ req'[r].at \notin {"workspace", "exec"}
        /\ UNCHANGED <<open, opening, left, strays>>
    BY <1>1, RequestIs DEF swayVars, firefoxVars, historyVars
  <2>2. QED BY <2>1, CountedKept
<1>2. ASSUME NEW r \in Requests, Leaves(r), req[r].at # "poll",
             UNCHANGED <<swayVars, firefoxVars, left, strays>>
      PROVE  Counted'
  <2>1. /\ Only(r) /\ req'[r].at \notin {"workspace", "exec"}
        /\ UNCHANGED <<open, opening, left, strays>>
    BY <1>2, LeavesIs DEF Idle, swayVars, firefoxVars
  <2>2. QED BY <1>2, <2>1, CountedKept
<1>3. ASSUME NEW r \in Requests, LaunchList(r) PROVE Counted'
  <2>1. CASE Leaves(r)
    BY <1>2, <1>3, <2>1 DEF LaunchList, At
  <2>2. QED BY <1>3, <2>1, CountedList
<1>4. ASSUME NEW r \in Requests, LaunchWorkspace(r) PROVE Counted'
  <2>1. /\ Keeps(r) /\ req[r].at = "workspace" /\ UNCHANGED <<open, opening, left, strays>>
        /\ req'[r].at = "exec"
    BY <1>4, WorkspaceIs DEF historyVars
  <2>2. Coming' = Coming
    BY <2>1 DEF Coming, LeftLaunches
  <2>3. \A q \in Requests : Waits(q) => Waits(q)'
    BY <2>1 DEF Waits, Keeps, Only
  <2> HIDE DEF Coming
  <2>4. QED BY <2>1, <2>2, <2>3 DEF Counted, ComingAreStrays, LimitKept, Keeps, Only
<1>5. ASSUME NEW r \in Requests, LaunchExec(r) PROVE Counted'
  BY <1>5, CountedExec
<1>6. ASSUME NEW r \in Requests, LaunchPoll(r) PROVE Counted'
  <2>1. /\ Only(r) /\ req[r].at = "poll" /\ req'[r].at = "check"
        /\ req'[r].window \in open \ req[r].known /\ UNCHANGED <<open, opening, left, strays>>
    BY <1>6, PollIs DEF swayVars, firefoxVars, historyVars
  <2>2. Coming' = Coming
    BY <2>1 DEF Coming, LeftLaunches
  <2>3. \A q \in Requests : Waits(q) => Waits(q)'
    <3>1. ~Waits(r)
      BY <2>1 DEF Waits
    <3>2. QED BY <2>1, <3>1 DEF Waits, Only
  <2> HIDE DEF Coming
  <2>4. QED BY <2>1, <2>2, <2>3 DEF Counted, ComingAreStrays, LimitKept, Only
<1>7. ASSUME NEW r \in Requests, LaunchTimeout(r) \/ Fails(r) PROVE Counted'
  <2>1. /\ Leaves(r) /\ strays' = strays + Cardinality(Own(req[r].no))
        /\ UNCHANGED <<open, opening, left>>
    BY <1>7 DEF LaunchTimeout, Fails, Own, swayVars, firefoxVars
  <2>2. /\ Cardinality(LeftLaunches') = Cardinality(LeftLaunches) + 0
        /\ strays' = strays + Cardinality(Own(req[r].no)) + 0
    BY <2>1, Counts, OwnCounts DEF LeftLaunches, Room
  <2>3. QED BY <2>1, <2>2, CountedGivesUp
<1>8. ASSUME NEW r \in Requests, Cancel(r) PROVE Counted'
  BY <1>8, CountedCancel
<1>9. ASSUME NEW r \in Requests, LaunchAnswers(r) \/ CloseAnswers(r) PROVE Counted'
  BY <1>2, <1>9 DEF LaunchAnswers, CloseAnswers, At
<1>10. ASSUME NEW r \in Requests,
              FocusCheck(r) \/ Fullscreen(r) \/ TypeUrl(r) \/ CloseCheck(r) \/ Kill(r)
       PROVE  Counted'
  <2>1. CASE Leaves(r)
    BY <1>2, <1>10, <2>1 DEF FocusCheck, Fullscreen, TypeUrl, CloseCheck, Kill, At, historyVars
  <2>2. CASE ~Leaves(r)
    <3>1. /\ Only(r) /\ req[r].at # "poll" /\ req'[r].at \notin {"workspace", "exec"}
          /\ UNCHANGED <<open, opening, left, strays>>
      BY <1>10, <2>2, MovesIs DEF Keeps, swayVars, firefoxVars
    <3>2. QED BY <3>1, CountedKept
  <2>3. QED BY <2>1, <2>2
<1>11. ASSUME NEW r \in Requests, FocusCommand(r) PROVE Counted'
  <2>1. /\ Only(r) /\ req[r].at # "poll" /\ req'[r].at \notin {"workspace", "exec"}
        /\ UNCHANGED <<open, opening, left, strays>>
    BY <1>11, CommandIs DEF Keeps
  <2>2. QED BY <2>1, CountedKept
<1>12. CASE UNCHANGED vars
  <2>1. UNCHANGED <<open, opening, left, strays, req>>
    BY <1>12 DEF vars, swayVars, firefoxVars, historyVars
  <2>2. Coming' = Coming
    BY <2>1 DEF Coming, LeftLaunches
  <2>3. \A q \in Requests : Waits(q) => Waits(q)'
    BY <2>1 DEF Waits
  <2> HIDE DEF Coming
  <2>4. QED BY <2>1, <2>2, <2>3 DEF Counted, ComingAreStrays, LimitKept
<1>13. QED
  BY <1>1, <1>3, <1>4, <1>5, <1>6, <1>7, <1>8, <1>9, <1>10, <1>11, <1>12, CountedOpens,
     CountedCloses, CountedLeft DEF Next, RequestStep
-----------------------------------------------------------------------------
(* The launch nothing came between.                                        *)

\* A step of others that touches no window leaves the launch as it is.
LEMMA UndisturbedSame ==
  ASSUME Undisturbed, UNCHANGED <<open, place, current, focused, opening, opener, holder>>,
         \A q \in Requests : holder = q => req'[q] = req[q], disturbed => disturbed'
  PROVE  Undisturbed'
<1> SUFFICES ASSUME NEW r \in Requests, holder = r, req[r].kind = "launch", ~disturbed
             PROVE  Alone(r)'
  BY DEF Undisturbed
<1>1. Alone(r) /\ req'[r] = req[r]
  BY DEF Undisturbed
<1>2. QED BY <1>1 DEF Alone

\* A step that counts as a disturbance may touch every window.
LEMMA UndisturbedDisturbs ==
  ASSUME TypeOK, Disturbs, UNCHANGED holder, \A q \in Requests : holder = q => req'[q] = req[q]
  PROVE  Undisturbed'
<1> SUFFICES ASSUME NEW r \in Requests, holder = r, req[r].kind = "launch", ~disturbed'
             PROVE  Alone(r)'
  BY DEF Undisturbed
<1>1. ~Launching
  BY DEF Disturbs, TypeOK
<1>2. req'[r].at = "list"
  BY <1>1, NobodyAssumption DEF Launching
<1>3. QED BY <1>2 DEF Alone

LEMMA UndisturbedLeaves ==
  ASSUME TypeOK, Undisturbed, NEW r \in Requests, Leaves(r), UNCHANGED <<swayVars, firefoxVars>>
  PROVE  Undisturbed'
<1>1. CASE holder = r
  BY <1>1, NobodyAssumption DEF Leaves, Undisturbed
<1>2. CASE holder # r
  <2>1. UNCHANGED holder /\ (disturbed => disturbed') /\ Only(r)
    BY <1>2, LeavesIs DEF Leaves, TypeOK
  <2>2. \A q \in Requests : holder = q => req'[q] = req[q]
    BY <1>2, <2>1 DEF Only
  <2>3. QED BY <2>1, <2>2, UndisturbedSame DEF swayVars, firefoxVars
<1>3. QED BY <1>1, <1>2

\* It is about the launch that has the mutex, and nobody else launches.
LEMMA UndisturbedOwn ==
  ASSUME NEW r \in Requests, holder' = r, ~disturbed' => Alone(r)'
  PROVE  Undisturbed'
  BY DEF Undisturbed

LEMMA UndisturbedList ==
  ASSUME TypeOK, Phases, NEW r \in Requests, LaunchList(r), ~Leaves(r)
  PROVE  Undisturbed'
<1>1. /\ req[r].at = "list" /\ req'[r].at = "workspace" /\ req'[r].known = open
      /\ \A w \in open : place[w] < req'[r].workspace
      /\ UNCHANGED <<holder, open, place>>
  BY ListIs DEF swayVars
<1>2. holder' = r
  BY <1>1 DEF Phases
<1>3. Alone(r)'
  BY <1>1 DEF Alone
<1>4. QED BY <1>2, <1>3, UndisturbedOwn

LEMMA UndisturbedExec ==
  ASSUME TypeOK, Phases, Numbers, Undisturbed, NEW r \in Requests,
         LaunchWorkspace(r) \/ LaunchExec(r)
  PROVE  Undisturbed'
<1>1. /\ req[r].at \in {"workspace", "exec"} /\ UNCHANGED <<holder, disturbed, open, place>>
      /\ req'[r].known = req[r].known /\ req'[r].workspace = req[r].workspace
  BY WorkspaceIs, ExecIs DEF Keeps, historyVars
<1>2. holder = r /\ holder' = r /\ req[r].kind = "launch"
  BY <1>1 DEF Phases
<1> SUFFICES ASSUME ~disturbed' PROVE Alone(r)'
  BY <1>2, UndisturbedOwn
<1>3. Alone(r)
  BY <1>1, <1>2 DEF Undisturbed
<1>4. CASE LaunchWorkspace(r)
  <2>1. req'[r].at = "exec" /\ current' = req[r].workspace
    BY <1>4, WorkspaceIs
  <2>2. QED BY <1>1, <1>3, <2>1 DEF Alone
<1>5. CASE LaunchExec(r)
  <2>1. /\ req[r].at = "exec" /\ req'[r].at = "poll" /\ req'[r].no = launched'
        /\ ExecFirefox(req[r]) /\ UNCHANGED current
    BY <1>5, ExecIs DEF ExecFirefox
  <2>2. /\ launched' = launched + 1
        /\ opening' = opening \cup {[no |-> launched', workspace |-> current]}
    BY <2>1 DEF ExecFirefox
  <2>3. current = req[r].workspace /\ open = req[r].known
        /\ \A w \in req[r].known : place[w] < req[r].workspace
    BY <1>3, <2>1 DEF Alone
  <2>4. \A o \in opening : o.no # launched'
    BY <2>2 DEF Numbers, TypeOK
  <2>5. \A o \in opening' : o.no = launched' => o.workspace = req[r].workspace
    BY <2>2, <2>3, <2>4
  <2>6. QED BY <1>1, <2>1, <2>3, <2>5 DEF Alone
<1>6. QED BY <1>4, <1>5

\* The window it finds is the one that was opened for it, on a workspace that no
\* other window is on.
LEMMA UndisturbedPoll ==
  ASSUME TypeOK, Phases, Undisturbed, NEW r \in Requests, LaunchPoll(r)
  PROVE  Undisturbed'
<1>1. /\ req[r].at = "poll" /\ req'[r].at = "check" /\ req'[r].no = req[r].no
      /\ req'[r].window \in open \ req[r].known
      /\ UNCHANGED <<holder, disturbed, open, place, opening, opener>>
  BY PollIs DEF swayVars, firefoxVars, historyVars
<1>2. holder = r /\ holder' = r /\ req[r].kind = "launch"
  BY <1>1 DEF Phases
<1> SUFFICES ASSUME ~disturbed' PROVE Alone(r)'
  BY <1>2, UndisturbedOwn
<1>3. Alone(r)
  BY <1>1, <1>2 DEF Undisturbed
<1> DEFINE window == req'[r].window
           known == req[r].known
           workspace == req[r].workspace
           no == req[r].no
<1>4. /\ \A w \in known : place[w] < workspace
      /\ \A o \in opening : o.no # no
      /\ \E w \in open \ known : open = known \cup {w} /\ place[w] = workspace /\ opener[w] = no
  BY <1>1, <1>3 DEF Alone
<1>5. workspace \in Int /\ \A w \in known : place[w] \in Int
  BY DEF TypeOK, RequestSet
<1>6. /\ open = known \cup {window} /\ place[window] = workspace /\ opener[window] = no
      /\ window \in open
  BY <1>1, <1>4
<1>7. \A w \in open : place[w] = place[window] => w = window
  BY <1>4, <1>5, <1>6
<1>8. QED BY <1>1, <1>4, <1>6, <1>7 DEF Alone

\* From then on it keeps its window, and the window its focus.
LEMMA UndisturbedMoves ==
  ASSUME TypeOK, Undisturbed, NEW r \in Requests,
         \/ FocusCheck(r) \/ Fullscreen(r) \/ TypeUrl(r) \/ CloseCheck(r) \/ Kill(r)
         \/ FocusCommand(r)
  PROVE  Undisturbed'
<1>1. CASE Leaves(r) /\ ~FocusCommand(r)
  BY <1>1, UndisturbedLeaves, MovesIs
<1>2. CASE holder # r /\ FocusCommand(r)
  <2>1. UNCHANGED holder /\ Disturbs /\ Only(r)
    BY <1>2, CommandIs DEF Keeps
  <2>2. QED BY <1>2, <2>1, UndisturbedDisturbs DEF Only
<1>3. CASE ~Leaves(r) /\ ~FocusCommand(r) /\ holder # r
  <2>1. /\ UNCHANGED <<open, place, current, focused, opening, opener, holder, disturbed>>
        /\ Only(r)
    BY <1>3, MovesIs DEF Keeps, swayVars, firefoxVars
  <2>2. QED BY <1>3, <2>1, UndisturbedSame DEF Only
<1>4. CASE holder = r /\ (FocusCommand(r) \/ ~Leaves(r))
  <2>1. /\ Keeps(r) /\ UNCHANGED <<open, place, opening, opener, holder, disturbed>>
        /\ \/ /\ req[r].at = "check" /\ req'[r].at = "focus"
           \/ /\ req[r].at = "focus" /\ req'[r].at = "fullscreen" /\ focused' = req[r].window
           \/ /\ req[r].at \in {"fullscreen", "type"} /\ req'[r].at \in {"type", "enter"}
              /\ UNCHANGED focused
           \/ req'[r].at \in {"kill", "gone"}
    BY <1>4, MovesIs, CommandIs DEF swayVars, firefoxVars
  <2> SUFFICES ASSUME ~disturbed', req'[r].kind = "launch" PROVE Alone(r)'
    BY <1>4, <2>1 DEF Undisturbed
  <2>2. Alone(r)
    BY <1>4, <2>1 DEF Undisturbed, Keeps
  <2>3. QED BY <2>1, <2>2 DEF Alone, Keeps
<1>5. QED BY <1>1, <1>2, <1>3, <1>4

\* The window comes that the launch under way waits for.
LEMMA UndisturbedOpens ==
  ASSUME TypeOK, TypeOK', Numbers, Undisturbed, FirefoxOpens
  PROVE  Undisturbed'
<1>1. PICK o \in opening :
        /\ opening' = opening \ {o}
        /\ opened' = opened + 1
        /\ opener' = [opener EXCEPT ![opened'] = o.no]
        /\ open' = open \cup {opened'}
        /\ \E ws \in {o.workspace, current} : place' = [place EXCEPT ![opened'] = ws]
        /\ IF holder # Nobody /\ req[holder].no = o.no THEN UNCHANGED disturbed ELSE Disturbs
        /\ UNCHANGED <<holder, req, current>>
  BY DEF FirefoxOpens
<1>2. CASE Disturbs
  BY <1>1, <1>2, UndisturbedDisturbs
<1>3. CASE ~Disturbs
  <2>1. holder # Nobody /\ req[holder].no = o.no /\ UNCHANGED disturbed
    BY <1>1, <1>3
  <2>2. SUFFICES ASSUME NEW r \in Requests, holder = r, req[r].kind = "launch", ~disturbed
                 PROVE  Alone(r)'
    BY <1>1, <2>1 DEF Undisturbed
  <2>3. Alone(r) /\ req[r].no = o.no
    BY <2>1, <2>2 DEF Undisturbed
  <2> DEFINE q == req[r]
             w == opened + 1
  <2>4. q.at \notin {"workspace", "exec"}
    <3>1. o.no \in 1..launched /\ launched \in Nat
      BY DEF Numbers, TypeOK
    <3>2. QED BY <2>3, <3>1 DEF Numbers
  <2>5. q.at \notin {"check", "focus", "fullscreen", "type", "enter"}
    BY <2>3 DEF Alone
  <2>6. CASE q.at = "poll"
    <3>1. /\ open = q.known /\ o.workspace = q.workspace /\ current = q.workspace
          /\ \A v \in q.known : place[v] < q.workspace
      BY <2>3, <2>6 DEF Alone
    <3>2. w \in Windows /\ w \notin open /\ \A v \in open : v # w
      BY <1>1 DEF TypeOK, Numbers, Windows
    <3>3. /\ place' = [place EXCEPT ![w] = q.workspace]
          /\ opener' = [opener EXCEPT ![w] = q.no]
          /\ open' = q.known \cup {w}
      BY <1>1, <2>3, <3>1
    <3>4. place'[w] = q.workspace /\ opener'[w] = q.no /\ \A v \in q.known : place'[v] = place[v]
      BY <3>1, <3>2, <3>3 DEF TypeOK
    <3>5. \A p \in opening' : p.no # q.no
      BY <1>1, <2>3 DEF Numbers
    <3>6. w \in open' \ q.known
      BY <3>1, <3>2, <3>3
    <3> HIDE DEF w
    <3>7. QED BY <1>1, <2>6, <3>1, <3>3, <3>4, <3>5, <3>6 DEF Alone
  <2>7. QED BY <1>1, <2>4, <2>5, <2>6 DEF Alone
<1>4. QED BY <1>2, <1>3

LEMMA UndisturbedStep ==
  ASSUME TypeOK, TypeOK', Phases, Numbers, Undisturbed, [Next]_vars
  PROVE  Undisturbed'
<1>1. ASSUME NEW r \in Requests, Request(r) PROVE Undisturbed'
  <2>1. /\ Only(r) /\ req[r].at = "idle"
        /\ \/ req'[r].at \in {"list", "exists"} /\ Lock(r)
           \/ UNCHANGED holder
        /\ UNCHANGED <<open, place, current, focused, opening, opener, disturbed>>
    BY <1>1, RequestIs DEF swayVars, firefoxVars, historyVars
  <2>2. CASE req'[r].at \in {"list", "exists"} /\ Lock(r)
    <3>1. Alone(r)'
      BY <2>2 DEF Alone
    <3>2. QED BY <2>2, <3>1, UndisturbedOwn DEF Lock
  <2>3. CASE UNCHANGED holder
    <3>1. holder # r
      BY <2>1 DEF Phases
    <3>2. QED BY <2>1, <2>3, <3>1, UndisturbedSame DEF Only
  <2>4. QED BY <2>1, <2>2, <2>3
<1>2. ASSUME NEW r \in Requests, LaunchList(r) PROVE Undisturbed'
  <2>1. CASE Leaves(r)
    BY <1>2, <2>1, UndisturbedLeaves DEF LaunchList
  <2>2. QED BY <1>2, <2>1, UndisturbedList
<1>3. ASSUME NEW r \in Requests,
             \/ LaunchTimeout(r) \/ CloseAnswers(r) \/ Fails(r) \/ Cancel(r) \/ LaunchAnswers(r)
      PROVE  Undisturbed'
  BY <1>3, EndsIs, AnswersIs, UndisturbedLeaves
<1>4. CASE SomebodyOpens \/ LeftRuns \/ (\E w \in Windows : WindowCloses(w))
  <2>1. Disturbs /\ UNCHANGED <<holder, req>>
    BY <1>4 DEF SomebodyOpens, LeftRuns, WindowCloses
  <2>2. QED BY <2>1, UndisturbedDisturbs
<1>5. CASE UNCHANGED vars
  <2>1. UNCHANGED <<open, place, current, focused, opening, opener, holder, req, disturbed>>
    BY <1>5 DEF vars, swayVars, firefoxVars, historyVars
  <2>2. QED BY <2>1, UndisturbedSame
<1>6. QED
  BY <1>1, <1>2, <1>3, <1>4, <1>5, UndisturbedExec, UndisturbedPoll, UndisturbedMoves,
     UndisturbedOpens DEF Next, RequestStep
-----------------------------------------------------------------------------
(* The theorems.                                                           *)

Inv == TypeOK /\ Room /\ Phases /\ Numbers /\ Ungiven /\ Counted /\ Undisturbed

LEMMA InvInit == Init => Inv
<1> SUFFICES ASSUME Init PROVE Inv
  OBVIOUS
<1> USE NobodyAssumption, NumberAssumption DEF Init
<1>1. TypeOK
  <2>1. req \in [Requests -> RequestSet]
    BY IdleTyped
  <2>2. place \in [Windows -> Nat] /\ opener \in [Windows -> Nat]
    OBVIOUS
  <2>3. opened \in 0..MaxWindows /\ focused \in 0..MaxWindows
    OBVIOUS
  <2>4. QED BY <2>1, <2>2, <2>3 DEF TypeOK
<1>2. opening = {} /\ left = {} /\ open = {} /\ LeftLaunches = {}
  BY DEF LeftLaunches
<1>3. Cardinality(opening) = 0 /\ Cardinality(left) = 0 /\ Cardinality(open) = 0
      /\ Cardinality(LeftLaunches) = 0 /\ IsFiniteSet(opening) /\ IsFiniteSet(left)
  BY <1>2, FS_EmptySet
<1>4. Room
  BY <1>3 DEF Room
<1>5. \A r \in Requests : req[r].at = "idle" /\ req[r].kind = "none"
  BY DEF Idle
<1>6. Phases /\ Numbers /\ Ungiven /\ Undisturbed
  BY <1>5 DEF Phases, Numbers, Ungiven, Undisturbed
<1>7. Counted
  BY <1>3, <1>5 DEF Counted, ComingAreStrays, LimitKept, Coming
<1>8. QED BY <1>1, <1>4, <1>6, <1>7 DEF Inv

LEMMA InvStep == Inv /\ [Next]_vars => Inv'
  BY TypesStep, PhasesStep, NumbersStep, UngivenStep, CountedStep, UndisturbedStep DEF Inv

LEMMA Invariance == Spec => []Inv
  BY InvInit, InvStep, PTL DEF Spec

\* Types are kept by every step, among them that a launch takes no workspace below
\* BROWSER_WORKSPACE_START and that no id beyond MaxWindows is given.
THEOREM TypeCorrect == Spec => []TypeOK
<1>1. Inv => TypeOK
  BY DEF Inv
<1>2. QED BY Invariance, <1>1, PTL

\* The limit of launch: whatever was late, failed or dropped, there are
\* never more windows, and windows Firefox was told to open, than the limit and
\* those no launch waits for.
THEOREM LimitIsKept == Spec => []WithinLimit
<1>1. Inv => WithinLimit
  <2> SUFFICES ASSUME Inv PROVE WithinLimit
    OBVIOUS
  <2>1. /\ Cardinality(open) \in Nat /\ Cardinality(opening) \in Nat
        /\ Cardinality(LeftLaunches) \in Nat /\ Limit \in Nat /\ strays \in Nat
    BY Counts DEF Inv
  <2>2. Cardinality(open) + (Cardinality(opening) + Cardinality(LeftLaunches)) <= Limit + strays
    BY DEF Inv, Counted, LimitKept, Coming
  <2>3. QED BY <2>1, <2>2 DEF WithinLimit
<1>2. QED BY Invariance, <1>1, PTL

\* launch: one that nothing came between has its window on a
\* workspace of its own when the address is typed.
THEOREM WorkspacesApart == Spec => []OwnWorkspace
<1>1. Inv => OwnWorkspace
  BY DEF Inv, OwnWorkspace, Undisturbed, Phases, Alone
<1>2. QED BY Invariance, <1>1, PTL

\* navigate_to_start: a launch that nothing came between types its address into
\* the window that Firefox opened for it.
THEOREM UrlWhereMeant == Spec => []UrlIntoItsWindow
<1>1. Inv => UrlIntoItsWindow
  BY DEF Inv, UrlIntoItsWindow, Undisturbed, Phases, Alone
<1>2. QED BY Invariance, <1>1, PTL

\* launch and its polls: no window is the answer of two launches.
THEOREM GivenOnce == Spec => EachLaunchItsWindow
<1>1. ASSUME Inv, NEW r \in Requests, LaunchAnswers(r) PROVE req[r].window \notin given
  <2>1. req[r].at = "enter"
    BY <1>1, AnswersIs
  <2>2. req[r].kind = "launch"
    BY <1>1, <2>1 DEF Inv, Phases
  <2>3. QED BY <1>1, <2>1, <2>2 DEF Inv, Ungiven
<1>2. Inv => [\A r \in Requests : LaunchAnswers(r) => req[r].window \notin given]_vars
  BY <1>1
<1>3. QED BY Invariance, <1>2, PTL DEF EachLaunchItsWindow
===============================================================================
